-------------------------------- MODULE Hashes --------------------------------
(***************************************************************************)
(* The words and rounds of MD5 and SHA-1 (include/booru/util/hash.hh).     *)
(* A uint32_t is a pair of 16 bits each, <<high, low>>; a State is a tuple  *)
(* of words.                                                               *)
(***************************************************************************)
EXTENDS Integers, Sequences

Half == 0 .. 2^16 - 1
Word == Half \X Half

Plus(a, b) ==
    LET low == a[2] + b[2]
    IN  <<(a[1] + b[1] + (low \div 65536)) % 65536, low % 65536>>

\* std::rotl, by less than 32.
Rotl(word, n) ==
    LET w == IF n < 16 THEN word ELSE <<word[2], word[1]>>
        k == n % 16
    IN  << ((w[1] * 2^k) % 65536) + (w[2] \div 2^(16 - k)),
           ((w[2] * 2^k) % 65536) + (w[1] \div 2^(16 - k)) >>

\* Bit i of a half, the lowest 0, and the half of sixteen bits.
BitOf(half, i) == (half \div 2^i) % 2

HalfOf(b) ==
    LET four(i) == b[i] + (2 * b[i + 1]) + (4 * b[i + 2]) + (8 * b[i + 3])
    IN  four(0) + (16 * four(4)) + (256 * four(8)) + (4096 * four(12))

ThreeBits == [1 .. 3 -> 0 .. 1]

\* The word that has f[<<b, c, d>>] of the bits of three words.
OnBits(f, b, c, d) ==
    LET half(h) == HalfOf([i \in 0 .. 15 |-> f[<<BitOf(b[h], i), BitOf(c[h], i), BitOf(d[h], i)>>]])
    IN  <<half(1), half(2)>>

Xor(a, b, c) == OnBits([x \in ThreeBits |-> (x[1] + x[2] + x[3]) % 2], a, b, c)

\* Words 1, 2 and 3 of a state, counted from 0: B, C and D.
BitSelBCD(s) == OnBits([x \in ThreeBits |-> IF x[1] = 1 THEN x[2] ELSE x[3]], s[2], s[3], s[4])
BitSelDBC(s) == OnBits([x \in ThreeBits |-> IF x[3] = 1 THEN x[1] ELSE x[2]], s[2], s[3], s[4])
BitXorBCD(s) == Xor(s[2], s[3], s[4])
BitMajBCD(s) == OnBits([x \in ThreeBits |-> (x[1] + x[2] + x[3]) \div 2], s[2], s[3], s[4])
BitIBCD(s)   == OnBits([x \in ThreeBits |-> IF x[1] = 0 /\ x[3] = 1 THEN x[2] ELSE 1 - x[2]], s[2], s[3], s[4])

StateSum(s, t) == [i \in DOMAIN s |-> Plus(s[i], t[i])]

----------------------------------------------------------------------------
\* MD5

MD5InitialState == << <<\h6745, \h2301>>, <<\hEFCD, \hAB89>>, <<\h98BA, \hDCFE>>, <<\h1032, \h5476>> >>

MD5S == << <<7, 12, 17, 22>>, <<5, 9, 14, 20>>, <<4, 11, 16, 23>>, <<6, 10, 15, 21>> >>

MD5K ==
    <<<<\hD76A, \hA478>>, <<\hE8C7, \hB756>>, <<\h2420, \h70DB>>, <<\hC1BD, \hCEEE>>,
      <<\hF57C, \h0FAF>>, <<\h4787, \hC62A>>, <<\hA830, \h4613>>, <<\hFD46, \h9501>>,
      <<\h6980, \h98D8>>, <<\h8B44, \hF7AF>>, <<\hFFFF, \h5BB1>>, <<\h895C, \hD7BE>>,
      <<\h6B90, \h1122>>, <<\hFD98, \h7193>>, <<\hA679, \h438E>>, <<\h49B4, \h0821>>,
      <<\hF61E, \h2562>>, <<\hC040, \hB340>>, <<\h265E, \h5A51>>, <<\hE9B6, \hC7AA>>,
      <<\hD62F, \h105D>>, <<\h0244, \h1453>>, <<\hD8A1, \hE681>>, <<\hE7D3, \hFBC8>>,
      <<\h21E1, \hCDE6>>, <<\hC337, \h07D6>>, <<\hF4D5, \h0D87>>, <<\h455A, \h14ED>>,
      <<\hA9E3, \hE905>>, <<\hFCEF, \hA3F8>>, <<\h676F, \h02D9>>, <<\h8D2A, \h4C8A>>,
      <<\hFFFA, \h3942>>, <<\h8771, \hF681>>, <<\h6D9D, \h6122>>, <<\hFDE5, \h380C>>,
      <<\hA4BE, \hEA44>>, <<\h4BDE, \hCFA9>>, <<\hF6BB, \h4B60>>, <<\hBEBF, \hBC70>>,
      <<\h289B, \h7EC6>>, <<\hEAA1, \h27FA>>, <<\hD4EF, \h3085>>, <<\h0488, \h1D05>>,
      <<\hD9D4, \hD039>>, <<\hE6DB, \h99E5>>, <<\h1FA2, \h7CF8>>, <<\hC4AC, \h5665>>,
      <<\hF429, \h2244>>, <<\h432A, \hFF97>>, <<\hAB94, \h23A7>>, <<\hFC93, \hA039>>,
      <<\h655B, \h59C3>>, <<\h8F0C, \hCC92>>, <<\hFFEF, \hF47D>>, <<\h8584, \h5DD1>>,
      <<\h6FA8, \h7E4F>>, <<\hFE2C, \hE6E0>>, <<\hA301, \h4314>>, <<\h4E08, \h11A1>>,
      <<\hF753, \h7E82>>, <<\hBD3A, \hF235>>, <<\h2AD7, \hD2BB>>, <<\hEB86, \hD391>>>>

\* A byte shifted into a word from above.
ShiftIn(byte, word) ==
    <<(byte * 256) + (word[1] \div 256), ((word[1] % 256) * 256) + (word[2] \div 256)>>

\* Word k of a block, counted from 0: each of its bytes is shifted in; what the
\* uninitialized word held is out at the other end then.
MD5Value(block, k, garbage) ==
    ShiftIn(block[(4 * k) + 4],
            ShiftIn(block[(4 * k) + 3], ShiftIn(block[(4 * k) + 2], ShiftIn(block[(4 * k) + 1], garbage))))

MD5Values(block, garbage) == [k \in 1 .. 16 |-> MD5Value(block, k - 1, garbage)]

\* Mutant: the second sixteen are taken in the order of the third.
MD5IndexOfThird(i) ==
    CASE i \div 16 = 0 -> i
      [] i \div 16 \in {1, 2} -> ((i * 3) + 5) % 16
      [] i \div 16 = 3 -> (i * 7) % 16

\* The word of the block, counted from 0, that round i takes.
MD5Index(i) ==
    CASE i \div 16 = 0 -> i
      [] i \div 16 = 1 -> ((i * 5) + 1) % 16
      [] i \div 16 = 2 -> ((i * 3) + 5) % 16
      [] i \div 16 = 3 -> (i * 7) % 16

\* Round i.
MD5Step(s, i, values) ==
    LET f == CASE i \div 16 = 0 -> BitSelBCD(s)
               [] i \div 16 = 1 -> BitSelDBC(s)
               [] i \div 16 = 2 -> BitXorBCD(s)
               [] i \div 16 = 3 -> BitIBCD(s)
        mixed == Plus(Plus(s[1], f), Plus(MD5K[i + 1], values[MD5Index(i) + 1]))
    IN  <<s[4], Plus(s[2], Rotl(mixed, MD5S[(i \div 16) + 1][(i % 4) + 1])), s[2], s[3]>>

\* Byte j of a word, from the lowest.
ByteOf(word, j) == (word[IF j < 2 THEN 2 ELSE 1] \div 256^(j % 2)) % 256

MD5Sum(state) == [i \in 1 .. 16 |-> ByteOf(state[((i - 1) \div 4) + 1], (i - 1) % 4)]

----------------------------------------------------------------------------
\* SHA-1

SHA1InitialState == MD5InitialState \o << <<\hC3D2, \hE1F0>> >>

SHA1K == << <<\h5A82, \h7999>>, <<\h6ED9, \hEBA1>>, <<\h8F1B, \hBCDC>>, <<\hCA62, \hC1D6>> >>

\* The words of the block, highest byte first,
SHA1Values(block) ==
    [k \in 1 .. 16 |-> << (block[(4 * k) - 3] * 256) + block[(4 * k) - 2],
                          (block[(4 * k) - 1] * 256) + block[4 * k] >>]

\* and the next of the 64 made from them.
SHA1NextValue(v) ==
    LET n == Len(v) + 1
    IN  Rotl(Xor(Xor(v[n - 3], v[n - 8], v[n - 14]), v[n - 16], <<0, 0>>), 1)

\* Round i.
SHA1Step(s, i, values) ==
    LET n == i \div 20
        f == CASE n = 0 -> BitSelBCD(s) [] n = 2 -> BitMajBCD(s) [] OTHER -> BitXorBCD(s)
        t == Plus(Plus(Rotl(s[1], 5), f), Plus(Plus(s[5], SHA1K[n + 1]), values[i + 1]))
    IN  <<t, s[1], Rotl(s[2], 30), s[3], s[4]>>

SHA1Sum(state) == [i \in 1 .. 20 |-> ByteOf(state[((i - 1) \div 4) + 1], 3 - ((i - 1) % 4))]
===============================================================================
