----------------------------- MODULE MCEncodings -----------------------------
(***************************************************************************)
(* Inputs for Encodings: all short texts over a few digits, and boundaries. *)
(***************************************************************************)
EXTENDS Encodings

Texts(characters, n) == UNION {[1 .. k -> characters] : k \in 0 .. n}

MCHexTexts == Texts({0, 1, 10, 15, NotADigit}, 5)

MCArraySizes == {NoArray, 2}

\* Every way to end in a group of four; 18 and 45 have alternating bits.
MCBase64Texts == Texts({0, 27, 63, Equals, NotADigit}, 3) \cup Texts({18, 45}, 7)

\* The first and last code points of each length, 0x1FFFF and what is beyond.
MCCodes == Texts({0, 127, 128, 2047, 2048, 65535, 65536, 131071, 131072, 1114111, 1114112}, 2)

\* "#x" and "#" with up to four digits, some of which end the number, and code
\* points of the four-byte form on both sides of 0x20000, up to those beyond it.
MCEntities ==
    {<<base>> \o digits : base \in {10, 16}, digits \in Texts({0, 1, 8, 15, NotADigit}, 4)}
    \cup {<<10, 6, 5, 5, 3, 6>>, <<10, 1, 2, 8, 5, 1, 2>>, <<10, 1, 3, 1, 0, 7, 1>>,
          <<10, 1, 3, 1, 0, 7, 2>>, <<16, 1, 0, 0, 0, 0>>, <<16, 1, 15, 6, 0, 0>>,
          <<16, 1, 15, 15, 15, 15>>, <<16, 2, 0, 0, 0, 0>>, <<16, 0, 1, 15, 6, 0, 0>>,
          <<16, 1, 0, 15, 15, 15, 15>>, <<16, 1, 1, 0, 0, 0, 0>>}

\* Messages that end in what looks like a marker or like zeros, up to two blocks.
MCMessages == {[i \in 1 .. n |-> byte] : n \in 0 .. 130, byte \in {0, 128}}

MCGarbage == {21, 63, NotFound}

\* ASCII.
Run(first, n) == [i \in 1 .. n |-> first + i - 1]
Lower  == Run(97, 26)
Upper  == Run(65, 26)
Figures == Run(48, 10)
Tens   == [i \in 1 .. 80 |-> 48 + (i % 10)]

Digest(hash, message, digest) == [hash |-> hash, message |-> message, digest |-> digest]

\* The test suite of RFC 1321, and the digest of nothing by SHA-1.
MCDigests == {
    Digest("MD5", << >>, <<212, 29, 140, 217, 143, 0, 178, 4, 233, 128, 9, 152, 236, 248, 66, 126>>),
    Digest("MD5", <<97>>, <<12, 193, 117, 185, 192, 241, 182, 168, 49, 195, 153, 226, 105, 119, 38, 97>>),
    Digest("MD5", <<97, 98, 99>>,
           <<144, 1, 80, 152, 60, 210, 79, 176, 214, 150, 63, 125, 40, 225, 127, 114>>),
    \* "message digest"
    Digest("MD5", <<109, 101, 115, 115, 97, 103, 101, 32, 100, 105, 103, 101, 115, 116>>,
           <<249, 107, 105, 125, 124, 183, 147, 141, 82, 90, 47, 49, 170, 241, 97, 208>>),
    Digest("MD5", Lower, <<195, 252, 211, 215, 97, 146, 228, 0, 125, 251, 73, 108, 202, 103, 225, 59>>),
    Digest("MD5", Upper \o Lower \o Figures,
           <<209, 116, 171, 152, 210, 119, 217, 245, 165, 97, 28, 44, 159, 65, 157, 159>>),
    Digest("MD5", Tens, <<87, 237, 244, 162, 43, 227, 201, 85, 172, 73, 218, 46, 33, 7, 182, 122>>),
    Digest("SHA1", << >>,
           <<218, 57, 163, 238, 94, 107, 75, 13, 50, 85, 191, 239, 149, 96, 24, 144, 175, 216, 7, 9>>)}
==============================================================================
