------------------------------ MODULE Encodings ------------------------------
(***************************************************************************)
(* The conversions of string.cc and the digests of util/hash.hh: one call   *)
(* with its loop, an iteration a step, for every input of the constants.   *)
(* A character is what the code looks up for it: the value of a hex or     *)
(* base64 digit, or a code point.                                          *)
(***************************************************************************)
EXTENDS Integers, Sequences, SequencesExt, Hashes

CONSTANTS
    HexTexts,     \* sequences of 0..15 and NotADigit
    ArraySizes,   \* sizes of a ByteArray, and NoArray
    Base64Texts,  \* sequences of 0..63, Equals and NotADigit
    Codes,        \* sequences of code points
    Entities,     \* a base and the digits of a numeric HTML entity
    Messages,     \* sequences of bytes
    Digests,      \* records of a hash, a message and its published digest
    BlockLength,  \* _BlockLength
    Garbage       \* values an uninitialized byte is looked up as

NotADigit == -1
NoArray   == -1     \* into a ByteVector
Equals    == 64
NotFound  == 255    \* std::string_view::npos in a Byte
Byte      == 0 .. 2^8 - 1

ASSUME HexTextsAssumption == HexTexts \subseteq Seq((0 .. 15) \cup {NotADigit})

ASSUME ArraySizesAssumption == ArraySizes \subseteq Nat \cup {NoArray}

ASSUME Base64TextsAssumption == Base64Texts \subseteq Seq((0 .. 64) \cup {NotADigit})

ASSUME CodesAssumption == Codes \subseteq Seq(Nat)

\* The value of seven digits is in the range of std::from_chars.
ASSUME EntitiesAssumption ==
    \A e \in Entities : /\ e \in Seq((0 .. 16) \cup {NotADigit})
                        /\ Len(e) \in 1 .. 8 /\ Head(e) \in {10, 16}

ASSUME BlockLengthAssumption == BlockLength \in Nat /\ BlockLength >= 64

\* The size of a padded message is a uint32_t: nearly 2^32.
Fits(message) ==
    message \in Seq(Byte) /\ (Len(message) + BlockLength) \div 65536 < 65535

ASSUME MessagesAssumption == \A m \in Messages : Fits(m)

ASSUME DigestsAssumption == \A d \in Digests : d.hash \in {"MD5", "SHA1"} /\ Fits(d.message)

ASSUME GarbageAssumption == Garbage \subseteq Byte

VARIABLES
    call,         \* the function
    text,         \* its argument
    array,        \* N of ParseHexArray and ParseBase64Array
    pos,          \* loop iterations done
    result,       \* bytes written so far
    returned,     \* "no" while the call runs, then its result code
    curByteValue, \* ParseHex
    lowNybble,
    scratchPad,   \* ParseBase64
    counter,
    numMsgBits,   \* PadMessage
    state,        \* MD5 and SHA1: the words after the blocks so far
    idxBlock,
    roundState,   \* and after the rounds of this block
    idxRound,
    values        \* the words of this block

hexVars    == <<curByteValue, lowNybble>>
base64Vars == <<scratchPad, counter>>
digestVars == <<state, idxBlock, roundState, idxRound, values>>
vars       == <<call, text, array, pos, result, returned, hexVars, base64Vars, numMsgBits, digestVars>>

TypeOK ==
    /\ result \in Seq(Byte)
    /\ pos \in 0 .. Len(text) + 8
    /\ array \in ArraySizes \cup {NoArray}
    /\ returned \in {"no", "OK", "InvalidArgument", "ArgumentTooLong", "ArgumentTooShort"}
    /\ curByteValue \in Byte
    /\ lowNybble \in BOOLEAN
    /\ scratchPad \in [1 .. 4 -> Byte]
    /\ counter \in 0 .. 3
    /\ numMsgBits \in Nat
    /\ state \in Seq(Word) /\ roundState \in Seq(Word) /\ values \in Seq(Word)
    /\ idxBlock \in 0 .. Len(text) + 1
    /\ idxRound \in 0 .. 80

\* Mutant: an odd digit ends the text instead of starting it.
StartsHigh(digits) == FALSE

\* "start on low nybble if string has odd number of digits"
StartsLow(digits) == Len(digits) % 2 = 1

InitialState(hash) ==
    CASE hash = "MD5" -> MD5InitialState [] hash = "SHA1" -> SHA1InitialState [] OTHER -> <<>>

Init ==
    /\ \/ call = "ParseHex" /\ text \in HexTexts
       \/ call = "ParseBase64" /\ text \in Base64Texts
       \/ call = "ConvertC32ToUTF8" /\ text \in Codes
       \/ call = "ParseHTMLEntity" /\ text \in Entities
       \/ call = "PadMessage" /\ text \in Messages
       \/ \E d \in Digests : call = d.hash /\ text = d.message
    /\ array \in IF call \in {"ParseHex", "ParseBase64"} THEN ArraySizes ELSE {NoArray}
    /\ pos = 0
    /\ result = <<>>
    /\ returned = "no"
    /\ curByteValue = 0
    /\ lowNybble = StartsLow(text)
    \* Declared without a value; only ParseBase64 has it.
    /\ scratchPad \in IF call = "ParseBase64" THEN [1 .. 4 -> Garbage] ELSE {[i \in 1 .. 4 |-> 0]}
    /\ counter = 0
    /\ numMsgBits = 8 * Len(text)
    /\ state = InitialState(call)
    /\ idxBlock = 0
    /\ roundState = <<>> /\ idxRound = 0 /\ values = <<>>

Calling(f) == call = f /\ returned = "no"

\* What ParseHexArray and ParseBase64Array make of n bytes; the others return
\* what there is.
ResultOf(n) ==
    IF array \in {NoArray, n} THEN "OK"
    ELSE IF n > array THEN "ArgumentTooLong" ELSE "ArgumentTooShort"

----------------------------------------------------------------------------
\* Hexadecimal text

\* ToString of bytes: their digits, as IntToHexChar looks them up.
HexString(bytes) ==
    [i \in 1 .. 2 * Len(bytes) |-> IF i % 2 = 1 THEN bytes[(i + 1) \div 2] \div 16 ELSE bytes[i \div 2] % 16]

ParseHexDigit ==
    /\ Calling("ParseHex") /\ pos < Len(text)
    /\ text[pos + 1] # NotADigit
    /\ LET byte == (curByteValue * 16 + text[pos + 1]) % 256
       IN  IF lowNybble
           THEN result' = Append(result, byte) /\ curByteValue' = 0
           ELSE result' = result /\ curByteValue' = byte
    /\ lowNybble' = ~lowNybble
    /\ pos' = pos + 1
    /\ UNCHANGED <<call, text, array, returned, base64Vars, numMsgBits, digestVars>>

\* A character that is no digit ends the call with an error.
Refuse ==
    /\ Calling("ParseHex") \/ Calling("ParseBase64")
    /\ pos < Len(text) /\ text[pos + 1] = NotADigit
    /\ returned' = "InvalidArgument"
    /\ UNCHANGED <<call, text, array, pos, result, hexVars, base64Vars, numMsgBits, digestVars>>

ParseHexEnd ==
    /\ Calling("ParseHex") /\ pos = Len(text)
    /\ result' = IF lowNybble THEN Append(result, (curByteValue * 16) % 256) ELSE result
    /\ returned' = ResultOf(Len(result'))
    /\ UNCHANGED <<call, text, array, pos, hexVars, base64Vars, numMsgBits, digestVars>>

----------------------------------------------------------------------------
\* Base64

\* high | low, where the bits of a digit do not overlap with high's.
BitOr(high, low) == IF low = NotFound THEN NotFound ELSE high + low

\* Four characters make three bytes.
Convert(pad) ==
    << ((pad[1] * 4) % 256) + ((pad[2] \div 16) % 4),
       ((pad[2] % 16) * 16) + ((pad[3] \div 4) % 16),
       BitOr((pad[3] % 4) * 64, pad[4]) >>

ParseBase64Digit ==
    /\ Calling("ParseBase64") /\ pos < Len(text)
    /\ text[pos + 1] \notin {NotADigit, Equals}
    /\ LET filled == [scratchPad EXCEPT ![counter + 1] = text[pos + 1]]
       IN  IF counter = 3
           THEN /\ result' = result \o Convert(filled)
                /\ scratchPad' = [i \in 1 .. 4 |-> NotFound]    \* fill(0): NUL is no digit
           ELSE result' = result /\ scratchPad' = filled
    /\ counter' = (counter + 1) % 4
    /\ pos' = pos + 1
    /\ UNCHANGED <<call, text, array, returned, hexVars, numMsgBits, digestVars>>

\* Mutant: a byte of the padding is kept.
KeptOneMore(n) == n

\* resize: of the last three bytes, those that the n characters of an
\* incomplete group fill.
Kept(n) == n - 1

\* At the end of the text or at "=".
ParseBase64End ==
    /\ Calling("ParseBase64")
    /\ pos < Len(text) => text[pos + 1] = Equals
    /\ result' = IF counter = 0 THEN result
                 ELSE result \o SubSeq(Convert(scratchPad), 1, Kept(counter))
    /\ returned' = ResultOf(Len(result'))
    /\ UNCHANGED <<call, text, array, pos, hexVars, base64Vars, numMsgBits, digestVars>>

----------------------------------------------------------------------------
\* UTF-8 and numeric HTML entities

\* Mutant: all bits of c above the lowest n.
TrailUnmasked(c, n) == 128 + (c \div 2^n)

\* The six bits of c above the lowest n.
Trail(c, n) == 128 + ((c \div 2^n) % 64)

\* Mutant: the first code point that needs three bytes gets two.
UTF8Boundary(c) ==
    IF c < 128 THEN <<c>>
    ELSE IF c <= 2048 THEN <<192 + ((c \div 64) % 32), Trail(c, 0)>>
    ELSE IF c < 65536 THEN <<224 + ((c \div 4096) % 16), Trail(c, 6), Trail(c, 0)>>
    ELSE IF c < 1114112 THEN <<240 + ((c \div 2^17) % 8), Trail(c, 12), Trail(c, 6), Trail(c, 0)>>
    ELSE <<>>

\* The lead byte of four takes the bits from 17 instead of 18; above 0x10FFFF
\* there is nothing.
UTF8(c) ==
    IF c < 128 THEN <<c>>
    ELSE IF c < 2048 THEN <<192 + ((c \div 64) % 32), Trail(c, 0)>>
    ELSE IF c < 65536 THEN <<224 + ((c \div 4096) % 16), Trail(c, 6), Trail(c, 0)>>
    ELSE IF c < 1114112 THEN <<240 + ((c \div 2^17) % 8), Trail(c, 12), Trail(c, 6), Trail(c, 0)>>
    ELSE <<>>

ConvertC32ToUTF8 ==
    /\ Calling("ConvertC32ToUTF8") /\ pos < Len(text)
    /\ result' = result \o UTF8(text[pos + 1])
    /\ pos' = pos + 1
    /\ UNCHANGED <<call, text, array, returned, hexVars, base64Vars, numMsgBits, digestVars>>

ConvertC32ToUTF8End ==
    /\ Calling("ConvertC32ToUTF8") /\ pos = Len(text)
    /\ returned' = "OK"
    /\ UNCHANGED <<call, text, array, pos, result, hexVars, base64Vars, numMsgBits, digestVars>>

Number(digits, base) == FoldLeft(LAMBDA n, d : n * base + d, 0, digits)

\* std::from_chars: as far as there are digits of the base; 0 if there are
\* none.  Values stay below 2^31 here.
FromChars(digits, base) ==
    LET valid == {n \in 0 .. Len(digits) : \A i \in 1 .. n : digits[i] \in 0 .. base - 1}
    IN  Number(SubSeq(digits, 1, CHOOSE n \in valid : \A m \in valid : m <= n), base)

\* Mutant: the base of one form for both.
ParseHTMLEntityDecimal ==
    /\ Calling("ParseHTMLEntity")
    /\ result' = UTF8(FromChars(Tail(text), 10))
    /\ returned' = "OK"
    /\ UNCHANGED <<call, text, array, pos, hexVars, base64Vars, numMsgBits, digestVars>>

\* "#x" or "#", and the digits: whatever cannot be parsed is logged and converted.
ParseHTMLEntity ==
    /\ Calling("ParseHTMLEntity")
    /\ result' = UTF8(FromChars(Tail(text), Head(text)))
    /\ returned' = "OK"
    /\ UNCHANGED <<call, text, array, pos, hexVars, base64Vars, numMsgBits, digestVars>>

----------------------------------------------------------------------------
\* PadMessage

\* Mutant: no room for the size.
NumBlocksOfMarked(n) == ((n + 1) \div BlockLength) + 1

NumMsgBlocks(n) == ((n + 9) \div BlockLength) + 1

\* The digests call it first.
Padding == Calling("PadMessage") \/ Calling("MD5") \/ Calling("SHA1")

\* The message and its marker in a vector of zeros.
PadMessage ==
    /\ Padding /\ result = <<>>
    /\ result' = [i \in 1 .. NumMsgBlocks(Len(text)) * BlockLength |->
                     IF i <= Len(text) THEN text[i] ELSE IF i = Len(text) + 1 THEN 128 ELSE 0]
    /\ UNCHANGED <<call, text, array, pos, returned, hexVars, base64Vars, numMsgBits, digestVars>>

\* The size, lowest byte first.
PadMessageSize ==
    /\ Padding /\ result # <<>> /\ pos < 8
    /\ result' = [result EXCEPT ![Len(result) - 7 + pos] = numMsgBits % 256]
    /\ numMsgBits' = numMsgBits \div 256
    /\ pos' = pos + 1
    /\ UNCHANGED <<call, text, array, returned, hexVars, base64Vars, digestVars>>

PadMessageEnd ==
    /\ Calling("PadMessage") /\ pos = 8
    /\ returned' = "OK"
    /\ UNCHANGED <<call, text, array, pos, result, hexVars, base64Vars, numMsgBits, digestVars>>

----------------------------------------------------------------------------
\* Digest

\* What a word that is declared without a value may hold.
AnyWord == {<<0, 0>>, <<43690, 21845>>, <<65535, 65535>>}

DigestBlock ==
    /\ pos = 8 /\ values = <<>> /\ idxBlock < Len(result) \div BlockLength
    /\ LET block == SubSeq(result, (idxBlock * BlockLength) + 1, (idxBlock + 1) * BlockLength)
       IN  \/ Calling("MD5") /\ \E garbage \in AnyWord : values' = MD5Values(block, garbage)
           \/ Calling("SHA1") /\ values' = SHA1Values(block)
    /\ roundState' = state
    /\ idxRound' = 0
    /\ UNCHANGED <<call, text, array, pos, result, returned, hexVars, base64Vars, numMsgBits,
                   state, idxBlock>>

\* The 80 values of SHA-1.
DigestValue ==
    /\ Calling("SHA1") /\ Len(values) \in 16 .. 79
    /\ values' = Append(values, SHA1NextValue(values))
    /\ UNCHANGED <<call, text, array, pos, result, returned, hexVars, base64Vars, numMsgBits,
                   state, idxBlock, roundState, idxRound>>

DigestRound ==
    /\ values # <<>>
    /\ \/ Calling("MD5") /\ idxRound < 64 /\ roundState' = MD5Step(roundState, idxRound, values)
       \/ /\ Calling("SHA1") /\ Len(values) = 80 /\ idxRound < 80
          /\ roundState' = SHA1Step(roundState, idxRound, values)
    /\ idxRound' = idxRound + 1
    /\ UNCHANGED <<call, text, array, pos, result, returned, hexVars, base64Vars, numMsgBits,
                   state, idxBlock, values>>

DigestBlockEnd ==
    /\ values # <<>>
    /\ \/ Calling("MD5") /\ idxRound = 64
       \/ Calling("SHA1") /\ idxRound = 80
    /\ state' = StateSum(state, roundState)
    /\ idxBlock' = idxBlock + 1
    /\ values' = <<>>
    /\ UNCHANGED <<call, text, array, pos, result, returned, hexVars, base64Vars, numMsgBits,
                   roundState, idxRound>>

DigestEnd ==
    /\ pos = 8 /\ values = <<>> /\ idxBlock = Len(result) \div BlockLength
    /\ \/ Calling("MD5") /\ result' = MD5Sum(state)
       \/ Calling("SHA1") /\ result' = SHA1Sum(state)
    /\ returned' = "OK"
    /\ UNCHANGED <<call, text, array, pos, hexVars, base64Vars, numMsgBits, digestVars>>

Next ==
    \/ ParseHexDigit \/ ParseHexEnd
    \/ ParseBase64Digit \/ ParseBase64End
    \/ Refuse
    \/ ConvertC32ToUTF8 \/ ConvertC32ToUTF8End
    \/ ParseHTMLEntity
    \/ PadMessage \/ PadMessageSize \/ PadMessageEnd
    \/ DigestBlock \/ DigestValue \/ DigestRound \/ DigestBlockEnd \/ DigestEnd

Spec == Init /\ [][Next]_vars

----------------------------------------------------------------------------
Returned(f) == call = f /\ returned # "no"

\* Bit i, from the highest of the first, of numbers with width bits each.
Bit(numbers, width, i) ==
    (numbers[(i \div width) + 1] \div 2^(width - 1 - (i % width))) % 2

SameBits(bytes, digits, width) ==
    \A i \in 0 .. 8 * Len(bytes) - 1 : Bit(bytes, 8, i) = Bit(digits, width, i)

\* ParseHex returns the bytes that ToString writes with the same digits, behind
\* a 0 if there is an odd number of them; it refuses exactly what has another
\* character in it, and its array variant what has another length
\* (string.cc:119-155, string.hh:36-49, 106-115).
HexKeepsTheNumber ==
    Returned("ParseHex") =>
        LET digits == IF Len(text) % 2 = 0 THEN text ELSE <<0>> \o text
        IN  /\ returned = "InvalidArgument" <=> NotADigit \in ToSet(text)
            /\ returned # "InvalidArgument" => HexString(result) = digits
            /\ returned = "ArgumentTooLong" => Len(digits) > 2 * array
            /\ returned = "ArgumentTooShort" => Len(digits) < 2 * array
            /\ returned = "OK" => array \in {NoArray, Len(digits) \div 2}

\* ParseBase64 returns the bits of the digits before "=", as many as make whole
\* bytes, whatever is behind it; nothing of the uninitialized scratch pad or of
\* its fill is left in the result, nor in the length that the array variant
\* looks at (string.cc:157-203, string.hh:119-129).
Base64KeepsTheBits ==
    Returned("ParseBase64") =>
        LET ends   == {i \in DOMAIN text : text[i] = Equals}
            last   == IF ends = {} THEN Len(text)
                      ELSE (CHOOSE i \in ends : \A j \in ends : i <= j) - 1
            digits == SubSeq(text, 1, last)
            size   == (6 * Len(digits)) \div 8
        IN  /\ returned = "InvalidArgument" <=> NotADigit \in ToSet(digits)
            /\ returned # "InvalidArgument" => Len(result) = size /\ SameBits(result, digits, 6)
            /\ returned = "ArgumentTooLong" => size > array
            /\ returned = "ArgumentTooShort" => size < array
            /\ returned = "OK" => array \in {NoArray, size}

\* Decoding by the definition of UTF-8: the length of the form that starts with
\* a byte, and its code point.
Lead(byte) == IF byte < 128 THEN 1 ELSE IF byte < 224 THEN 2 ELSE IF byte < 240 THEN 3 ELSE 4

CodeAt(bytes, i) ==
    LET trail(k) == bytes[i + k] % 64
    IN  CASE Lead(bytes[i]) = 1 -> bytes[i]
          [] Lead(bytes[i]) = 2 -> ((bytes[i] % 32) * 64) + trail(1)
          [] Lead(bytes[i]) = 3 -> ((bytes[i] % 16) * 4096) + (trail(1) * 64) + trail(2)
          [] Lead(bytes[i]) = 4 -> ((bytes[i] % 8) * 262144) + (trail(1) * 4096) + (trail(2) * 64) + trail(3)

Size(c) == IF c < 128 THEN 1 ELSE IF c < 2048 THEN 2 ELSE IF c < 65536 THEN 3 ELSE 4

\* Each code is at its start, in its shortest form, one behind the other.
DecodesFrom(start, bytes, codes) ==
    /\ \A j, k \in 1 .. Len(codes) : j < k => start[j] < start[k]
    /\ \A i \in 1 .. Len(bytes) :
           bytes[i] \notin 128 .. 191 <=> \E k \in 1 .. Len(codes) : start[k] = i
    /\ \A k \in 1 .. Len(codes) :
           /\ Lead(bytes[start[k]]) = Size(codes[k])
           /\ start[k] + Size(codes[k]) = IF k = Len(codes) THEN Len(bytes) + 1 ELSE start[k + 1]
           /\ CodeAt(bytes, start[k]) = codes[k]

\* The bytes are those of the codes.
Decodes(bytes, codes) ==
    \E start \in [1 .. Len(codes) -> 1 .. Len(bytes)] : DecodesFrom(start, bytes, codes)

\* A text of code points below 0x20000, where the shift of the lead byte does
\* not matter yet (string.cc:38), comes back from its UTF-8, which has the
\* shortest form of each (string.cc:17-52).
UTF8Decodes ==
    Returned("ConvertC32ToUTF8") /\ (\A i \in DOMAIN text : text[i] < 2^17) => Decodes(result, text)

\* A numeric entity whose digits are all of its base, and make a code point below
\* 0x20000, becomes the UTF-8 of that code point.  From there on the lead byte is
\* shifted by 17 instead of 18 bits and it becomes something else
\* (string.cc:38, 56-80).
EntitiesDecode ==
    LET digits == Tail(text)
        code   == Number(digits, Head(text))
    IN  /\ Returned("ParseHTMLEntity")
        /\ digits # <<>> /\ \A i \in DOMAIN digits : digits[i] \in 0 .. Head(text) - 1
        /\ code < 2^17
        => Decodes(result, <<code>>)

\* A padded message is whole blocks, the last one not only zeros before its
\* size; the message, its marker and its size do not overlap, whatever the
\* message ends with, so that no two messages are padded to one
\* (hash.hh:66-96).  It may have one block more than MD5 and SHA-1 ask for, and
\* its size has the lowest byte first (hash.hh:88-92), as MD5 wants it.  The
\* comment of the function says otherwise, "a size field (64bit big endian of
\* number of bits)" (hash.hh:66-67), and so does SHA-1.
PaddingKeepsTheMessage ==
    Returned("PadMessage") =>
        LET n     == Len(text)
            total == Len(result)
            byte(i) == result[total - 8 + i]
            size  == byte(1) + 256 * (byte(2) + 256 * (byte(3) + 256 * (byte(4)
                     + 256 * (byte(5) + 256 * (byte(6) + 256 * (byte(7) + 256 * byte(8)))))))
        IN  /\ total % BlockLength = 0
            /\ n + 9 <= total /\ total <= n + 9 + BlockLength
            /\ SubSeq(result, 1, n) = text
            /\ result[n + 1] = 128
            /\ \A i \in n + 2 .. total - 8 : result[i] = 0
            /\ size = 8 * n

\* A digest is the published one, whatever the words of a block held before
\* (hash.hh:114-120), where the message is padded as its hash asks: for MD5 if
\* there is no block too many, for SHA-1 if the order of the size's bytes does
\* not show (hash.hh:105-169, 202-266).
DigestsArePublished ==
    \A d \in Digests : Returned(d.hash) /\ text = d.message => result = d.digest
==============================================================================
