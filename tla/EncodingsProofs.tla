--------------------------- MODULE EncodingsProofs ---------------------------
(***************************************************************************)
(* What the conversions return, for inputs of any length.                  *)
(***************************************************************************)
EXTENDS Encodings, DataInduction, SequenceTheorems

----------------------------------------------------------------------------
\* Calls

\* The text is an argument of the function.
Arguments ==
    /\ call \in {"ParseHex", "ParseBase64", "ConvertC32ToUTF8", "ParseHTMLEntity", "PadMessage", "MD5", "SHA1"}
    /\ call = "ParseHex" => text \in Seq((0 .. 15) \cup {NotADigit})
    /\ call = "ParseBase64" => text \in Seq((0 .. 64) \cup {NotADigit})
    /\ call = "ConvertC32ToUTF8" => text \in Seq(Nat)
    /\ call = "ParseHTMLEntity" => /\ text \in Seq((0 .. 16) \cup {NotADigit})
                                   /\ Len(text) \in 1 .. 8 /\ Head(text) \in {10, 16}
    /\ call \in {"PadMessage", "MD5", "SHA1"} => Fits(text)
    /\ array \in Nat \cup {NoArray}

\* The steps of each call.
HexStep    == call = "ParseHex" /\ (ParseHexDigit \/ ParseHexEnd \/ Refuse)
Base64Step == call = "ParseBase64" /\ (ParseBase64Digit \/ ParseBase64End \/ Refuse)
UTF8Step   == call = "ConvertC32ToUTF8" /\ (ConvertC32ToUTF8 \/ ConvertC32ToUTF8End)
EntityStep == call = "ParseHTMLEntity" /\ ParseHTMLEntity
PadStep    == call = "PadMessage" /\ (PadMessage \/ PadMessageSize \/ PadMessageEnd)
DigestStep ==
    /\ call \in {"MD5", "SHA1"}
    /\ \/ PadMessage \/ PadMessageSize
       \/ DigestBlock \/ DigestValue \/ DigestRound \/ DigestBlockEnd \/ DigestEnd

\* A call takes its own steps, and none when it has returned.
LEMMA Steps ==
    ASSUME Next
    PROVE  /\ UNCHANGED <<call, text, array>> /\ returned = "no"
           /\ HexStep \/ Base64Step \/ UTF8Step \/ EntityStep \/ PadStep \/ DigestStep
<1>1. CASE ParseHexDigit \/ ParseHexEnd \/ Refuse
  BY <1>1 DEF ParseHexDigit, ParseHexEnd, Refuse, Calling, HexStep, Base64Step
<1>2. CASE ParseBase64Digit \/ ParseBase64End
  BY <1>2 DEF ParseBase64Digit, ParseBase64End, Calling, Base64Step
<1>3. CASE ConvertC32ToUTF8 \/ ConvertC32ToUTF8End \/ ParseHTMLEntity
  BY <1>3 DEF ConvertC32ToUTF8, ConvertC32ToUTF8End, ParseHTMLEntity, Calling, UTF8Step, EntityStep
<1>4. CASE PadMessage \/ PadMessageSize \/ PadMessageEnd
  BY <1>4 DEF PadMessage, PadMessageSize, PadMessageEnd, Padding, Calling, PadStep, DigestStep
<1>5. CASE DigestBlock \/ DigestValue
  BY <1>5 DEF DigestBlock, DigestValue, Calling, DigestStep
<1>6. CASE DigestRound \/ DigestBlockEnd \/ DigestEnd
  BY <1>6 DEF DigestRound, DigestBlockEnd, DigestEnd, Calling, DigestStep
<1> QED
  BY <1>1, <1>2, <1>3, <1>4, <1>5, <1>6 DEF Next

LEMMA ArgumentsInit == Init => Arguments
<1> SUFFICES ASSUME Init PROVE Arguments
  OBVIOUS
<1>1. HexTexts \subseteq Seq((0 .. 15) \cup {NotADigit}) /\ Base64Texts \subseteq Seq((0 .. 64) \cup {NotADigit})
      /\ ArraySizes \subseteq Nat \cup {NoArray} /\ Codes \subseteq Seq(Nat)
  BY HexTextsAssumption, Base64TextsAssumption, ArraySizesAssumption, CodesAssumption
<1>2. \A e \in Entities : /\ e \in Seq((0 .. 16) \cup {NotADigit})
                          /\ Len(e) \in 1 .. 8 /\ Head(e) \in {10, 16}
  BY EntitiesAssumption
<1>3. \A m \in Messages : Fits(m)
  BY MessagesAssumption
<1>4. \A d \in Digests : d.hash \in {"MD5", "SHA1"} /\ Fits(d.message)
  BY DigestsAssumption
<1>5. array \in Nat \cup {NoArray}
  BY <1>1 DEF Init
<1>6. CASE \/ call = "ParseHex" /\ text \in HexTexts
           \/ call = "ParseBase64" /\ text \in Base64Texts
  BY <1>6, <1>1, <1>5 DEF Arguments
<1>7. CASE call = "ConvertC32ToUTF8" /\ text \in Codes
  BY <1>7, <1>1, <1>5 DEF Arguments
<1>8. CASE call = "ParseHTMLEntity" /\ text \in Entities
  BY <1>8, <1>2, <1>5 DEF Arguments
<1>9. CASE call = "PadMessage" /\ text \in Messages
  BY <1>9, <1>3, <1>5 DEF Arguments
<1>10. CASE \E d \in Digests : call = d.hash /\ text = d.message
  BY <1>10, <1>4, <1>5 DEF Arguments
<1> QED
  BY <1>6, <1>7, <1>8, <1>9, <1>10 DEF Init

LEMMA ArgumentsStep == Arguments /\ UNCHANGED <<call, text, array>> => Arguments'
  BY DEF Arguments, Fits

----------------------------------------------------------------------------
\* Hexadecimal text

\* Whether there is an odd number of digits, and the digits read so far, behind
\* the 0 that is put in front of an odd number of them.
Odd       == Len(text) % 2
Read      == pos + Odd
Nybble(j) == IF j <= Odd THEN 0 ELSE text[j - Odd]

\* What is read and what is written, and how the call ended.
HexInv ==
    /\ pos \in 0 .. Len(text)
    /\ \A j \in 1 .. pos : text[j] \in 0 .. 15
    /\ lowNybble \in BOOLEAN /\ (lowNybble <=> Read % 2 = 1)
    /\ curByteValue = IF lowNybble THEN Nybble(Read) ELSE 0
    /\ result \in Seq(Byte)
    /\ Len(result) = Read \div 2
    /\ \A i \in 1 .. Len(result) : result[i] = (16 * Nybble((2 * i) - 1)) + Nybble(2 * i)
    /\ \/ returned = "no"
       \/ returned = "InvalidArgument" /\ pos < Len(text) /\ text[pos + 1] = NotADigit
       \/ returned = ResultOf(Len(result)) /\ pos = Len(text)

\* Halves of the even and the odd numbers.
LEMMA Parity ==
    \A n \in Nat : \/ /\ n % 2 = 0 /\ (n + 1) % 2 = 1
                      /\ (n + 1) \div 2 = n \div 2 /\ n = 2 * (n \div 2)
                   \/ /\ n % 2 = 1 /\ (n + 1) % 2 = 0
                      /\ (n + 1) \div 2 = (n \div 2) + 1 /\ n = (2 * (n \div 2)) + 1
  OBVIOUS

\* A byte's digits.
LEMMA Sixteenths ==
    \A a, b \in 0 .. 15 : ((16 * a) + b) \div 16 = a /\ ((16 * a) + b) % 16 = b
  OBVIOUS

LEMMA Nybbles ==
    ASSUME Arguments, call = "ParseHex", HexInv
    PROVE  /\ Odd \in 0 .. 1 /\ pos \in Nat /\ Len(text) \in Nat /\ Read \in Nat /\ Read = pos + Odd
           /\ \A j \in 0 .. Read : Nybble(j) \in 0 .. 15
           /\ \A j \in 1 .. Len(text) : /\ text[j] \in (0 .. 15) \cup {NotADigit}
                                        /\ Nybble(j + Odd) = text[j]
<1>1. text \in Seq((0 .. 15) \cup {NotADigit}) /\ pos \in 0 .. Len(text) /\ \A j \in 1 .. pos : text[j] \in 0 .. 15
  BY DEF Arguments, HexInv
<1>2. Odd \in 0 .. 1 /\ pos \in Nat /\ Len(text) \in Nat
  BY <1>1 DEF Odd
<1>3. Read = pos + Odd /\ Read \in Nat
  BY <1>2 DEF Read
<1>4. ASSUME NEW j \in 0 .. Read PROVE Nybble(j) \in 0 .. 15
  <2>1. CASE j <= Odd
    BY <2>1 DEF Nybble
  <2>2. CASE ~(j <= Odd)
    <3>1. j - Odd \in 1 .. pos
      BY <2>2, <1>2, <1>3
    <3> QED
      BY <3>1, <2>2, <1>1 DEF Nybble
  <2> QED
    BY <2>1, <2>2
<1>5. ASSUME NEW j \in 1 .. Len(text) PROVE text[j] \in (0 .. 15) \cup {NotADigit} /\ Nybble(j + Odd) = text[j]
  <2>1. ~(j + Odd <= Odd) /\ (j + Odd) - Odd = j
    BY <1>2
  <2> QED
    BY <2>1, <1>1 DEF Nybble
<1> QED
  BY <1>2, <1>3, <1>4, <1>5

LEMMA HexInit == Init /\ call = "ParseHex" => HexInv
<1> SUFFICES ASSUME Init, call = "ParseHex" PROVE HexInv
  OBVIOUS
<1>1. Len(text) \in Nat
  BY ArgumentsInit DEF Arguments
<1>2. pos = 0 /\ result = <<>> /\ returned = "no" /\ curByteValue = 0 
      /\ lowNybble \in BOOLEAN /\ (lowNybble <=> Odd = 1)
  BY DEF Init, StartsLow, Odd
<1>3. Odd \in 0 .. 1 /\ Read = Odd
  BY <1>1, <1>2 DEF Odd, Read
<1>4. Nybble(Read) = 0 /\ Read \div 2 = 0 /\ Read % 2 = Odd
  BY <1>3 DEF Nybble
<1>5. lowNybble \in BOOLEAN /\ (lowNybble <=> Read % 2 = 1)
  BY <1>2, <1>4
<1>6. \A j \in 1 .. pos : text[j] \in 0 .. 15
  BY <1>2
<1>7. result \in Seq(Byte) /\ Len(result) = 0 /\ \A i \in 1 .. Len(result) : FALSE
  BY <1>2
<1> QED
  BY <1>1, <1>2, <1>4, <1>5, <1>6, <1>7 DEF HexInv

LEMMA HexDigitStep ==
    ASSUME Arguments, call = "ParseHex", HexInv, ParseHexDigit, UNCHANGED <<call, text, array>>
    PROVE  HexInv'
<1> DEFINE d    == text[pos + 1]
           byte == (curByteValue * 16 + d) % 256
<1>1. Odd \in 0 .. 1 /\ pos \in Nat /\ Len(text) \in Nat /\ Read \in Nat /\ Read = pos + Odd
  BY Nybbles
<1>2. pos < Len(text) /\ d # NotADigit /\ returned = "no" /\ returned' = "no" /\ pos' = pos + 1
  BY DEF ParseHexDigit, Calling
<1>3. d \in 0 .. 15 /\ Nybble(Read + 1) = d /\ Nybble(Read) \in 0 .. 15
  <2>1. pos + 1 \in 1 .. Len(text) /\ (pos + 1) + Odd = Read + 1 /\ Read \in 0 .. Read
    BY <1>1, <1>2
  <2>2. Nybble((pos + 1) + Odd) = d /\ d \in (0 .. 15) \cup {NotADigit} /\ Nybble(Read) \in 0 .. 15
    BY <2>1, Nybbles
  <2> QED
    BY <2>1, <2>2, <1>2
<1>4. Odd' = Odd /\ (\A j : Nybble(j)' = Nybble(j)) /\ Read' = Read + 1
  BY <1>1, <1>2 DEF Odd, Nybble, Read
<1>5. \A j \in 1 .. pos' : text'[j] \in 0 .. 15
  <2> SUFFICES ASSUME NEW j \in 1 .. pos' PROVE text[j] \in 0 .. 15
    OBVIOUS
  <2>1. CASE j = pos + 1
    BY <2>1, <1>3
  <2>2. CASE j \in 1 .. pos
    BY <2>2 DEF HexInv
  <2> QED
    BY <2>1, <2>2, <1>1, <1>2
<1>6. lowNybble \in BOOLEAN /\ (lowNybble <=> Read % 2 = 1) /\ lowNybble' = ~lowNybble
  BY DEF HexInv, ParseHexDigit
<1>7. curByteValue = (IF lowNybble THEN Nybble(Read) ELSE 0)
  BY DEF HexInv
<1>8. result \in Seq(Byte) /\ Len(result) = Read \div 2
      /\ \A i \in 1 .. Len(result) : result[i] = (16 * Nybble((2 * i) - 1)) + Nybble(2 * i)
  BY DEF HexInv
<1>9. CASE lowNybble
  <2>1. byte = (16 * Nybble(Read)) + Nybble(Read + 1) /\ byte \in Byte
    <3>1. curByteValue \in 0 .. 15 /\ curByteValue = Nybble(Read)
      BY <1>7, <1>9, <1>3
    <3>2. byte = (16 * curByteValue) + d /\ byte \in 0 .. 255
      <4> HIDE DEF d
      <4> QED
        BY <3>1, <1>3
    <3> QED
      BY <3>1, <3>2, <1>3 DEF Byte
  <2>2. result' = Append(result, byte) /\ curByteValue' = 0 /\ ~lowNybble'
    BY <1>9 DEF ParseHexDigit
  <2>3. (Read + 1) % 2 = 0 /\ (Read + 1) \div 2 = (Read \div 2) + 1
        /\ Read = (2 * (Read \div 2)) + 1
    <3>1. Read % 2 = 1
      BY <1>6, <1>9
    <3> QED
      BY <3>1, <1>1, Parity
  <2> HIDE DEF byte
  <2>4. result' \in Seq(Byte) /\ Len(result') = Len(result) + 1 /\ result'[Len(result) + 1] = byte
        /\ \A i \in 1 .. Len(result) : result'[i] = result[i]
    BY <2>1, <2>2, <1>8
  <2>5. ASSUME NEW i \in 1 .. Len(result) + 1
        PROVE  result'[i] = (16 * Nybble((2 * i) - 1)) + Nybble(2 * i)
    <3>1. CASE i = Len(result) + 1
      <4>1. (2 * i) - 1 = Read /\ 2 * i = Read + 1
        BY <3>1, <2>3, <1>1, <1>8
      <4> QED
        BY <3>1, <4>1, <2>1, <2>4
    <3>2. CASE i \in 1 .. Len(result)
      BY <3>2, <2>4, <1>8
    <3>3. Len(result) \in Nat
      BY <1>8
    <3> QED
      BY <3>1, <3>2, <3>3
  <2>6. lowNybble' \in BOOLEAN /\ (lowNybble' <=> Read' % 2 = 1)
    <3>1. ~(Read' % 2 = 1)
      BY <2>3, <1>4
    <3> QED
      BY <3>1, <2>2, <1>6
  <2>7. pos' \in 0 .. Len(text) /\ Len(result') = Read' \div 2
    BY <1>1, <1>2, <1>4, <1>8, <2>3, <2>4
  <2> QED
    BY <1>2, <1>4, <1>5, <2>2, <2>4, <2>5, <2>6, <2>7 DEF HexInv
<1>10. CASE ~lowNybble
  <2>1. byte = Nybble(Read + 1)
    <3>1. curByteValue = 0
      BY <1>7, <1>10
    <3>2. byte = d
      <4> HIDE DEF d
      <4> QED
        BY <3>1, <1>3
    <3> QED
      BY <3>2, <1>3
  <2>2. result' = result /\ curByteValue' = byte /\ lowNybble'
    BY <1>10 DEF ParseHexDigit
  <2>3. (Read + 1) % 2 = 1 /\ (Read + 1) \div 2 = Read \div 2
    <3>1. ~(Read % 2 = 1)
      BY <1>6, <1>10
    <3> QED
      BY <3>1, <1>1, Parity
  <2> HIDE DEF byte
  <2>4. lowNybble' \in BOOLEAN /\ (lowNybble' <=> Read' % 2 = 1)
    <3>1. Read' % 2 = 1
      BY <2>3, <1>4
    <3> QED
      BY <3>1, <2>2, <1>6
  <2>5. pos' \in 0 .. Len(text) /\ Len(result') = Read' \div 2
    BY <1>1, <1>2, <1>4, <1>8, <2>2, <2>3
  <2> QED
    BY <1>2, <1>4, <1>5, <2>1, <2>2, <2>4, <2>5, <1>8 DEF HexInv
<1> QED
  BY <1>9, <1>10

LEMMA HexEndStep ==
    ASSUME Arguments, call = "ParseHex", HexInv, ParseHexEnd \/ Refuse, UNCHANGED <<call, text, array>>
    PROVE  HexInv'
<1>1. Odd' = Odd /\ (\A j : Nybble(j)' = Nybble(j)) /\ (pos' = pos => Read' = Read)
  BY DEF Odd, Nybble, Read
<1>2. \A n : ResultOf(n)' = ResultOf(n)
  BY DEF ResultOf
<1>3. CASE ParseHexEnd
  <2>1. pos = Len(text) /\ pos' = pos /\ lowNybble' = lowNybble /\ curByteValue' = curByteValue
        /\ returned' = ResultOf(Len(result'))
    BY <1>3 DEF ParseHexEnd, hexVars
  <2>2. ~lowNybble
    <3>1. Read = Len(text) + Odd /\ Len(text) \in Nat
      BY <2>1, Nybbles
    <3>2. ~(Read % 2 = 1)
      BY <3>1, Parity DEF Odd
    <3> QED
      BY <3>2 DEF HexInv
  <2>3. result' = result
    BY <2>2, <1>3 DEF ParseHexEnd
  <2>4. (returned = ResultOf(Len(result)) /\ pos = Len(text))'
    BY <2>1, <2>3, <1>2
  <2> QED
    BY <1>1, <2>1, <2>3, <2>4 DEF HexInv
<1>4. CASE Refuse
  <2>1. pos < Len(text) /\ text[pos + 1] = NotADigit /\ returned' = "InvalidArgument"
        /\ UNCHANGED <<pos, result, lowNybble, curByteValue>>
    BY <1>4 DEF Refuse, hexVars
  <2> QED
    BY <1>1, <2>1 DEF HexInv
<1> QED
  BY <1>3, <1>4

\* The digits of what is written are those that were read.
LEMMA HexResult ==
    ASSUME Arguments, call = "ParseHex", HexInv
    PROVE  HexKeepsTheNumber
<1> SUFFICES ASSUME returned # "no" PROVE HexKeepsTheNumber
  BY DEF HexKeepsTheNumber, Returned
<1> DEFINE digits == IF Len(text) % 2 = 0 THEN text ELSE <<0>> \o text
<1>1. Odd \in 0 .. 1 /\ pos \in Nat /\ Len(text) \in Nat /\ Read \in Nat /\ Read = pos + Odd
  BY Nybbles
<1>2. text \in Seq((0 .. 15) \cup {NotADigit}) /\ NotADigit \notin 0 .. 15
  BY DEF Arguments, NotADigit
<1>3. digits \in Seq((0 .. 15) \cup {NotADigit}) /\ Len(digits) = Len(text) + Odd
  <2>1. CASE Len(text) % 2 = 0
    BY <2>1, <1>2 DEF Odd
  <2>2. CASE Len(text) % 2 # 0
    <3>1. Odd = 1 /\ digits = <<0>> \o text
      BY <2>2, <1>1 DEF Odd
    <3>2. <<0>> \in Seq((0 .. 15) \cup {NotADigit}) /\ Len(<<0>>) = 1
      OBVIOUS
    <3>3. /\ <<0>> \o text \in Seq((0 .. 15) \cup {NotADigit})
          /\ Len(<<0>> \o text) = 1 + Len(text)
      BY <3>2, <1>2, ConcatProperties
    <3> HIDE DEF digits
    <3> QED
      BY <3>1, <3>3, <1>1
  <2> QED
    BY <2>1, <2>2
<1>4. ASSUME NEW j \in 1 .. Len(digits) PROVE digits[j] = Nybble(j)
  <2>1. CASE Odd = 0
    BY <2>1, <1>1, <1>2, <1>3 DEF Odd, Nybble
  <2>2. CASE Odd = 1
    <3>1. digits = <<0>> \o text
      BY <2>2 DEF Odd
    <3>2. CASE j = 1
      BY <3>1, <3>2, <2>2, <1>2 DEF Nybble
    <3>3. CASE j \in 2 .. Len(digits)
      <4>1. digits[j] = text[j - 1]
        BY <3>1, <3>3, <1>2
      <4> QED
        BY <4>1, <3>3, <2>2, <1>1, <1>3 DEF Nybble
    <3> QED
      BY <3>2, <3>3
  <2> QED
    BY <2>1, <2>2, <1>1
<1> HIDE DEF digits
<1>5. \/ returned = "InvalidArgument" /\ pos < Len(text) /\ text[pos + 1] = NotADigit
      \/ returned = ResultOf(Len(result)) /\ pos = Len(text)
  BY DEF HexInv
<1>6. CASE returned = "InvalidArgument" /\ pos < Len(text) /\ text[pos + 1] = NotADigit
  <2>1. pos + 1 \in 1 .. Len(text)
    BY <1>1, <1>6
  <2>2. NotADigit \in ToSet(text)
    BY <2>1, <1>6, <1>2 DEF ToSet
  <2> QED
    BY <1>6, <2>2 DEF HexKeepsTheNumber
<1>7. CASE returned = ResultOf(Len(result)) /\ pos = Len(text)
  <2>1. NotADigit \notin ToSet(text)
    <3>1. \A j \in 1 .. Len(text) : text[j] \in 0 .. 15
      BY <1>7 DEF HexInv
    <3> QED
      BY <3>1, <1>2 DEF ToSet
  <2>2. result \in Seq(Byte) /\ Len(result) \in Nat /\ Len(digits) = 2 * Len(result)
    <3>1. Read = Len(digits) /\ Read % 2 = 0
      <4>1. Read = Len(text) + Odd
        BY <1>1, <1>7
      <4>2. ~(Read % 2 = 1)
        BY <4>1, <1>1, Parity DEF Odd
      <4> QED
        BY <4>1, <4>2, <1>1, <1>3, Parity
    <3>2. result \in Seq(Byte) /\ Len(result) = Read \div 2
      BY DEF HexInv
    <3> QED
      BY <3>1, <3>2, <1>1, Parity
  <2>3. ASSUME NEW i \in 1 .. Len(result)
        PROVE  /\ result[i] \div 16 = Nybble((2 * i) - 1) /\ result[i] % 16 = Nybble(2 * i)
    <3>1. result[i] = (16 * Nybble((2 * i) - 1)) + Nybble(2 * i)
      BY DEF HexInv
    <3>2. (2 * i) - 1 \in 0 .. Read /\ 2 * i \in 0 .. Read
      BY <2>2, <1>1, <1>3, <1>7
    <3>3. Nybble((2 * i) - 1) \in 0 .. 15 /\ Nybble(2 * i) \in 0 .. 15
      BY <3>2, Nybbles
    <3> QED
      BY <3>1, <3>3, Sixteenths
  <2>4. HexString(result) = digits
    <3> DEFINE str == HexString(result)
    <3>1. ASSUME NEW i \in 1 .. 2 * Len(result) PROVE str[i] = digits[i]
      <4>1. str[i] = IF i % 2 = 1 THEN result[(i + 1) \div 2] \div 16 ELSE result[i \div 2] % 16
        BY DEF HexString
      <4>2. digits[i] = Nybble(i)
        BY <1>4, <2>2
      <4>3. CASE i % 2 = 1
        <5>1. (i + 1) \div 2 \in 1 .. Len(result) /\ (2 * ((i + 1) \div 2)) - 1 = i
          BY <4>3, <2>2
        <5> QED
          BY <5>1, <4>1, <4>2, <4>3, <2>3
      <4>4. CASE i % 2 = 0
        <5>1. i \div 2 \in 1 .. Len(result) /\ 2 * (i \div 2) = i /\ ~(i % 2 = 1)
          BY <4>4, <2>2
        <5>2. str[i] = result[i \div 2] % 16
          BY <5>1, <4>1
        <5>3. result[i \div 2] % 16 = Nybble(2 * (i \div 2))
          BY <5>1, <2>3
        <5> QED
          BY <5>1, <5>2, <5>3, <4>2
      <4> QED
        BY <4>3, <4>4, <2>2
    <3>2. str = [i \in 1 .. 2 * Len(result) |-> str[i]] /\ digits = [i \in 1 .. 2 * Len(result) |-> digits[i]]
      BY <2>2, <1>3 DEF HexString
    <3> HIDE DEF str
    <3>3. str = digits
      BY <3>1, <3>2
    <3> QED
      BY <3>3 DEF str
  <2>5. /\ returned # "InvalidArgument"
        /\ returned = "ArgumentTooLong" => Len(digits) > 2 * array
        /\ returned = "ArgumentTooShort" => Len(digits) < 2 * array
        /\ returned = "OK" => array \in {NoArray, Len(digits) \div 2}
    <3>1. returned = IF array \in {NoArray, Len(result)} THEN "OK"
                     ELSE IF Len(result) > array THEN "ArgumentTooLong" ELSE "ArgumentTooShort"
      BY <1>7 DEF ResultOf
    <3>2. array \in Nat \cup {NoArray}
      BY DEF Arguments
    <3>3. Len(digits) \div 2 = Len(result)
      BY <2>2
    <3> QED
      BY <3>1, <3>2, <3>3, <2>2
  <2> QED
    BY <2>1, <2>4, <2>5 DEF HexKeepsTheNumber, digits
<1> QED
  BY <1>5, <1>6, <1>7

\* What a call of ParseHex has read and written, at each of its steps.
LEMMA HexCalls == Spec => [](Arguments /\ (call = "ParseHex" => HexInv))
<1> DEFINE Inv == Arguments /\ (call = "ParseHex" => HexInv)
<1>1. Init => Inv
  BY ArgumentsInit, HexInit
<1>2. Inv /\ [Next]_vars => Inv'
  <2> SUFFICES ASSUME Inv, [Next]_vars PROVE Inv'
    OBVIOUS
  <2>1. CASE Next
    <3>1. UNCHANGED <<call, text, array>> /\ Arguments'
      BY <2>1, Steps, ArgumentsStep
    <3>2. ASSUME call = "ParseHex" PROVE HexInv'
      <4>1. HexStep
        BY <2>1, <3>2, Steps DEF Base64Step, UTF8Step, EntityStep, PadStep, DigestStep
      <4> QED
        BY <3>1, <3>2, <4>1, HexDigitStep, HexEndStep DEF HexStep
    <3> QED
      BY <3>1, <3>2
  <2>2. CASE UNCHANGED vars
    BY <2>2, ArgumentsStep DEF vars, hexVars, HexInv, Odd, Read, Nybble, ResultOf
  <2> QED
    BY <2>1, <2>2
<1> QED
  BY <1>1, <1>2, PTL DEF Spec

\* ParseHex (string.cc:119-155) returns the bytes of its digits, behind a 0 if
\* there is an odd number of them, and refuses any other text and, into an array,
\* any other size (string.hh:106-115), for texts of any length.
THEOREM HexKeepsTheNumberAlways == Spec => []HexKeepsTheNumber
<1> DEFINE Inv == Arguments /\ (call = "ParseHex" => HexInv)
<1>1. Inv => HexKeepsTheNumber
  <2> SUFFICES ASSUME Inv, call # "ParseHex" PROVE HexKeepsTheNumber
    BY HexResult
  <2> QED
    BY DEF HexKeepsTheNumber, Returned
<1> QED
  BY <1>1, HexCalls, PTL

----------------------------------------------------------------------------
\* Base64

Sextet           == 0 .. 2^6 - 1
FirstByte(a, b)  == ((a * 4) % 256) + ((b \div 16) % 4)
SecondByte(b, c) == ((b % 16) * 16) + ((c \div 4) % 16)
ThirdByte(c, d)  == BitOr((c % 4) * 64, d)

LEMMA FirstBits ==
    ASSUME NEW a \in Sextet, NEW b \in Sextet
    PROVE  /\ FirstByte(a, b) \in Byte
           /\ \A e \in 2 .. 7 : BitOf(FirstByte(a, b), e) = BitOf(a, e - 2)
           /\ \A e \in 0 .. 1 : BitOf(FirstByte(a, b), e) = BitOf(b, e + 4)
<1> DEFINE v == FirstByte(a, b)
<1>0. a \in 0 .. 63 /\ b \in 0 .. 63
  BY DEF Sextet
<1>1. v = (4 * a) + (b \div 16) /\ v \in 0 .. 255
  BY <1>0 DEF FirstByte
<1> HIDE DEF v
<1>2. BitOf(v, 7) = BitOf(a, 5)
  BY <1>0, <1>1 DEF BitOf
<1>3. BitOf(v, 6) = BitOf(a, 4)
  BY <1>0, <1>1 DEF BitOf
<1>4. BitOf(v, 5) = BitOf(a, 3)
  BY <1>0, <1>1 DEF BitOf
<1>5. BitOf(v, 4) = BitOf(a, 2)
  BY <1>0, <1>1 DEF BitOf
<1>6. BitOf(v, 3) = BitOf(a, 1)
  BY <1>0, <1>1 DEF BitOf
<1>7. BitOf(v, 2) = BitOf(a, 0)
  BY <1>0, <1>1 DEF BitOf
<1>8. BitOf(v, 1) = BitOf(b, 5)
  BY <1>0, <1>1 DEF BitOf
<1>9. BitOf(v, 0) = BitOf(b, 4)
  BY <1>0, <1>1 DEF BitOf
<1>10. \A e \in 2 .. 7 : BitOf(v, e) = BitOf(a, e - 2)
  BY <1>2, <1>3, <1>4, <1>5, <1>6, <1>7
<1>11. \A e \in 0 .. 1 : BitOf(v, e) = BitOf(b, e + 4)
  BY <1>8, <1>9
<1> QED
  BY <1>1, <1>10, <1>11 DEF v, Byte

LEMMA SecondBits ==
    ASSUME NEW b \in Sextet, NEW c \in Sextet
    PROVE  /\ SecondByte(b, c) \in Byte
           /\ \A e \in 4 .. 7 : BitOf(SecondByte(b, c), e) = BitOf(b, e - 4)
           /\ \A e \in 0 .. 3 : BitOf(SecondByte(b, c), e) = BitOf(c, e + 2)
<1> DEFINE v == SecondByte(b, c)
<1>0. b \in 0 .. 63 /\ c \in 0 .. 63
  BY DEF Sextet
<1>1. v = ((b % 16) * 16) + (c \div 4) /\ v \in 0 .. 255
  BY <1>0 DEF SecondByte
<1> HIDE DEF v
<1>2. BitOf(v, 7) = BitOf(b, 3)
  BY <1>0, <1>1 DEF BitOf
<1>3. BitOf(v, 6) = BitOf(b, 2)
  BY <1>0, <1>1 DEF BitOf
<1>4. BitOf(v, 5) = BitOf(b, 1)
  BY <1>0, <1>1 DEF BitOf
<1>5. BitOf(v, 4) = BitOf(b, 0)
  BY <1>0, <1>1 DEF BitOf
<1>6. BitOf(v, 3) = BitOf(c, 5)
  BY <1>0, <1>1 DEF BitOf
<1>7. BitOf(v, 2) = BitOf(c, 4)
  BY <1>0, <1>1 DEF BitOf
<1>8. BitOf(v, 1) = BitOf(c, 3)
  BY <1>0, <1>1 DEF BitOf
<1>9. BitOf(v, 0) = BitOf(c, 2)
  BY <1>0, <1>1 DEF BitOf
<1>10. \A e \in 4 .. 7 : BitOf(v, e) = BitOf(b, e - 4)
  BY <1>2, <1>3, <1>4, <1>5
<1>11. \A e \in 0 .. 3 : BitOf(v, e) = BitOf(c, e + 2)
  BY <1>6, <1>7, <1>8, <1>9
<1> QED
  BY <1>1, <1>10, <1>11 DEF v, Byte

LEMMA ThirdBits ==
    ASSUME NEW c \in Sextet, NEW d \in Sextet
    PROVE  /\ ThirdByte(c, d) \in Byte
           /\ \A e \in 6 .. 7 : BitOf(ThirdByte(c, d), e) = BitOf(c, e - 6)
           /\ \A e \in 0 .. 5 : BitOf(ThirdByte(c, d), e) = BitOf(d, e)
<1> DEFINE v == ThirdByte(c, d)
<1>0. c \in 0 .. 63 /\ d \in 0 .. 63
  BY DEF Sextet
<1>1. v = ((c % 4) * 64) + d /\ v \in 0 .. 255
  BY <1>0 DEF ThirdByte, BitOr, NotFound
<1> HIDE DEF v
<1> DEFINE k == c % 4
<1>1a. k \in 0 .. 3 /\ v = (64 * k) + d
  BY <1>0, <1>1
<1>1b. (c \div 2) % 2 = k \div 2 /\ c % 2 = k % 2
  BY <1>0
<1> HIDE DEF k
<1>2. BitOf(v, 7) = BitOf(c, 1)
  BY <1>0, <1>1a, <1>1b DEF BitOf
<1>3. BitOf(v, 6) = BitOf(c, 0)
  BY <1>0, <1>1a, <1>1b DEF BitOf
<1>4. BitOf(v, 5) = BitOf(d, 5)
  BY <1>0, <1>1 DEF BitOf
<1>5. BitOf(v, 4) = BitOf(d, 4)
  BY <1>0, <1>1 DEF BitOf
<1>6. BitOf(v, 3) = BitOf(d, 3)
  BY <1>0, <1>1 DEF BitOf
<1>7. BitOf(v, 2) = BitOf(d, 2)
  BY <1>0, <1>1 DEF BitOf
<1>8. BitOf(v, 1) = BitOf(d, 1)
  BY <1>0, <1>1 DEF BitOf
<1>9. BitOf(v, 0) = BitOf(d, 0)
  BY <1>0, <1>1 DEF BitOf
<1>10. \A e \in 6 .. 7 : BitOf(v, e) = BitOf(c, e - 6)
  BY <1>2, <1>3
<1>11. \A e \in 0 .. 5 : BitOf(v, e) = BitOf(d, e)
  BY <1>4, <1>5, <1>6, <1>7, <1>8, <1>9
<1> QED
  BY <1>1, <1>10, <1>11 DEF v, Byte

\* Four digits from the one behind the first n, with zeros behind the last one.
Pad(n) == [k \in 1 .. 4 |-> IF n + k <= Len(text) THEN text[n + k] ELSE 0]

\* What is read, what of it is in the scratch pad and what is written, and how
\* the call ended: the bytes are those that each group of four digits makes.
Base64Inv ==
    /\ pos \in 0 .. Len(text)
    /\ \A j \in 1 .. pos : text[j] \in Sextet
    /\ counter = pos % 4
    /\ scratchPad \in [1 .. 4 -> Byte]
    /\ \A k \in 1 .. counter : scratchPad[k] = text[(pos - counter) + k]
    /\ result \in Seq(Byte)
    /\ Len(result) = (3 * (pos \div 4)) + (IF returned \in {"no", "InvalidArgument"} \/ counter = 0
                                           THEN 0 ELSE counter - 1)
    /\ \A g \in 0 .. pos, k \in 1 .. 3 : (3 * g) + k <= Len(result) =>
           result[(3 * g) + k] = Convert(Pad(4 * g))[k]
    /\ \/ returned = "no"
       \/ returned = "InvalidArgument" /\ pos < Len(text) /\ text[pos + 1] = NotADigit
       \/ returned = ResultOf(Len(result)) /\ (pos < Len(text) => text[pos + 1] = Equals)

LEMMA Fours ==
    \A n \in Nat : /\ n \div 4 \in 0 .. n /\ n % 4 \in 0 .. 3 /\ n = (4 * (n \div 4)) + (n % 4)
                   /\ n % 4 = 3 => (n + 1) \div 4 = (n \div 4) + 1 /\ (n + 1) % 4 = 0
                   /\ n % 4 # 3 => (n + 1) \div 4 = n \div 4 /\ (n + 1) % 4 = (n % 4) + 1
<1> TAKE n \in Nat
<1>1. n \div 4 \in 0 .. n /\ n % 4 \in 0 .. 3 /\ n = (4 * (n \div 4)) + (n % 4)
  OBVIOUS
<1>2. n % 4 = 3 => (n + 1) \div 4 = (n \div 4) + 1 /\ (n + 1) % 4 = 0
  OBVIOUS
<1>3. n % 4 # 3 => (n + 1) \div 4 = n \div 4 /\ (n + 1) % 4 = (n % 4) + 1
  OBVIOUS
<1> QED
  BY <1>1, <1>2, <1>3

LEMMA ConvertBytes ==
    \A pad : /\ Convert(pad) = <<Convert(pad)[1], Convert(pad)[2], Convert(pad)[3]>>
            /\ Convert(pad)[1] = FirstByte(pad[1], pad[2])
            /\ Convert(pad)[2] = SecondByte(pad[2], pad[3])
            /\ Convert(pad)[3] = ThirdByte(pad[3], pad[4])
  BY DEF Convert, FirstByte, SecondByte, ThirdByte

\* The digits of a group that have been read.
LEMMA PadDigits ==
    ASSUME Arguments, call = "ParseBase64", Base64Inv,
           NEW n \in Nat, NEW k \in 1 .. 4, n + k <= pos
    PROVE  Pad(n)[k] = text[n + k] /\ text[n + k] \in Sextet
<1>1. n + k \in 1 .. pos /\ pos <= Len(text)
  <2>1. pos \in 0 .. Len(text) /\ Len(text) \in Nat
    BY DEF Base64Inv, Arguments
  <2> QED
    BY <2>1
<1>2. n + k <= Len(text)
  <2>1. Len(text) \in Nat /\ pos \in Nat
    BY DEF Base64Inv, Arguments
  <2> QED
    BY <1>1, <2>1
<1>3. Pad(n)[k] = text[n + k]
  BY <1>2 DEF Pad
<1> QED
  BY <1>1, <1>3 DEF Base64Inv

LEMMA Base64Facts ==
    ASSUME Arguments, call = "ParseBase64", Base64Inv
    PROVE  /\ pos \in Nat /\ Len(text) \in Nat /\ pos <= Len(text)
           /\ counter \in 0 .. 3 /\ counter = pos % 4 /\ pos = (4 * (pos \div 4)) + counter
           /\ pos \div 4 \in 0 .. pos
           /\ text \in Seq((0 .. 64) \cup {NotADigit})
           /\ result \in Seq(Byte) /\ scratchPad \in [1 .. 4 -> Byte]
           /\ \A k \in 1 .. counter : scratchPad[k] = text[(4 * (pos \div 4)) + k]
           /\ \A k \in 1 .. counter : scratchPad[k] = Pad(4 * (pos \div 4))[k] /\ scratchPad[k] \in Sextet
<1>1. pos \in Nat /\ Len(text) \in Nat /\ pos <= Len(text) /\ text \in Seq((0 .. 64) \cup {NotADigit})
      /\ counter = pos % 4 /\ result \in Seq(Byte) /\ scratchPad \in [1 .. 4 -> Byte]
  BY DEF Arguments, Base64Inv
<1> DEFINE q == pos \div 4
<1>2. counter \in 0 .. 3 /\ pos = (4 * q) + counter /\ q \in 0 .. pos
  BY <1>1, Fours
<1> HIDE DEF q
<1>3. ASSUME NEW k \in 1 .. counter
      PROVE  scratchPad[k] = text[(4 * q) + k] /\ scratchPad[k] = Pad(4 * q)[k] /\ scratchPad[k] \in Sextet
  <2>1. pos - counter = 4 * q /\ (4 * q) + k <= pos /\ k \in 1 .. 4 /\ 4 * q \in Nat
    BY <1>1, <1>2
  <2>2. scratchPad[k] = text[(4 * q) + k]
    BY <2>1 DEF Base64Inv
  <2> QED
    BY <2>1, <2>2, PadDigits
<1> QED
  BY <1>1, <1>2, <1>3 DEF q

LEMMA Base64Init == Init /\ call = "ParseBase64" => Base64Inv
<1> SUFFICES ASSUME Init, call = "ParseBase64" PROVE Base64Inv
  OBVIOUS
<1>1. Len(text) \in Nat
  BY ArgumentsInit DEF Arguments
<1>2. pos = 0 /\ result = <<>> /\ returned = "no" /\ counter = 0 /\ scratchPad \in [1 .. 4 -> Garbage]
  BY DEF Init
<1>3. scratchPad \in [1 .. 4 -> Byte]
  BY <1>2, GarbageAssumption
<1>4. result \in Seq(Byte) /\ Len(result) = 0 /\ 0 % 4 = 0 /\ 3 * (0 \div 4) = 0
  BY <1>2
<1>5. \A g \in 0 .. pos, k \in 1 .. 3 : ~((3 * g) + k <= Len(result))
  BY <1>2, <1>4
<1>6. /\ \A j \in 1 .. pos : text[j] \in Sextet
      /\ \A k \in 1 .. counter : scratchPad[k] = text[(pos - counter) + k]
  BY <1>2
<1> QED
  BY <1>1, <1>2, <1>3, <1>4, <1>5, <1>6 DEF Base64Inv

LEMMA Base64DigitStep ==
    ASSUME Arguments, call = "ParseBase64", Base64Inv, ParseBase64Digit, UNCHANGED <<call, text, array>>
    PROVE  Base64Inv'
<1> DEFINE d == text[pos + 1]
           q == pos \div 4
           filled == [scratchPad EXCEPT ![counter + 1] = d]
<1>1. /\ pos \in Nat /\ Len(text) \in Nat /\ pos < Len(text)
      /\ counter \in 0 .. 3 /\ counter = pos % 4 /\ pos = (4 * q) + counter /\ q \in 0 .. pos
      /\ result \in Seq(Byte) /\ scratchPad \in [1 .. 4 -> Byte]
  BY Base64Facts DEF ParseBase64Digit
<1>2. d \in Sextet
  <2>1. d \in (0 .. 64) \cup {NotADigit}
    <3>1. pos + 1 \in 1 .. Len(text)
      BY <1>1
    <3>2. text \in Seq((0 .. 64) \cup {NotADigit})
      BY DEF Arguments
    <3> QED
      BY <3>1, <3>2, ElementOfSeq
  <2>2. d # NotADigit /\ d # 64
    BY DEF ParseBase64Digit, Equals
  <2> HIDE DEF d
  <2>3. d \in 0 .. 64 /\ d # 64
    BY <2>1, <2>2
  <2> QED
    BY <2>3 DEF Sextet
<1>3. /\ pos' = pos + 1 /\ text' = text /\ returned = "no" /\ returned' = "no"
      /\ pos' \in 0 .. Len(text)
  BY <1>1 DEF ParseBase64Digit, Calling
<1>4. \A j \in 1 .. pos' : text[j] \in Sextet
  <2> SUFFICES ASSUME NEW j \in 1 .. pos + 1 PROVE text[j] \in Sextet
    BY <1>3
  <2>1. CASE j = pos + 1
    BY <2>1, <1>2
  <2>2. CASE j \in 1 .. pos
    BY <2>2 DEF Base64Inv
  <2> QED
    BY <2>1, <2>2, <1>1
<1>5. \A n : Pad(n)' = Pad(n)
  BY DEF Pad
<1>6. filled \in [1 .. 4 -> Byte] /\ filled[counter + 1] = d
      /\ \A k \in 1 .. 4 : k # counter + 1 => filled[k] = scratchPad[k]
  <2>1. counter + 1 \in 1 .. 4
    BY <1>1
  <2> HIDE DEF d
  <2>2. d \in Byte
    BY <1>2 DEF Byte, Sextet
  <2> QED
    BY <2>1, <2>2, <1>1
<1>7. Len(result) = 3 * q
  BY <1>1, <1>3 DEF Base64Inv
<1>8. \A g \in 0 .. pos, k \in 1 .. 3 : (3 * g) + k <= 3 * q => result[(3 * g) + k] = Convert(Pad(4 * g))[k]
  BY <1>7 DEF Base64Inv
<1>9. \A k \in 1 .. counter : scratchPad[k] = text[(4 * q) + k] /\ scratchPad[k] \in Sextet
  BY Base64Facts
<1>10. (pos + 1) \div 4 = (IF counter = 3 THEN q + 1 ELSE q) /\ counter' = (pos + 1) % 4
       /\ counter' = (IF counter = 3 THEN 0 ELSE counter + 1)
  <2>1. counter' = (counter + 1) % 4
    BY DEF ParseBase64Digit
  <2>2. CASE counter = 3
    BY <2>1, <2>2, <1>1, Fours
  <2>3. CASE counter # 3
    BY <2>1, <2>3, <1>1, Fours
  <2> QED
    BY <2>2, <2>3
<1> HIDE DEF q, filled
<1>11. CASE counter = 3
  <2>1. result' = result \o Convert(filled) /\ scratchPad' = [i \in 1 .. 4 |-> NotFound]
    BY <1>11 DEF ParseBase64Digit, filled
  <2>2. \A k \in 1 .. 4 : filled[k] = text[(4 * q) + k] /\ filled[k] \in Sextet /\ Pad(4 * q)[k] = text[(4 * q) + k]
    <3> SUFFICES ASSUME NEW k \in 1 .. 4
                 PROVE  filled[k] = text[(4 * q) + k] /\ filled[k] \in Sextet /\ Pad(4 * q)[k] = text[(4 * q) + k]
      OBVIOUS
    <3>1. (4 * q) + k <= Len(text) /\ (k = 4 => (4 * q) + k = pos + 1) /\ (k # 4 => k \in 1 .. counter)
      BY <1>1, <1>11
    <3>2. Pad(4 * q)[k] = text[(4 * q) + k]
      BY <3>1 DEF Pad
    <3>3. CASE k = 4
      BY <3>1, <3>2, <3>3, <1>2, <1>6, <1>11
    <3>4. CASE k # 4
      <4>1. filled[k] = scratchPad[k] /\ k \in 1 .. counter
        BY <3>1, <3>4, <1>6, <1>11
      <4> QED
        BY <4>1, <3>2, <1>9
    <3> QED
      BY <3>3, <3>4
  <2>3. Convert(filled) \in Seq(Byte) /\ Len(Convert(filled)) = 3
        /\ \A k \in 1 .. 3 : Convert(filled)[k] = Convert(Pad(4 * q))[k]
    <3>0. \A k \in 1 .. 4 : filled[k] \in Sextet
      BY <2>2
    <3>1. filled[1] \in Sextet /\ filled[2] \in Sextet /\ filled[3] \in Sextet /\ filled[4] \in Sextet
      BY <3>0
    <3>2. Convert(filled)[1] \in Byte /\ Convert(filled)[2] \in Byte /\ Convert(filled)[3] \in Byte
      BY <3>1, ConvertBytes, FirstBits, SecondBits, ThirdBits
    <3>3. Convert(filled) = <<Convert(filled)[1], Convert(filled)[2], Convert(filled)[3]>>
      BY ConvertBytes
    <3>4. Convert(filled) \in Seq(Byte) /\ Len(Convert(filled)) = 3
      <4>1. \A x, y, z \in Byte : <<x, y, z>> \in Seq(Byte) /\ Len(<<x, y, z>>) = 3
        OBVIOUS
      <4> QED
        BY <4>1, <3>2, <3>3
    <3>5. filled[1] = Pad(4 * q)[1] /\ filled[2] = Pad(4 * q)[2]
          /\ filled[3] = Pad(4 * q)[3] /\ filled[4] = Pad(4 * q)[4]
      BY <2>2
    <3>6. \A k \in 1 .. 3 : Convert(filled)[k] = Convert(Pad(4 * q))[k]
      BY <3>5, ConvertBytes
    <3> QED
      BY <3>4, <3>6
  <2>4. result' \in Seq(Byte) /\ Len(result') = (3 * q) + 3
        /\ (\A i \in 1 .. 3 * q : result'[i] = result[i])
        /\ \A k \in 1 .. 3 : result'[(3 * q) + k] = Convert(Pad(4 * q))[k]
    <3>1. result' \in Seq(Byte) /\ Len(result') = Len(result) + Len(Convert(filled))
      BY <2>1, <2>3, <1>1, ConcatProperties
    <3>2. \A i \in 1 .. Len(result') : result'[i] = IF i <= Len(result) THEN result[i]
                                                  ELSE Convert(filled)[i - Len(result)]
      BY <2>1, <2>3, <1>1, ConcatProperties
    <3>3. ASSUME NEW k \in 1 .. 3 PROVE result'[(3 * q) + k] = Convert(Pad(4 * q))[k]
      <4> DEFINE m == 3 * q
      <4>0. m \in Nat /\ Len(result) = m /\ Len(result') = m + 3
        BY <3>1, <2>3, <1>1, <1>7
      <4> HIDE DEF m
      <4>1. m + k \in 1 .. Len(result') /\ ~(m + k <= Len(result)) /\ (m + k) - Len(result) = k
        BY <4>0
      <4> QED
        BY <4>1, <3>2, <2>3 DEF m
    <3> DEFINE m == 3 * q
    <3>4. m \in Nat /\ Len(result) = m /\ Len(result') = m + 3
      BY <3>1, <2>3, <1>1, <1>7
    <3> HIDE DEF m
    <3>5. \A i \in 1 .. m : i \in 1 .. Len(result') /\ i <= Len(result)
      BY <3>4
    <3>6. \A i \in 1 .. m : result'[i] = result[i]
      BY <3>2, <3>5
    <3> QED
      BY <3>1, <3>3, <3>4, <3>6 DEF m
  <2>5. ASSUME NEW g \in 0 .. pos', NEW k \in 1 .. 3, (3 * g) + k <= Len(result')
        PROVE  result'[(3 * g) + k] = Convert(Pad(4 * g)')[k]
    <3>1. CASE g = q
      BY <3>1, <2>4, <1>5
    <3>2. CASE g # q
      <4>1. g \in 0 .. q - 1 /\ (3 * g) + k <= 3 * q /\ (3 * g) + k \in 1 .. 3 * q /\ g \in 0 .. pos
        BY <3>2, <2>5, <2>4, <1>1, <1>3
      <4> QED
        BY <4>1, <2>4, <1>8, <1>5
    <3> QED
      BY <3>1, <3>2
  <2>6. scratchPad' \in [1 .. 4 -> Byte] /\ counter' = 0 /\ \A k \in 1 .. counter' : FALSE
    BY <2>1, <1>10, <1>11 DEF NotFound, Byte
  <2>7. Len(result') = (3 * (pos' \div 4)) + 0
    BY <2>4, <1>1, <1>3, <1>10, <1>11
  <2> QED
    BY <2>4, <2>5, <2>6, <2>7, <1>3, <1>4, <1>10 DEF Base64Inv
<1>12. CASE counter # 3
  <2>1. result' = result /\ scratchPad' = filled
    BY <1>12 DEF ParseBase64Digit, filled
  <2>2. ASSUME NEW k \in 1 .. counter' PROVE scratchPad'[k] = text[(pos' - counter') + k]
    <3>1. pos' - counter' = 4 * q /\ counter' = counter + 1 /\ k \in 1 .. 4
      BY <1>1, <1>3, <1>10, <1>12
    <3>2. CASE k = counter + 1
      <4>1. (4 * q) + k = pos + 1
        BY <3>2, <1>1
      <4> QED
        BY <4>1, <3>1, <3>2, <2>1, <1>6
    <3>3. CASE k \in 1 .. counter
      BY <3>1, <3>3, <2>1, <1>1, <1>6, <1>9
    <3> QED
      BY <3>1, <3>2, <3>3, <1>1
  <2>3. ASSUME NEW g \in 0 .. pos', NEW k \in 1 .. 3, (3 * g) + k <= Len(result')
        PROVE  result'[(3 * g) + k] = Convert(Pad(4 * g)')[k]
    <3>1. (3 * g) + k <= 3 * q
      BY <2>1, <2>3, <1>7
    <3>2. g \in 0 .. pos
      BY <3>1, <1>1, <1>3
    <3> QED
      BY <3>1, <3>2, <2>1, <1>5, <1>8
  <2>4. Len(result') = (3 * (pos' \div 4)) + 0
    BY <2>1, <1>1, <1>3, <1>7, <1>10, <1>12
  <2> QED
    BY <2>1, <2>2, <2>3, <2>4, <1>1, <1>3, <1>4, <1>6, <1>10 DEF Base64Inv
<1> QED
  BY <1>11, <1>12

LEMMA Base64EndStep ==
    ASSUME Arguments, call = "ParseBase64", Base64Inv, ParseBase64End, UNCHANGED <<call, text, array>>
    PROVE  Base64Inv'
<1> DEFINE q == pos \div 4
           c == Convert(scratchPad)
           tail == SubSeq(c, 1, Kept(counter))
<1>1. /\ pos \in Nat /\ Len(text) \in Nat /\ pos <= Len(text)
      /\ counter \in 0 .. 3 /\ counter = pos % 4 /\ pos = (4 * q) + counter /\ q \in 0 .. pos
      /\ result \in Seq(Byte) /\ scratchPad \in [1 .. 4 -> Byte]
  BY Base64Facts
<1>2. /\ returned = "no" /\ returned' = ResultOf(Len(result'))
      /\ pos < Len(text) => text[pos + 1] = Equals
      /\ UNCHANGED <<text, pos, counter, scratchPad>>
      /\ result' = IF counter = 0 THEN result ELSE result \o tail
  BY DEF ParseBase64End, Calling, base64Vars
<1>3. (\A n : Pad(n)' = Pad(n)) /\ (\A n : ResultOf(n)' = ResultOf(n))
      /\ \A n : ResultOf(n) \notin {"no", "InvalidArgument"}
  BY DEF Pad, ResultOf
<1>4. Len(result) = 3 * q
  BY <1>1, <1>2 DEF Base64Inv
<1>5. \A g \in 0 .. pos, k \in 1 .. 3 : (3 * g) + k <= 3 * q => result[(3 * g) + k] = Convert(Pad(4 * g))[k]
  BY <1>4 DEF Base64Inv
<1>6. \A k \in 1 .. counter : scratchPad[k] = Pad(4 * q)[k] /\ scratchPad[k] \in Sextet
  BY Base64Facts
<1> HIDE DEF q, c, tail
<1>7. CASE counter = 0
  <2>1. result' = result
    BY <1>2, <1>7
  <2>2. Len(result') = 3 * (pos \div 4)
    BY <2>1, <1>4 DEF q
  <2> QED
    BY <2>1, <2>2, <1>2, <1>3, <1>7 DEF Base64Inv
<1>8. CASE counter # 0
  <2>1. \A k \in 1 .. counter - 1 : c[k] = Convert(Pad(4 * q))[k] /\ c[k] \in Byte
    <3> SUFFICES ASSUME NEW k \in 1 .. counter - 1
                 PROVE  c[k] = Convert(Pad(4 * q))[k] /\ c[k] \in Byte
      OBVIOUS
    <3>1. k \in 1 .. 2 /\ k \in 1 .. counter /\ k + 1 \in 1 .. counter
      BY <1>1
    <3>2. scratchPad[k] = Pad(4 * q)[k] /\ scratchPad[k] \in Sextet
          /\ scratchPad[k + 1] = Pad(4 * q)[k + 1] /\ scratchPad[k + 1] \in Sextet
      BY <3>1, <1>6
    <3>3. CASE k = 1
      <4>1. c[1] = FirstByte(scratchPad[1], scratchPad[2])
            /\ Convert(Pad(4 * q))[1] = FirstByte(Pad(4 * q)[1], Pad(4 * q)[2])
        BY ConvertBytes DEF c
      <4>2. scratchPad[1] = Pad(4 * q)[1] /\ scratchPad[1] \in Sextet
            /\ scratchPad[2] = Pad(4 * q)[2] /\ scratchPad[2] \in Sextet
        BY <3>2, <3>3
      <4>3. FirstByte(scratchPad[1], scratchPad[2]) \in Byte
        BY <4>2, FirstBits
      <4> QED
        BY <4>1, <4>2, <4>3, <3>3
    <3>4. CASE k = 2
      <4>1. c[2] = SecondByte(scratchPad[2], scratchPad[3])
            /\ Convert(Pad(4 * q))[2] = SecondByte(Pad(4 * q)[2], Pad(4 * q)[3])
        BY ConvertBytes DEF c
      <4>2. scratchPad[2] = Pad(4 * q)[2] /\ scratchPad[2] \in Sextet
            /\ scratchPad[3] = Pad(4 * q)[3] /\ scratchPad[3] \in Sextet
        BY <3>2, <3>4
      <4>3. SecondByte(scratchPad[2], scratchPad[3]) \in Byte
        BY <4>2, SecondBits
      <4> QED
        BY <4>1, <4>2, <4>3, <3>4
    <3> QED
      BY <3>1, <3>3, <3>4
  <2>2. tail \in Seq(Byte) /\ Len(tail) = counter - 1 /\ \A k \in 1 .. counter - 1 : tail[k] = c[k]
    <3>1. tail = [k \in 1 .. counter - 1 |-> c[k]]
      <4>1. counter - 1 \in 0 .. 2 /\ Kept(counter) = counter - 1
        BY <1>1, <1>8 DEF Kept
      <4>2. c = <<c[1], c[2], c[3]>>
        BY ConvertBytes DEF c
      <4> QED
        BY <4>1, <4>2 DEF tail, SubSeq
    <3>2. counter - 1 \in Nat
      BY <1>1, <1>8
    <3> QED
      BY <3>1, <3>2, <2>1
  <2>3. result' \in Seq(Byte) /\ Len(result') = (3 * q) + (counter - 1)
        /\ (\A i \in 1 .. 3 * q : result'[i] = result[i])
        /\ \A k \in 1 .. counter - 1 : result'[(3 * q) + k] = Convert(Pad(4 * q))[k]
    <3>0. result' = result \o tail
      BY <1>2, <1>8
    <3>1. result' \in Seq(Byte) /\ Len(result') = Len(result) + Len(tail)
          /\ \A i \in 1 .. Len(result') : result'[i] = IF i <= Len(result) THEN result[i]
                                                     ELSE tail[i - Len(result)]
      BY <3>0, <1>1, <2>2, ConcatProperties
    <3>2. Len(result') = (3 * q) + (counter - 1)
      BY <3>1, <2>2, <1>4
    <3>3. 3 * q \in Nat /\ counter \in 1 .. 3
      BY <1>1, <1>8
    <3>4. ASSUME NEW k \in 1 .. counter - 1 PROVE result'[(3 * q) + k] = Convert(Pad(4 * q))[k]
      <4>1. (3 * q) + k \in 1 .. Len(result') /\ ~((3 * q) + k <= 3 * q) /\ ((3 * q) + k) - (3 * q) = k
        BY <3>2, <3>3
      <4>2. result'[(3 * q) + k] = tail[k]
        BY <4>1, <3>1, <1>4
      <4> QED
        BY <4>2, <2>1, <2>2
    <3>5. ASSUME NEW i \in 1 .. 3 * q PROVE result'[i] = result[i]
      <4>1. i \in 1 .. Len(result') /\ i <= 3 * q
        BY <3>2, <3>3
      <4> QED
        BY <4>1, <3>1, <1>4
    <3> QED
      BY <3>1, <3>4, <3>2, <3>5
  <2>4. ASSUME NEW g \in 0 .. pos, NEW k \in 1 .. 3, (3 * g) + k <= Len(result')
        PROVE  result'[(3 * g) + k] = Convert(Pad(4 * g))[k]
    <3>1. CASE g = q
      <4>1. k \in 1 .. counter - 1
        BY <3>1, <2>3, <2>4, <1>1
      <4> QED
        BY <4>1, <3>1, <2>3
    <3>2. CASE g # q
      <4>1. (3 * g) + k <= 3 * q /\ (3 * g) + k \in 1 .. 3 * q
        BY <3>2, <2>3, <2>4, <1>1
      <4> QED
        BY <4>1, <2>3, <1>5
    <3> QED
      BY <3>1, <3>2
  <2>5. Len(result') = (3 * (pos \div 4)) + (counter - 1)
    BY <2>3 DEF q
  <2>6. \A g \in 0 .. pos', k \in 1 .. 3 : (3 * g) + k <= Len(result') =>
           result'[(3 * g) + k] = Convert(Pad(4 * g)')[k]
    BY <2>4, <1>2, <1>3
  <2>7. returned' \notin {"no", "InvalidArgument"} /\ counter' # 0
    BY <1>2, <1>3, <1>8
  <2>8. (returned = ResultOf(Len(result)) /\ (pos < Len(text) => text[pos + 1] = Equals))'
    BY <1>2, <1>3
  <2> QED
    BY <2>3, <2>5, <2>6, <2>7, <2>8, <1>2, <1>3 DEF Base64Inv
<1> QED
  BY <1>7, <1>8

LEMMA Base64RefuseStep ==
    ASSUME Arguments, call = "ParseBase64", Base64Inv, Refuse, UNCHANGED <<call, text, array>>
    PROVE  Base64Inv'
<1>1. /\ pos < Len(text) /\ text[pos + 1] = NotADigit /\ returned = "no" /\ returned' = "InvalidArgument"
      /\ UNCHANGED <<pos, result, counter, scratchPad>>
  BY DEF Refuse, Calling, base64Vars
<1>2. \A n : Pad(n)' = Pad(n)
  BY DEF Pad
<1> QED
  BY <1>1, <1>2 DEF Base64Inv

\* Every bit of what is written is the one of the digits.
LEMMA Base64Bits ==
    ASSUME Arguments, call = "ParseBase64", Base64Inv,
           NEW digits, \A j \in 1 .. pos : digits[j] = text[j],
           NEW i \in Nat, i < 8 * Len(result), Len(result) = (6 * pos) \div 8
    PROVE  Bit(result, 8, i) = Bit(digits, 6, i)
<1> DEFINE g == i \div 24
           r == i % 24
           k == (r \div 8) + 1
           e == 7 - (i % 8)
           x == 5 - (i % 6)
           j == (i \div 6) + 1
           P == Pad(4 * g)
<1>1. pos \in Nat /\ Len(result) \in Nat
  BY Base64Facts
<1>2. g \in Nat /\ r \in 0 .. 23 /\ i = (24 * g) + r
  OBVIOUS
<1>3. /\ (i \div 8) + 1 = (3 * g) + k /\ k \in 1 .. 3 /\ e = 7 - (r % 8)
      /\ j = (4 * g) + ((r \div 6) + 1) /\ x = 5 - (r % 6)
  <2> HIDE DEF g, r
  <2>1. i \div 8 = (3 * g) + (r \div 8) /\ i % 8 = r % 8
    BY <1>2
  <2>2. i \div 6 = (4 * g) + (r \div 6) /\ i % 6 = r % 6
    BY <1>2
  <2>3. r \div 8 \in 0 .. 2 /\ r \div 6 \in 0 .. 3
    BY <1>2
  <2> QED
    BY <1>2, <2>1, <2>2, <2>3
<1> HIDE DEF g, r, P
<1>4. (3 * g) + k <= Len(result) /\ (4 * g) + (k + 1) <= pos /\ g \in 0 .. pos
  <2> DEFINE n == Len(result)
  <2>1. n \in Nat /\ i < 8 * n /\ n = (6 * pos) \div 8
    BY <1>1
  <2> HIDE DEF n
  <2>2. (3 * g) + k <= n
    <3>1. (i \div 8) + 1 <= n
      BY <2>1
    <3> QED
      BY <3>1, <1>3
  <2>3. 8 * n <= 6 * pos
    BY <2>1, <1>1
  <2>4. 4 * ((3 * g) + k) <= 3 * pos
    <3> HIDE DEF k
    <3>1. (3 * g) + k \in Nat
      BY <1>2, <1>3
    <3> QED
      BY <2>2, <2>3, <3>1, <2>1, <1>1
  <2>5. (4 * g) + (k + 1) <= pos
    <3> HIDE DEF k
    <3> QED
      BY <2>4, <1>1, <1>2, <1>3
  <2> QED
    BY <2>2, <2>5, <1>1, <1>2, <1>3 DEF n
<1>5. /\ P[k] = text[(4 * g) + k] /\ P[k] \in Sextet /\ P[k + 1] = text[(4 * g) + (k + 1)] /\ P[k + 1] \in Sextet
      /\ digits[(4 * g) + k] = P[k] /\ digits[(4 * g) + (k + 1)] = P[k + 1]
  <2> HIDE DEF k
  <2>1. 4 * g \in Nat /\ k \in 1 .. 4 /\ k + 1 \in 1 .. 4 /\ (4 * g) + k <= pos
        /\ (4 * g) + k \in 1 .. pos /\ (4 * g) + (k + 1) \in 1 .. pos
    BY <1>1, <1>2, <1>3, <1>4
  <2>2. P[k] = text[(4 * g) + k] /\ P[k] \in Sextet
    BY <2>1, PadDigits DEF P
  <2>3. P[k + 1] = text[(4 * g) + (k + 1)] /\ P[k + 1] \in Sextet
    BY <2>1, <1>4, PadDigits DEF P
  <2> QED
    BY <2>1, <2>2, <2>3
<1>6. result[(3 * g) + k] = Convert(P)[k]
  <2> HIDE DEF k
  <2> QED
    BY <1>3, <1>4 DEF Base64Inv, P
<1>7. Bit(result, 8, i) = BitOf(Convert(P)[k], e)
  <2>1. Bit(result, 8, i) = (result[(i \div 8) + 1] \div 2^(8 - 1 - (i % 8))) % 2
    BY DEF Bit
  <2>2. (8 - 1 - (i % 8)) = e
    OBVIOUS
  <2> HIDE DEF k, e
  <2> QED
    BY <2>1, <2>2, <1>3, <1>6 DEF BitOf
<1>8. Bit(digits, 6, i) = BitOf(digits[j], x)
  <2>1. Bit(digits, 6, i) = (digits[j] \div 2^(6 - 1 - (i % 6))) % 2
    BY DEF Bit
  <2>2. (6 - 1 - (i % 6)) = x
    OBVIOUS
  <2> HIDE DEF j, x
  <2> QED
    BY <2>1, <2>2 DEF BitOf
<1> SUFFICES BitOf(Convert(P)[k], e) = BitOf(digits[j], x)
  BY <1>7, <1>8
<1> HIDE DEF j, e, x, k
<1>9. CASE r \in 0 .. 7
  <2>1. k = 1 /\ e = 7 - r
    BY <1>3, <1>9 DEF k
  <2>2. Convert(P)[1] = FirstByte(P[1], P[2]) /\ P[1] \in Sextet /\ P[2] \in Sextet
    BY <2>1, <1>5, ConvertBytes
  <2>3. digits[(4 * g) + 1] = P[1] /\ digits[(4 * g) + 2] = P[2]
    BY <2>1, <1>5
  <2>4. CASE r < 6
    <3>0. r \div 6 = 0 /\ r % 6 = r - 0
      BY <2>4, <1>9
    <3>1. j = (4 * g) + 1 /\ x = e - 2 /\ e \in 2 .. 7
      <4>1. j = (4 * g) + ((r \div 6) + 1) /\ x = 5 - (r % 6)
        BY <1>3
      <4>2. j = (4 * g) + 1
        BY <4>1, <3>0, <1>2
      <4>3. x = e - 2 /\ e \in 2 .. 7
        BY <4>1, <3>0, <2>1, <2>4, <1>9
      <4> QED
        BY <4>2, <4>3
    <3>2. BitOf(FirstByte(P[1], P[2]), e) = BitOf(P[1], e - 2)
      BY <3>1, <2>2, FirstBits
    <3> QED
      BY <3>1, <3>2, <2>1, <2>2, <2>3
  <2>5. CASE ~(r < 6)
    <3>0. r \div 6 = 1 /\ r % 6 = r - 6
      BY <2>5, <1>9
    <3>1. j = (4 * g) + 2 /\ x = e + 4 /\ e \in 0 .. 1
      <4>1. j = (4 * g) + ((r \div 6) + 1) /\ x = 5 - (r % 6)
        BY <1>3
      <4>2. j = (4 * g) + 2
        BY <4>1, <3>0, <1>2
      <4>3. x = e + 4 /\ e \in 0 .. 1
        BY <4>1, <3>0, <2>1, <2>5, <1>9
      <4> QED
        BY <4>2, <4>3
    <3>2. BitOf(FirstByte(P[1], P[2]), e) = BitOf(P[2], e + 4)
      BY <3>1, <2>2, FirstBits
    <3> QED
      BY <3>1, <3>2, <2>1, <2>2, <2>3
  <2> QED
    BY <2>4, <2>5
<1>10. CASE r \in 8 .. 15
  <2>1. k = 2 /\ e = 15 - r
    BY <1>3, <1>10 DEF k
  <2>2. Convert(P)[2] = SecondByte(P[2], P[3]) /\ P[2] \in Sextet /\ P[3] \in Sextet
    BY <2>1, <1>5, ConvertBytes
  <2>3. digits[(4 * g) + 2] = P[2] /\ digits[(4 * g) + 3] = P[3]
    BY <2>1, <1>5
  <2>4. CASE r < 12
    <3>0. r \div 6 = 1 /\ r % 6 = r - 6
      BY <2>4, <1>10
    <3>1. j = (4 * g) + 2 /\ x = e - 4 /\ e \in 4 .. 7
      <4>1. j = (4 * g) + ((r \div 6) + 1) /\ x = 5 - (r % 6)
        BY <1>3
      <4>2. j = (4 * g) + 2
        BY <4>1, <3>0, <1>2
      <4>3. x = e - 4 /\ e \in 4 .. 7
        BY <4>1, <3>0, <2>1, <2>4, <1>10
      <4> QED
        BY <4>2, <4>3
    <3>2. BitOf(SecondByte(P[2], P[3]), e) = BitOf(P[2], e - 4)
      BY <3>1, <2>2, SecondBits
    <3> QED
      BY <3>1, <3>2, <2>1, <2>2, <2>3
  <2>5. CASE ~(r < 12)
    <3>0. r \div 6 = 2 /\ r % 6 = r - 12
      BY <2>5, <1>10
    <3>1. j = (4 * g) + 3 /\ x = e + 2 /\ e \in 0 .. 3
      <4>1. j = (4 * g) + ((r \div 6) + 1) /\ x = 5 - (r % 6)
        BY <1>3
      <4>2. j = (4 * g) + 3
        BY <4>1, <3>0, <1>2
      <4>3. x = e + 2 /\ e \in 0 .. 3
        BY <4>1, <3>0, <2>1, <2>5, <1>10
      <4> QED
        BY <4>2, <4>3
    <3>2. BitOf(SecondByte(P[2], P[3]), e) = BitOf(P[3], e + 2)
      BY <3>1, <2>2, SecondBits
    <3> QED
      BY <3>1, <3>2, <2>1, <2>2, <2>3
  <2> QED
    BY <2>4, <2>5
<1>11. CASE r \in 16 .. 23
  <2>1. k = 3 /\ e = 23 - r
    BY <1>3, <1>11 DEF k
  <2>2. Convert(P)[3] = ThirdByte(P[3], P[4]) /\ P[3] \in Sextet /\ P[4] \in Sextet
    BY <2>1, <1>5, ConvertBytes
  <2>3. digits[(4 * g) + 3] = P[3] /\ digits[(4 * g) + 4] = P[4]
    BY <2>1, <1>5
  <2>4. CASE r < 18
    <3>0. r \div 6 = 2 /\ r % 6 = r - 12
      BY <2>4, <1>11
    <3>1. j = (4 * g) + 3 /\ x = e - 6 /\ e \in 6 .. 7
      <4>1. j = (4 * g) + ((r \div 6) + 1) /\ x = 5 - (r % 6)
        BY <1>3
      <4>2. j = (4 * g) + 3
        BY <4>1, <3>0, <1>2
      <4>3. x = e - 6 /\ e \in 6 .. 7
        BY <4>1, <3>0, <2>1, <2>4, <1>11
      <4> QED
        BY <4>2, <4>3
    <3>2. BitOf(ThirdByte(P[3], P[4]), e) = BitOf(P[3], e - 6)
      BY <3>1, <2>2, ThirdBits
    <3> QED
      BY <3>1, <3>2, <2>1, <2>2, <2>3
  <2>5. CASE ~(r < 18)
    <3>0. r \div 6 = 3 /\ r % 6 = r - 18
      BY <2>5, <1>11
    <3>1. j = (4 * g) + 4 /\ x = e /\ e \in 0 .. 5
      <4>1. j = (4 * g) + ((r \div 6) + 1) /\ x = 5 - (r % 6)
        BY <1>3
      <4>2. j = (4 * g) + 4
        BY <4>1, <3>0, <1>2
      <4>3. x = e /\ e \in 0 .. 5
        BY <4>1, <3>0, <2>1, <2>5, <1>11
      <4> QED
        BY <4>2, <4>3
    <3>2. BitOf(ThirdByte(P[3], P[4]), e) = BitOf(P[4], e)
      BY <3>1, <2>2, ThirdBits
    <3> QED
      BY <3>1, <3>2, <2>1, <2>2, <2>3
  <2> QED
    BY <2>4, <2>5
<1> QED
  BY <1>2, <1>9, <1>10, <1>11

LEMMA Base64Result ==
    ASSUME Arguments, call = "ParseBase64", Base64Inv
    PROVE  Base64KeepsTheBits
<1> SUFFICES ASSUME returned # "no" PROVE Base64KeepsTheBits
  BY DEF Base64KeepsTheBits, Returned
<1> DEFINE ends   == {i \in DOMAIN text : text[i] = Equals}
           first  == CHOOSE i \in ends : \A j \in ends : i <= j
           last   == IF ends = {} THEN Len(text) ELSE first - 1
           digits == SubSeq(text, 1, last)
           size   == (6 * Len(digits)) \div 8
<1>1. pos \in Nat /\ Len(text) \in Nat /\ pos <= Len(text) /\ text \in Seq((0 .. 64) \cup {NotADigit})
      /\ DOMAIN text = 1 .. Len(text)
  BY Base64Facts
<1>2. \A j \in 1 .. pos : text[j] \in Sextet
  BY DEF Base64Inv
<1>3. \A i \in ends : i \in pos + 1 .. Len(text) /\ text[i] = Equals
  <2> SUFFICES ASSUME NEW i \in ends PROVE i \in pos + 1 .. Len(text) /\ text[i] = Equals
    OBVIOUS
  <2>1. i \in 1 .. Len(text) /\ text[i] = Equals
    BY <1>1
  <2>2. i \notin 1 .. pos
    <3>1. 64 \notin Sextet
      BY DEF Sextet
    <3> HIDE DEF ends
    <3> QED
      BY <3>1, <2>1, <1>2 DEF Equals
  <2> HIDE DEF ends
  <2> QED
    BY <2>1, <2>2, <1>1
<1>4. ends # {} => first \in ends /\ \A j \in ends : first <= j
  <2>1. ends \in SUBSET Nat
    BY <1>1
  <2> HIDE DEF ends
  <2> SUFFICES ASSUME ends # {} PROVE first \in ends /\ \A j \in ends : first <= j
    OBVIOUS
  <2>2. \E n \in ends : \A m \in ends : n <= m
    BY <2>1, LeastElement
  <2> QED
    BY <2>2
<1>5. \A i \in 1 .. Len(text) : text[i] = Equals => i \in ends
  BY <1>1
<1> HIDE DEF ends, first
<1>6. \/ returned = "InvalidArgument" /\ pos < Len(text) /\ text[pos + 1] = NotADigit
      \/ returned = ResultOf(Len(result)) /\ (pos < Len(text) => text[pos + 1] = Equals)
  BY DEF Base64Inv
<1>7. CASE returned = "InvalidArgument" /\ pos < Len(text) /\ text[pos + 1] = NotADigit
  <2>1. last \in pos + 1 .. Len(text)
    <3>1. CASE ends = {}
      BY <3>1, <1>1, <1>7
    <3>2. CASE ends # {}
      <4>1. first \in pos + 1 .. Len(text) /\ text[first] = Equals
        BY <3>2, <1>3, <1>4
      <4>2. first # pos + 1
        BY <4>1, <1>7 DEF Equals, NotADigit
      <4> QED
        BY <4>1, <4>2, <3>2, <1>1
    <3> QED
      BY <3>1, <3>2
  <2> HIDE DEF last
  <2>2. Len(digits) = last /\ pos + 1 \in 1 .. last /\ digits[pos + 1] = text[pos + 1] /\ digits \in Seq((0 .. 64) \cup {NotADigit})
    <3>1. last \in 0 .. Len(text) /\ pos + 1 \in 1 .. last
      BY <2>1, <1>1
    <3> QED
      BY <3>1, <1>1, SubSeqProperties
  <2>3. NotADigit \in ToSet(digits)
    <3> HIDE DEF digits
    <3> QED
      BY <2>2, <1>7 DEF ToSet
  <2> QED
    BY <2>3, <1>7 DEF Base64KeepsTheBits, ends, first, last
<1>8. CASE returned = ResultOf(Len(result)) /\ (pos < Len(text) => text[pos + 1] = Equals)
  <2>1. last = pos
    <3>1. CASE ends = {}
      <4>1. ~(pos < Len(text))
        <5>1. pos + 1 \notin ends
          BY <3>1
        <5> QED
          BY <5>1, <1>1, <1>5, <1>8
      <4>2. pos = Len(text)
        <5> DEFINE n == Len(text)
        <5>1. n \in Nat /\ pos \in Nat /\ pos <= n /\ ~(pos < n)
          BY <4>1, <1>1
        <5> HIDE DEF n
        <5>2. pos = n
          BY <5>1
        <5> QED
          BY <5>2 DEF n
      <4> QED
        BY <4>2, <3>1
    <3>2. CASE ends # {}
      <4>1. first \in pos + 1 .. Len(text)
        BY <3>2, <1>3, <1>4
      <4>2. pos + 1 \in ends
        BY <4>1, <1>1, <1>5, <1>8
      <4>3. first <= pos + 1
        BY <4>2, <3>2, <1>4
      <4>4. first = pos + 1
        BY <4>1, <4>3, <1>1
      <4>5. last = first - 1
        BY <3>2
      <4> HIDE DEF last
      <4> QED
        BY <4>4, <4>5, <1>1
    <3> QED
      BY <3>1, <3>2
  <2> HIDE DEF last
  <2>2. Len(digits) = pos /\ \A j \in 1 .. pos : digits[j] = text[j]
    <3>1. pos \in 0 .. Len(text)
      BY <1>1
    <3> QED
      BY <3>1, <2>1, <1>1, SubSeqProperties
  <2>3. digits \in Seq((0 .. 64) \cup {NotADigit}) /\ NotADigit \notin ToSet(digits)
    <3>1. pos \in 0 .. Len(text)
      BY <1>1
    <3>2. digits \in Seq((0 .. 64) \cup {NotADigit})
      BY <3>1, <2>1, <1>1, SubSeqProperties
    <3> HIDE DEF digits
    <3>3. \A j \in 1 .. Len(digits) : digits[j] \in Sextet
      BY <2>2, <1>2
    <3>4. NotADigit \notin Sextet /\ DOMAIN digits = 1 .. Len(digits)
      BY <3>2 DEF NotADigit, Sextet
    <3> QED
      BY <3>2, <3>3, <3>4 DEF ToSet
  <2> HIDE DEF digits
  <2>4. Len(result) = (6 * pos) \div 8 /\ Len(result) \in Nat /\ result \in Seq(Byte)
    <3> DEFINE q == pos \div 4
    <3>1. counter \in 0 .. 3 /\ q \in Nat /\ pos = (4 * q) + counter /\ result \in Seq(Byte)
      BY Base64Facts
    <3>2. returned \notin {"no", "InvalidArgument"}
      BY <1>8 DEF ResultOf
    <3>3. Len(result) = (3 * q) + (IF counter = 0 THEN 0 ELSE counter - 1)
      BY <3>2 DEF Base64Inv
    <3> HIDE DEF q
    <3>4. (3 * q) + (IF counter = 0 THEN 0 ELSE counter - 1) = (6 * pos) \div 8
      BY <3>1
    <3> QED
      BY <3>1, <3>3, <3>4
  <2>5. SameBits(result, digits, 6)
    <3> SUFFICES ASSUME NEW i \in 0 .. (8 * Len(result)) - 1
                 PROVE  Bit(result, 8, i) = Bit(digits, 6, i)
      BY DEF SameBits
    <3>1. i \in Nat /\ i < 8 * Len(result)
      BY <2>4
    <3> QED
      BY <3>1, <2>2, <2>4, Base64Bits
  <2>6. /\ returned # "InvalidArgument"
        /\ returned = "ArgumentTooLong" => size > array
        /\ returned = "ArgumentTooShort" => size < array
        /\ returned = "OK" => array \in {NoArray, size}
    <3>1. returned = IF array \in {NoArray, Len(result)} THEN "OK"
                     ELSE IF Len(result) > array THEN "ArgumentTooLong" ELSE "ArgumentTooShort"
      BY <1>8 DEF ResultOf
    <3>2. array \in Nat \cup {NoArray} /\ size = Len(result)
      BY <2>2, <2>4 DEF Arguments
    <3> HIDE DEF size
    <3> QED
      BY <3>1, <3>2, <2>4
  <2>7. Len(result) = size
    BY <2>2, <2>4
  <2> QED
    BY <2>3, <2>5, <2>6, <2>7 DEF Base64KeepsTheBits, digits, last, ends, first
<1> QED
  BY <1>6, <1>7, <1>8

\* The same for ParseBase64.
LEMMA Base64Calls == Spec => [](Arguments /\ (call = "ParseBase64" => Base64Inv))
<1> DEFINE Inv == Arguments /\ (call = "ParseBase64" => Base64Inv)
<1>1. Init => Inv
  BY ArgumentsInit, Base64Init
<1>2. Inv /\ [Next]_vars => Inv'
  <2> SUFFICES ASSUME Inv, [Next]_vars PROVE Inv'
    OBVIOUS
  <2>1. CASE Next
    <3>1. UNCHANGED <<call, text, array>> /\ Arguments'
      BY <2>1, Steps, ArgumentsStep
    <3>2. ASSUME call = "ParseBase64" PROVE Base64Inv'
      <4>1. Base64Step
        BY <2>1, <3>2, Steps DEF HexStep, UTF8Step, EntityStep, PadStep, DigestStep
      <4> QED
        BY <3>1, <3>2, <4>1, Base64DigitStep, Base64EndStep, Base64RefuseStep DEF Base64Step
    <3> QED
      BY <3>1, <3>2
  <2>2. CASE UNCHANGED vars
    BY <2>2, ArgumentsStep DEF vars, base64Vars, Base64Inv, Pad, ResultOf
  <2> QED
    BY <2>1, <2>2
<1> QED
  BY <1>1, <1>2, PTL DEF Spec

\* ParseBase64 (string.cc:157-203) returns the bits of the digits before "=",
\* and nothing of its scratch pad, whatever that held, for texts of any length.
THEOREM Base64KeepsTheBitsAlways == Spec => []Base64KeepsTheBits
<1> DEFINE Inv == Arguments /\ (call = "ParseBase64" => Base64Inv)
<1>1. Inv => Base64KeepsTheBits
  <2> SUFFICES ASSUME Inv, call # "ParseBase64" PROVE Base64KeepsTheBits
    BY Base64Result
  <2> QED
    BY DEF Base64KeepsTheBits, Returned
<1> QED
  BY <1>1, Base64Calls, PTL

----------------------------------------------------------------------------
\* PadMessage

\* A number after each shift by a byte.
Shifts(m) ==
    LET shift(x) == x \div 256
        third    == shift(shift(m))
        fifth    == shift(shift(third))
        seventh  == shift(shift(fifth))
    IN  <<m, shift(m), third, shift(third), fifth, shift(fifth), seventh, shift(seventh), shift(shift(seventh))>>

\* What is in the padded message before the bytes of its size, and in those that
\* are written.
Filled(n) == NumMsgBlocks(n) * BlockLength

Padded ==
    LET n == Len(text)
    IN  \/ result = <<>> /\ pos = 0 /\ numMsgBits = 8 * n
        \/ /\ result \in Seq(Byte) /\ Len(result) = Filled(n)
           /\ \A i \in 1 .. Filled(n) - 8 :
                 result[i] = IF i <= n THEN text[i] ELSE IF i = n + 1 THEN 128 ELSE 0
           /\ pos \in 0 .. 8
           /\ \A i \in 1 .. pos : result[(Filled(n) - 8) + i] = Shifts(8 * n)[i] % 256
           /\ numMsgBits = Shifts(8 * n)[pos + 1]

PadInv == Padded /\ (returned # "no" => pos = 8)

LEMMA ShiftsByBytes ==
    ASSUME NEW m \in Nat
    PROVE  /\ Shifts(m) \in [1 .. 9 -> Nat]
           /\ Shifts(m)[1] = m
           /\ \A i \in 1 .. 8 : Shifts(m)[i + 1] = Shifts(m)[i] \div 256
<1> DEFINE shift(x) == x \div 256
           m2 == shift(m)
           m3 == shift(m2)
           m4 == shift(m3)
           m5 == shift(m4)
           m6 == shift(m5)
           m7 == shift(m6)
           m8 == shift(m7)
           m9 == shift(m8)
<1>1. Shifts(m) = <<m, m2, m3, m4, m5, m6, m7, m8, m9>>
  BY DEF Shifts
<1>2. \A x \in Nat : shift(x) \in Nat
  OBVIOUS
<1> HIDE DEF shift
<1>3. m2 \in Nat /\ m3 \in Nat /\ m4 \in Nat /\ m5 \in Nat
  BY <1>2
<1>4. m6 \in Nat /\ m7 \in Nat /\ m8 \in Nat /\ m9 \in Nat
  BY <1>2, <1>3
<1>5. /\ m2 = shift(m) /\ m3 = shift(m2) /\ m4 = shift(m3) /\ m5 = shift(m4)
      /\ m6 = shift(m5) /\ m7 = shift(m6) /\ m8 = shift(m7) /\ m9 = shift(m8)
  OBVIOUS
<1> HIDE DEF m2, m3, m4, m5, m6, m7, m8, m9
<1>6. Shifts(m) \in [1 .. 9 -> Nat] /\ Shifts(m)[1] = m
  BY <1>1, <1>3, <1>4
<1>7. \A i \in 1 .. 8 : Shifts(m)[i + 1] = shift(Shifts(m)[i])
  <2>1. /\ Shifts(m)[1] = m /\ Shifts(m)[2] = m2 /\ Shifts(m)[3] = m3 /\ Shifts(m)[4] = m4
        /\ Shifts(m)[5] = m5 /\ Shifts(m)[6] = m6 /\ Shifts(m)[7] = m7 /\ Shifts(m)[8] = m8
        /\ Shifts(m)[9] = m9
    BY <1>1
  <2> QED
    BY <2>1, <1>5
<1> QED
  BY <1>6, <1>7 DEF shift

\* Whole blocks with room for message, marker and size, and not one more than
\* that.
LEMMA FilledBlocks ==
    ASSUME NEW n \in Nat
    PROVE  /\ NumMsgBlocks(n) \in Nat \ {0} /\ NumMsgBlocks(n) <= n + 1
           /\ Filled(n) \in Nat /\ n + 9 < Filled(n) /\ Filled(n) <= n + 9 + BlockLength
           /\ Filled(n) % BlockLength = 0 /\ Filled(n) \div BlockLength = NumMsgBlocks(n)
<1> DEFINE b == BlockLength
           q == (n + 9) \div b
<1>1. b \in Nat /\ b >= 64
  BY BlockLengthAssumption
<1> HIDE DEF b
<1>2. q \in Nat /\ q * b <= n + 9 /\ n + 9 < (q * b) + b
  BY <1>1
<1>3. NumMsgBlocks(n) = q + 1 /\ Filled(n) = (q + 1) * b
  BY DEF NumMsgBlocks, Filled, b
<1> HIDE DEF q
<1>4. (q + 1) * b = (q * b) + b
  BY <1>1, <1>2
<1>5. q <= n
  <2>1. q * 64 <= q * b
    BY <1>1, <1>2
  <2>2. q * b \in Nat
    BY <1>1, <1>2
  <2> QED
    BY <2>1, <2>2, <1>2
<1>6. ((q + 1) * b) % b = 0 /\ ((q + 1) * b) \div b = q + 1
  BY <1>1, <1>2
<1>7. (q + 1) * b \in Nat
  BY <1>1, <1>2
<1>8. n + 9 < (q + 1) * b /\ (q + 1) * b <= n + 9 + b
  <2> DEFINE p == q * b
  <2>1. p \in Nat
    BY <1>1, <1>2
  <2>2. p <= n + 9 /\ n + 9 < p + b /\ (q + 1) * b = p + b
    BY <1>2, <1>4
  <2> HIDE DEF p
  <2> QED
    BY <2>1, <2>2, <1>1
<1> QED
  BY <1>2, <1>3, <1>5, <1>6, <1>7, <1>8 DEF b

LEMMA PadMessageStep ==
    ASSUME Arguments, call \in {"PadMessage", "MD5", "SHA1"}, Padded, PadMessage, UNCHANGED text
    PROVE  Padded' /\ returned' = returned
<1> DEFINE n == Len(text)
<1>1. n \in Nat /\ text \in Seq(Byte)
  BY DEF Arguments, Fits
<1>2. Filled(n) \in Nat /\ n + 9 < Filled(n)
  BY <1>1, FilledBlocks
<1>3. /\ result' = [i \in 1 .. Filled(n) |-> IF i <= n THEN text[i] ELSE IF i = n + 1 THEN 128 ELSE 0]
      /\ result = <<>> /\ pos' = pos /\ numMsgBits' = numMsgBits /\ returned' = returned
  BY DEF PadMessage, Filled
<1>4. pos = 0 /\ numMsgBits = 8 * n
  <2>1. CASE Len(result) = Filled(n)
    BY <2>1, <1>2, <1>1, <1>3
  <2> QED
    BY <2>1 DEF Padded
<1>5. \A i \in 1 .. Filled(n) : (IF i <= n THEN text[i] ELSE IF i = n + 1 THEN 128 ELSE 0) \in Byte
  <2> SUFFICES ASSUME NEW i \in 1 .. Filled(n)
               PROVE  (IF i <= n THEN text[i] ELSE IF i = n + 1 THEN 128 ELSE 0) \in Byte
    OBVIOUS
  <2>1. CASE i <= n
    <3>1. i \in 1 .. n
      BY <2>1, <1>1, <1>2
    <3> QED
      BY <3>1, <2>1, <1>1
  <2>2. CASE ~(i <= n)
    <3> HIDE DEF n
    <3> QED
      BY <2>2 DEF Byte
  <2> QED
    BY <2>1, <2>2
<1> HIDE DEF n
<1>6. result' \in Seq(Byte) /\ Len(result') = Filled(n)
  BY <1>2, <1>3, <1>5
<1>7. \A i \in 1 .. Filled(n) - 8 :
         result'[i] = IF i <= n THEN text[i] ELSE IF i = n + 1 THEN 128 ELSE 0
  BY <1>2, <1>3
<1>8. Shifts(8 * n)[0 + 1] = 8 * n
  <2>1. 8 * n \in Nat
    BY <1>1
  <2> QED
    BY <2>1, ShiftsByBytes
<1>9. pos' \in 0 .. 8 /\ (\A i \in 1 .. pos' : FALSE) /\ numMsgBits' = Shifts(8 * n)[pos' + 1]
  BY <1>3, <1>4, <1>8
<1> QED
  BY <1>3, <1>6, <1>7, <1>9 DEF Padded, n

LEMMA PadSizeStep ==
    ASSUME Arguments, call \in {"PadMessage", "MD5", "SHA1"}, Padded, PadMessageSize, UNCHANGED text
    PROVE  Padded' /\ returned' = returned
<1> DEFINE n == Len(text)
           t == Filled(n) - 8
<1>1. n \in Nat
  BY DEF Arguments, Fits
<1>2. t \in Nat /\ n + 1 < t /\ Filled(n) = t + 8
  <2>1. Filled(n) \in Nat /\ n + 9 < Filled(n)
    BY <1>1, FilledBlocks
  <2> HIDE DEF n
  <2> QED
    BY <2>1, <1>1
<1>3. /\ pos \in 0 .. 7 /\ pos' = pos + 1 /\ numMsgBits' = numMsgBits \div 256 /\ returned' = returned
      /\ result' = [result EXCEPT ![Len(result) - 7 + pos] = numMsgBits % 256]
      /\ result \in Seq(Byte) /\ Len(result) = Filled(n)
      /\ \A i \in 1 .. t : result[i] = IF i <= n THEN text[i] ELSE IF i = n + 1 THEN 128 ELSE 0
      /\ \A i \in 1 .. pos : result[t + i] = Shifts(8 * n)[i] % 256
      /\ numMsgBits = Shifts(8 * n)[pos + 1]
  BY DEF PadMessageSize, Padded
<1> HIDE DEF n, t
<1>4. Shifts(8 * n) \in [1 .. 9 -> Nat] /\ \A i \in 1 .. 8 : Shifts(8 * n)[i + 1] = Shifts(8 * n)[i] \div 256
  <2>1. 8 * n \in Nat
    BY <1>1
  <2> QED
    BY <2>1, ShiftsByBytes
<1>5. numMsgBits \in Nat /\ numMsgBits % 256 \in Byte /\ numMsgBits' = Shifts(8 * n)[pos' + 1]
  <2>1. pos + 1 \in 1 .. 8 /\ pos + 1 \in 1 .. 9
    BY <1>3
  <2>2. numMsgBits \in Nat
    BY <2>1, <1>3, <1>4
  <2>3. numMsgBits % 256 \in Byte
    BY <2>2 DEF Byte
  <2>4. Shifts(8 * n)[(pos + 1) + 1] = numMsgBits \div 256
    BY <2>1, <1>3, <1>4
  <2> QED
    BY <2>2, <2>3, <2>4, <1>3
<1>6. Len(result) - 7 + pos = t + (pos + 1) /\ t + (pos + 1) \in 1 .. Len(result)
  BY <1>2, <1>3
<1>7. /\ result' \in Seq(Byte) /\ Len(result') = Filled(n)
      /\ result'[t + (pos + 1)] = Shifts(8 * n)[pos + 1] % 256
      /\ \A i \in 1 .. Filled(n) : i # t + (pos + 1) => result'[i] = result[i]
  <2>1. result' = [result EXCEPT ![t + (pos + 1)] = numMsgBits % 256]
    BY <1>3, <1>6
  <2> QED
    BY <2>1, <1>3, <1>5, <1>6, ExceptSeq
<1>8. \A i \in 1 .. t : result'[i] = IF i <= n THEN text[i] ELSE IF i = n + 1 THEN 128 ELSE 0
  <2> SUFFICES ASSUME NEW i \in 1 .. t PROVE result'[i] = result[i]
    BY <1>3
  <2>1. i \in 1 .. Filled(n) /\ i # t + (pos + 1)
    BY <1>2, <1>3
  <2> QED
    BY <2>1, <1>7
<1>9. \A i \in 1 .. pos' : result'[t + i] = Shifts(8 * n)[i] % 256
  <2> SUFFICES ASSUME NEW i \in 1 .. pos + 1 PROVE result'[t + i] = Shifts(8 * n)[i] % 256
    BY <1>3
  <2>1. CASE i = pos + 1
    BY <2>1, <1>7
  <2>2. CASE i \in 1 .. pos
    <3>1. t + i \in 1 .. Filled(n) /\ t + i # t + (pos + 1)
      BY <2>2, <1>2, <1>3
    <3> QED
      BY <3>1, <2>2, <1>3, <1>7
  <2> QED
    BY <2>1, <2>2, <1>3
<1>10. pos' \in 0 .. 8
  BY <1>3
<1> QED
  BY <1>3, <1>5, <1>7, <1>8, <1>9, <1>10 DEF Padded, n, t

LEMMA PadInit == Init /\ call \in {"PadMessage", "MD5", "SHA1"} => PadInv
  BY DEF Init, PadInv, Padded

\* The bytes of the size, put together again.
LEMMA SizeOfShifts ==
    ASSUME NEW m \in Nat, m < 34359738368, NEW bytes, \A i \in 1 .. 8 : bytes[i] = Shifts(m)[i] % 256
    PROVE  bytes[1] + 256 * (bytes[2] + 256 * (bytes[3] + 256 * (bytes[4]
             + 256 * (bytes[5] + 256 * (bytes[6] + 256 * (bytes[7] + 256 * bytes[8])))))) = m
<1> DEFINE s(i) == Shifts(m)[i]
<1>1. s(1) = m /\ \A i \in 1 .. 8 : s(i) \in Nat /\ s(i + 1) \in Nat /\ s(i + 1) = s(i) \div 256
  BY ShiftsByBytes
<1> HIDE DEF s
<1>2. \A i \in 1 .. 8 : s(i) = (s(i) % 256) + 256 * s(i + 1)
  <2> SUFFICES ASSUME NEW x \in Nat PROVE x = (x % 256) + 256 * (x \div 256)
    BY <1>1
  <2> QED
    OBVIOUS
<1>3. \A i \in 1 .. 8 : s(i) = bytes[i] + 256 * s(i + 1)
  BY <1>2 DEF s
<1>4. s(2) < 134217728 /\ s(3) < 524288
  <2>1. s(1) \in Nat /\ s(2) = s(1) \div 256 /\ s(2) \in Nat /\ s(3) = s(2) \div 256
    BY <1>1
  <2> QED
    BY <2>1, <1>1
<1>5. s(4) < 2048 /\ s(5) < 8
  <2>1. s(3) \in Nat /\ s(4) = s(3) \div 256 /\ s(4) \in Nat /\ s(5) = s(4) \div 256
    BY <1>1
  <2> QED
    BY <2>1, <1>4
<1>6. s(6) = 0 /\ s(7) = 0 /\ s(8) = 0 /\ s(9) = 0
  <2>1. s(5) \in Nat /\ s(6) = s(5) \div 256 /\ s(7) = s(6) \div 256 /\ s(8) = s(7) \div 256
        /\ s(9) = s(8) \div 256
    BY <1>1
  <2> QED
    BY <2>1, <1>5
<1>7. s(1) = bytes[1] + 256 * s(2) /\ s(2) = bytes[2] + 256 * s(3)
      /\ s(3) = bytes[3] + 256 * s(4) /\ s(4) = bytes[4] + 256 * s(5)
  BY <1>3
<1>8. s(5) = bytes[5] + 256 * s(6) /\ s(6) = bytes[6] + 256 * s(7)
      /\ s(7) = bytes[7] + 256 * s(8) /\ s(8) = bytes[8] + 256 * s(9)
  BY <1>3
<1>9. s(8) = bytes[8]
  <2>1. bytes[8] \in Int
    BY ShiftsByBytes
  <2> QED
    BY <2>1, <1>6, <1>8
<1> QED
  BY <1>1, <1>7, <1>8, <1>9

LEMMA PadResult ==
    ASSUME Arguments, call = "PadMessage", PadInv
    PROVE  PaddingKeepsTheMessage
<1> SUFFICES ASSUME returned # "no" PROVE PaddingKeepsTheMessage
  BY DEF PaddingKeepsTheMessage, Returned
<1> DEFINE n     == Len(text)
           total == Len(result)
           byte(i) == result[total - 8 + i]
           size  == byte(1) + 256 * (byte(2) + 256 * (byte(3) + 256 * (byte(4)
                    + 256 * (byte(5) + 256 * (byte(6) + 256 * (byte(7) + 256 * byte(8)))))))
<1>1. n \in Nat /\ text \in Seq(Byte) /\ n < 4294967296
  <2>1. n \in Nat /\ text \in Seq(Byte) /\ (n + BlockLength) \div 65536 < 65535
    BY DEF Arguments, Fits
  <2>2. BlockLength \in Nat
    BY BlockLengthAssumption
  <2> HIDE DEF n
  <2> QED
    BY <2>1, <2>2
<1>2. pos = 8
  BY DEF PadInv
<1>3. /\ result \in Seq(Byte) /\ total = Filled(n)
      /\ \A i \in 1 .. Filled(n) - 8 : result[i] = IF i <= n THEN text[i] ELSE IF i = n + 1 THEN 128 ELSE 0
      /\ \A i \in 1 .. 8 : result[(Filled(n) - 8) + i] = Shifts(8 * n)[i] % 256
  BY <1>2 DEF PadInv, Padded
<1>4. /\ total \in Nat /\ n + 9 < total /\ total <= n + 9 + BlockLength /\ total % BlockLength = 0
  BY <1>1, <1>3, FilledBlocks
<1> HIDE DEF n, total
<1>5. SubSeq(result, 1, n) = text
  <2>1. n \in 0 .. Len(result)
    BY <1>1, <1>4 DEF total
  <2>2. SubSeq(result, 1, n) \in Seq(Byte) /\ Len(SubSeq(result, 1, n)) = n
        /\ \A i \in 1 .. n : SubSeq(result, 1, n)[i] = result[i]
    <3>1. \A i \in 1 .. n : result[i] \in Byte
      BY <2>1, <1>3, ElementOfSeq
    <3>2. SubSeq(result, 1, n) \in Seq(Byte) /\ Len(SubSeq(result, 1, n)) = n
      BY <3>1, <1>1, SubSeqProperties
    <3>3. \A i \in 1 .. n : SubSeq(result, 1, n)[i] = result[i]
      BY <3>1, <1>1, SubSeqProperties
    <3> QED
      BY <3>2, <3>3
  <2>3. ASSUME NEW i \in 1 .. n PROVE SubSeq(result, 1, n)[i] = text[i]
    <3>1. i \in 1 .. Filled(n) - 8 /\ i <= n
      BY <1>1, <1>3, <1>4
    <3> QED
      BY <3>1, <2>2, <1>3
  <2> QED
    BY <2>2, <2>3, <1>1, SeqEqual DEF n
<1>6. result[n + 1] = 128 /\ \A i \in n + 2 .. total - 8 : result[i] = 0
  <2>1. n + 1 \in 1 .. total - 8 /\ ~(n + 1 <= n)
    BY <1>1, <1>4
  <2>2. \A i \in n + 2 .. total - 8 : i \in 1 .. total - 8 /\ ~(i <= n) /\ i # n + 1
    BY <1>1, <1>4
  <2>3. result[n + 1] = 128
    BY <2>1, <1>3
  <2>4. \A i \in n + 2 .. total - 8 : result[i] = 0
    BY <2>2, <1>3
  <2> QED
    BY <2>3, <2>4
<1>7. size = 8 * n
  <2> DEFINE bytes == [i \in 1 .. 8 |-> byte(i)]
  <2>1. \A i \in 1 .. 8 : bytes[i] = Shifts(8 * n)[i] % 256
    BY <1>3
  <2>2. 8 * n \in Nat /\ 8 * n < 34359738368
    BY <1>1
  <2>3. bytes[1] = byte(1) /\ bytes[2] = byte(2) /\ bytes[3] = byte(3) /\ bytes[4] = byte(4)
        /\ bytes[5] = byte(5) /\ bytes[6] = byte(6) /\ bytes[7] = byte(7) /\ bytes[8] = byte(8)
    OBVIOUS
  <2> HIDE DEF byte, bytes
  <2> QED
    BY <2>1, <2>2, <2>3, SizeOfShifts
<1>8. n + 9 <= total
  BY <1>1, <1>4
<1> QED
  BY <1>4, <1>5, <1>6, <1>7, <1>8 DEF PaddingKeepsTheMessage, n, total

\* The same for PadMessage.
LEMMA PadCalls == Spec => [](Arguments /\ (call = "PadMessage" => PadInv))
<1> DEFINE Inv == Arguments /\ (call = "PadMessage" => PadInv)
<1>1. Init => Inv
  BY ArgumentsInit, PadInit
<1>2. Inv /\ [Next]_vars => Inv'
  <2> SUFFICES ASSUME Inv, [Next]_vars PROVE Inv'
    OBVIOUS
  <2>1. CASE Next
    <3>1. UNCHANGED <<call, text, array>> /\ Arguments' /\ returned = "no"
      BY <2>1, Steps, ArgumentsStep
    <3>2. ASSUME call = "PadMessage" PROVE PadInv'
      <4>1. PadStep
        BY <2>1, <3>2, Steps DEF HexStep, Base64Step, UTF8Step, EntityStep, DigestStep
      <4>2. CASE PadMessage \/ PadMessageSize
        BY <3>1, <3>2, <4>2, PadMessageStep, PadSizeStep DEF PadInv
      <4>3. CASE PadMessageEnd
        BY <3>1, <3>2, <4>3 DEF PadMessageEnd, PadInv, Padded, Filled, NumMsgBlocks
      <4> QED
        BY <4>1, <4>2, <4>3 DEF PadStep
    <3> QED
      BY <3>1, <3>2
  <2>2. CASE UNCHANGED vars
    BY <2>2, ArgumentsStep DEF vars, PadInv, Padded, Filled, NumMsgBlocks
  <2> QED
    BY <2>1, <2>2
<1> QED
  BY <1>1, <1>2, PTL DEF Spec

\* PadMessage (hash.hh:66-96) keeps the message, its marker and its size apart
\* in whole blocks, for messages and blocks of any length that its counters hold.
THEOREM PaddingKeepsTheMessageAlways == Spec => []PaddingKeepsTheMessage
<1> DEFINE Inv == Arguments /\ (call = "PadMessage" => PadInv)
<1>1. Inv => PaddingKeepsTheMessage
  <2> SUFFICES ASSUME Inv, call # "PadMessage" PROVE PaddingKeepsTheMessage
    BY PadResult
  <2> QED
    BY DEF PaddingKeepsTheMessage, Returned
<1> QED
  BY <1>1, PadCalls, PTL

----------------------------------------------------------------------------
\* UTF-8

\* The bytes of a code point below 0x20000 are its shortest form, and name it;
\* those of any other are bytes.
LEMMA UTF8Bytes ==
    ASSUME NEW c \in Nat
    PROVE  UTF8(c) \in Seq(Byte)
<1>1. CASE c < 128
  BY <1>1 DEF UTF8, Byte
<1>2. CASE ~(c < 128) /\ c < 2048
  <2>1. 192 + ((c \div 64) % 32) \in Byte /\ Trail(c, 0) \in Byte
    BY DEF Trail, Byte
  <2> QED
    BY <2>1, <1>2 DEF UTF8
<1>3. CASE ~(c < 2048) /\ c < 65536
  <2>1. 224 + ((c \div 4096) % 16) \in Byte /\ Trail(c, 6) \in Byte /\ Trail(c, 0) \in Byte
    BY DEF Trail, Byte
  <2>2. ~(c < 128)
    BY <1>3
  <2> QED
    BY <2>1, <2>2, <1>3 DEF UTF8
<1>4. CASE ~(c < 65536) /\ c < 1114112
  <2>1. 240 + ((c \div 2^17) % 8) \in Byte /\ Trail(c, 12) \in Byte /\ Trail(c, 6) \in Byte /\ Trail(c, 0) \in Byte
    BY DEF Trail, Byte
  <2>2. ~(c < 128) /\ ~(c < 2048)
    BY <1>4
  <2> QED
    BY <2>1, <2>2, <1>4 DEF UTF8
<1>5. CASE ~(c < 1114112)
  <2>1. ~(c < 128) /\ ~(c < 2048) /\ ~(c < 65536)
    BY <1>5
  <2>2. UTF8(c) = <<>>
    BY <2>1, <1>5 DEF UTF8
  <2> QED
    BY <2>2
<1> QED
  BY <1>1, <1>2, <1>3, <1>4, <1>5

LEMMA UTF8Form ==
    ASSUME NEW c \in Nat, c < 131072
    PROVE  /\ Len(UTF8(c)) = Size(c) /\ Size(c) \in 1 .. 4
           /\ Lead(UTF8(c)[1]) = Size(c) /\ UTF8(c)[1] \notin 128 .. 191
           /\ \A i \in 2 .. Size(c) : UTF8(c)[i] \in 128 .. 191
           /\ CodeAt(UTF8(c), 1) = c
<1> DEFINE u == UTF8(c)
<1>1. CASE c < 128
  <2>1. u = <<c>> /\ Size(c) = 1
    BY <1>1 DEF UTF8, Size
  <2>2. Lead(c) = 1 /\ c \notin 128 .. 191
    BY <1>1 DEF Lead
  <2> HIDE DEF u
  <2>3. Len(u) = 1 /\ u[1] = c
    BY <2>1
  <2>4. CodeAt(u, 1) = c
    BY <2>2, <2>3 DEF CodeAt
  <2> QED
    BY <2>1, <2>2, <2>3, <2>4 DEF u
<1>2. CASE ~(c < 128) /\ c < 2048
  <2> DEFINE x == 192 + ((c \div 64) % 32)
             y == Trail(c, 0)
  <2>1. u = <<x, y>> /\ Size(c) = 2
    BY <1>2 DEF UTF8, Size
  <2>2. x \in 192 .. 223 /\ x % 32 = c \div 64
    BY <1>2
  <2>3. y \in 128 .. 191 /\ y % 64 = c % 64
    BY DEF Trail
  <2> HIDE DEF u, x, y
  <2>4. Len(u) = 2 /\ u[1] = x /\ u[2] = y
    BY <2>1
  <2>5. Lead(x) = 2 /\ x \notin 128 .. 191
    BY <2>2 DEF Lead
  <2>6. CodeAt(u, 1) = ((x % 32) * 64) + (y % 64)
    BY <2>4, <2>5 DEF CodeAt
  <2>7. c = ((c \div 64) * 64) + (c % 64)
    OBVIOUS
  <2> QED
    BY <2>1, <2>2, <2>3, <2>4, <2>5, <2>6, <2>7 DEF u
<1>3. CASE ~(c < 2048) /\ c < 65536
  <2> DEFINE x == 224 + ((c \div 4096) % 16)
             y == Trail(c, 6)
             z == Trail(c, 0)
  <2>1. u = <<x, y, z>> /\ Size(c) = 3
    <3>1. ~(c < 128)
      BY <1>3
    <3> QED
      BY <3>1, <1>3 DEF UTF8, Size
  <2>2. x \in 224 .. 239 /\ x % 16 = c \div 4096
    BY <1>3
  <2>3. y \in 128 .. 191 /\ y % 64 = (c \div 64) % 64 /\ z \in 128 .. 191 /\ z % 64 = c % 64
    BY DEF Trail
  <2> HIDE DEF u, x, y, z
  <2>4. Len(u) = 3 /\ u[1] = x /\ u[2] = y /\ u[3] = z
    BY <2>1
  <2>5. Lead(x) = 3 /\ x \notin 128 .. 191
    BY <2>2 DEF Lead
  <2>6. CodeAt(u, 1) = ((x % 16) * 4096) + ((y % 64) * 64) + (z % 64)
    BY <2>4, <2>5 DEF CodeAt
  <2>7. c = ((c \div 4096) * 4096) + (((c \div 64) % 64) * 64) + (c % 64)
    OBVIOUS
  <2>8. \A i \in 2 .. 3 : u[i] \in 128 .. 191
    BY <2>3, <2>4
  <2> QED
    BY <2>1, <2>2, <2>3, <2>4, <2>5, <2>6, <2>7, <2>8 DEF u
<1>4. CASE ~(c < 65536)
  <2> DEFINE w == 240 + ((c \div 2^17) % 8)
             x == Trail(c, 12)
             y == Trail(c, 6)
             z == Trail(c, 0)
  <2>1. u = <<w, x, y, z>> /\ Size(c) = 4
    <3>1. ~(c < 128) /\ ~(c < 2048) /\ c < 1114112
      BY <1>4
    <3> QED
      BY <3>1, <1>4 DEF UTF8, Size
  <2>2. w = 240 /\ w % 8 = 0
    BY <1>4
  <2>3. x \in 128 .. 191 /\ x % 64 = c \div 4096 /\ y \in 128 .. 191 /\ y % 64 = (c \div 64) % 64
        /\ z \in 128 .. 191 /\ z % 64 = c % 64
    BY <1>4 DEF Trail
  <2> HIDE DEF u, w, x, y, z
  <2>4. Len(u) = 4 /\ u[1] = w /\ u[2] = x /\ u[3] = y /\ u[4] = z
    BY <2>1
  <2>5. Lead(w) = 4 /\ w \notin 128 .. 191
    BY <2>2 DEF Lead
  <2>6. CodeAt(u, 1) = ((w % 8) * 262144) + ((x % 64) * 4096) + ((y % 64) * 64) + (z % 64)
    BY <2>4, <2>5 DEF CodeAt
  <2>7. c = ((c \div 4096) * 4096) + (((c \div 64) % 64) * 64) + (c % 64)
    OBVIOUS
  <2>8. \A i \in 2 .. 4 : u[i] \in 128 .. 191
    BY <2>3, <2>4
  <2> QED
    BY <2>1, <2>2, <2>3, <2>4, <2>5, <2>6, <2>7, <2>8 DEF u
<1> QED
  BY <1>1, <1>2, <1>3, <1>4

\* A code point is named by its own bytes, wherever they are.
LEMMA CodeAtMoves ==
    ASSUME NEW b, NEW i \in Nat, NEW u, NEW n \in Nat, Lead(u[n]) \in 1 .. 4,
           \A k \in 0 .. Lead(u[n]) - 1 : b[i + k] = u[n + k]
    PROVE  Lead(b[i]) = Lead(u[n]) /\ CodeAt(b, i) = CodeAt(u, n)
<1>1. b[i] = u[n]
  BY DEF Lead
<1>2. /\ Lead(u[n]) >= 2 => b[i + 1] = u[n + 1]
      /\ Lead(u[n]) >= 3 => b[i + 2] = u[n + 2]
      /\ Lead(u[n]) >= 4 => b[i + 3] = u[n + 3]
  OBVIOUS
<1> QED
  BY <1>1, <1>2 DEF CodeAt

LEMMA DecodesNone == Decodes(<<>>, <<>>)
<1> DEFINE start == [k \in 1 .. 0 |-> 0]
<1>1. Len(<<>>) = 0 /\ 1 .. 0 = {}
  OBVIOUS
<1>2. start \in [1 .. 0 -> 1 .. 0]
  BY <1>1
<1> HIDE DEF start
<1>3. DecodesFrom(start, <<>>, <<>>)
  BY <1>1 DEF DecodesFrom
<1> QED
  BY <1>1, <1>2, <1>3 DEF Decodes

\* One code point more, and its bytes behind the others.
LEMMA DecodesMore ==
    ASSUME NEW bytes \in Seq(Byte), NEW codes \in Seq(Nat), Decodes(bytes, codes),
           NEW c \in Nat, c < 131072
    PROVE  Decodes(bytes \o UTF8(c), Append(codes, c))
<1> DEFINE u == UTF8(c)
           b == bytes \o u
           d == Append(codes, c)
           L == Len(bytes)
           n == Len(codes)
           s == Size(c)
<1>1. PICK start \in [1 .. n -> 1 .. L] : DecodesFrom(start, bytes, codes)
  BY DEF Decodes
<1>2. u \in Seq(Byte) /\ Len(u) = s /\ s \in 1 .. 4 /\ L \in Nat /\ n \in Nat
  <2>1. Len(u) = s /\ s \in 1 .. 4
    BY UTF8Form
  <2>2. L \in Nat /\ n \in Nat
    OBVIOUS
  <2> QED
    BY <2>1, <2>2, UTF8Bytes
<1>2a. Lead(u[1]) = s /\ u[1] \notin 128 .. 191 /\ CodeAt(u, 1) = c
  BY UTF8Form
<1>2b. \A i \in 2 .. s : u[i] \in 128 .. 191
  BY UTF8Form
<1> HIDE DEF u
<1>3. Len(b) = L + s
      /\ (\A i \in 1 .. L : b[i] = bytes[i]) /\ \A i \in 1 .. s : b[L + i] = u[i]
  <2>1. b \in Seq(Byte) /\ Len(b) = Len(bytes) + Len(u)
    BY <1>2, ConcatProperties
  <2>2. \A i \in 1 .. Len(bytes) + Len(u) :
           b[i] = IF i <= Len(bytes) THEN bytes[i] ELSE u[i - Len(bytes)]
    BY <1>2, ConcatProperties
  <2> HIDE DEF b
  <2> HIDE DEF L, s
  <2>4. ASSUME NEW i \in 1 .. s PROVE b[L + i] = u[i]
    <3>1. L + i \in 1 .. L + s /\ ~(L + i <= L) /\ (L + i) - L = i
      BY <1>2
    <3> QED
      BY <3>1, <2>2, <1>2 DEF L
  <2>5. ASSUME NEW i \in 1 .. L PROVE b[i] = bytes[i]
    <3>1. i \in 1 .. L + s /\ i <= L
      BY <1>2
    <3> QED
      BY <3>1, <2>2, <1>2 DEF L
  <2> QED
    BY <1>2, <2>1, <2>4, <2>5 DEF L
<1>4. Len(d) = n + 1 /\ d[n + 1] = c /\ \A k \in 1 .. n : d[k] = codes[k]
  BY AppendProperties
<1> DEFINE new == [k \in 1 .. n + 1 |-> IF k = n + 1 THEN L + 1 ELSE start[k]]
<1> HIDE DEF b, d, L, n, s
<1>5. \A k \in 1 .. n : start[k] \in 1 .. L
  OBVIOUS
<1>5a. \A j, k \in 1 .. n : j < k => start[j] < start[k]
  BY <1>1 DEF DecodesFrom, n
<1>5b. \A i \in 1 .. L : bytes[i] \notin 128 .. 191 <=> \E k \in 1 .. n : start[k] = i
  BY <1>1 DEF DecodesFrom, n, L
<1>5c. \A k \in 1 .. n : Lead(bytes[start[k]]) = Size(codes[k])
  BY <1>1 DEF DecodesFrom, n
<1>5d. \A k \in 1 .. n : start[k] + Size(codes[k]) = IF k = n THEN L + 1 ELSE start[k + 1]
  BY <1>1 DEF DecodesFrom, n, L
<1>5e. \A k \in 1 .. n : CodeAt(bytes, start[k]) = codes[k]
  BY <1>1 DEF DecodesFrom, n
<1>6. new[n + 1] = L + 1 /\ (\A k \in 1 .. n : new[k] = start[k]) /\ new \in [1 .. n + 1 -> 1 .. L + s]
  <2>1. ASSUME NEW k \in 1 .. n + 1 PROVE (IF k = n + 1 THEN L + 1 ELSE start[k]) \in 1 .. L + s
    <3>1. CASE k = n + 1
      BY <3>1, <1>2
    <3>2. CASE k # n + 1
      <4>1. k \in 1 .. n
        BY <3>2, <1>2
      <4>2. start[k] \in 1 .. L
        BY <4>1, <1>5
      <4> QED
        BY <4>2, <3>2, <1>2
    <3> QED
      BY <3>1, <3>2
  <2>2. n + 1 \in 1 .. n + 1 /\ \A k \in 1 .. n : k \in 1 .. n + 1 /\ k # n + 1
    BY <1>2
  <2> QED
    BY <2>1, <2>2
<1> HIDE DEF new
<1>7. ASSUME NEW j \in 1 .. n + 1, NEW k \in 1 .. n + 1, j < k PROVE new[j] < new[k]
  <2>1. j \in 1 .. n
    BY <1>2, <1>7
  <2>2. CASE k = n + 1
    <3>1. new[j] \in 1 .. L
      BY <2>1, <1>5, <1>6
    <3> QED
      BY <3>1, <2>2, <1>2, <1>6
  <2>3. CASE k # n + 1
    <3>1. k \in 1 .. n
      BY <2>3, <1>2
    <3>2. start[j] < start[k]
      BY <2>1, <3>1, <1>5a, <1>7
    <3> QED
      BY <2>1, <3>1, <3>2, <1>6
  <2> QED
    BY <2>2, <2>3
<1>8. ASSUME NEW i \in 1 .. L + s
      PROVE  b[i] \notin 128 .. 191 <=> \E k \in 1 .. n + 1 : new[k] = i
  <2>1. CASE i <= L
    <3>1. i \in 1 .. L
      BY <2>1, <1>2
    <3>2. b[i] = bytes[i]
      BY <3>1, <1>3
    <3>3. (\E k \in 1 .. n + 1 : new[k] = i) <=> \E k \in 1 .. n : start[k] = i
      <4>1. ASSUME NEW k \in 1 .. n + 1, new[k] = i PROVE k \in 1 .. n /\ start[k] = i
        <5>1. k # n + 1
          BY <4>1, <3>1, <1>2, <1>6
        <5>2. k \in 1 .. n
          BY <5>1, <1>2
        <5> QED
          BY <5>2, <4>1, <1>6
      <4>2. ASSUME NEW k \in 1 .. n, start[k] = i PROVE k \in 1 .. n + 1 /\ new[k] = i
        BY <4>2, <1>2, <1>6
      <4> QED
        BY <4>1, <4>2
    <3> QED
      BY <3>1, <3>2, <3>3, <1>5b
  <2>2. CASE i = L + 1
    <3>1. 1 \in 1 .. s /\ n + 1 \in 1 .. n + 1
      BY <1>2
    <3>2. b[i] \notin 128 .. 191
      BY <2>2, <3>1, <1>2a, <1>3
    <3> QED
      BY <2>2, <3>1, <3>2, <1>6
  <2>3. CASE i > L + 1
    <3>1. PICK m \in 2 .. s : L + m = i
      <4>1. i - L \in 2 .. s /\ L + (i - L) = i
        BY <2>3, <1>2
      <4> QED
        BY <4>1
    <3>2. u[m] \in 128 .. 191
      BY <1>2b
    <3>3. b[L + m] = u[m]
      <4>1. m \in 1 .. s
        BY <1>2
      <4> QED
        BY <4>1, <1>3
    <3>4. ASSUME NEW k \in 1 .. n + 1 PROVE new[k] # i
      <4>1. CASE k = n + 1
        BY <4>1, <2>3, <1>2, <1>6
      <4>2. CASE k # n + 1
        <5>1. k \in 1 .. n
          BY <4>2, <1>2
        <5>2. new[k] \in 1 .. L
          BY <5>1, <1>5, <1>6
        <5> QED
          BY <5>2, <2>3, <1>2
      <4> QED
        BY <4>1, <4>2
    <3> QED
      <4>1. b[i] \in 128 .. 191
        BY <3>1, <3>2, <3>3
      <4> QED
        BY <4>1, <3>4
  <2> QED
    BY <2>1, <2>2, <2>3, <1>2
<1>9. ASSUME NEW k \in 1 .. n + 1
      PROVE  /\ Lead(b[new[k]]) = Size(d[k])
             /\ new[k] + Size(d[k]) = IF k = n + 1 THEN (L + s) + 1 ELSE new[k + 1]
             /\ CodeAt(b, new[k]) = d[k]
  <2>1. CASE k = n + 1
    <3>1. new[k] = L + 1 /\ d[k] = c /\ L + 1 \in Nat
      BY <2>1, <1>2, <1>4, <1>6
    <3>2. Lead(u[1]) = s /\ CodeAt(u, 1) = c /\ Lead(u[1]) \in 1 .. 4
      BY <1>2, <1>2a
    <3>3. \A i \in 0 .. s - 1 : b[(L + 1) + i] = u[1 + i]
      <4>1. \A i \in 0 .. s - 1 : 1 + i \in 1 .. s /\ (L + 1) + i = L + (1 + i)
        BY <1>2
      <4> QED
        BY <4>1, <1>3
    <3>4. Lead(b[L + 1]) = Lead(u[1]) /\ CodeAt(b, L + 1) = CodeAt(u, 1)
      BY <3>1, <3>2, <3>3, CodeAtMoves
    <3>5. (L + 1) + s = (L + s) + 1
      BY <1>2
    <3>6. Size(d[k]) = s
      BY <3>1 DEF s
    <3> QED
      BY <2>1, <3>1, <3>2, <3>4, <3>5, <3>6
  <2>2. CASE k # n + 1
    <3>1. k \in 1 .. n /\ new[k] = start[k] /\ d[k] = codes[k] /\ codes[k] \in Nat
      <4>1. k \in 1 .. n
        BY <2>2, <1>2
      <4>2. codes[k] \in Nat
        BY <4>1, ElementOfSeq DEF n
      <4> QED
        BY <4>1, <4>2, <1>4, <1>6
    <3>2. Lead(bytes[start[k]]) = Size(codes[k]) /\ CodeAt(bytes, start[k]) = codes[k]
          /\ start[k] + Size(codes[k]) = IF k = n THEN L + 1 ELSE start[k + 1]
      BY <3>1, <1>5c, <1>5d, <1>5e
    <3>3. start[k] \in 1 .. L /\ Size(codes[k]) \in 1 .. 4
      BY <3>1, <1>5 DEF Size
    <3>4. start[k] + Size(codes[k]) = new[k + 1] /\ new[k + 1] <= L + 1
      <4>1. CASE k = n
        BY <4>1, <3>2, <1>2, <1>6
      <4>2. CASE k # n
        <5>1. k + 1 \in 1 .. n
          BY <4>2, <3>1, <1>2
        <5>2. start[k + 1] \in 1 .. L /\ new[k + 1] = start[k + 1]
          BY <5>1, <1>5, <1>6
        <5> QED
          BY <5>2, <4>2, <3>2, <1>2
      <4> QED
        BY <4>1, <4>2
    <3>5. \A i \in 0 .. Size(codes[k]) - 1 : b[start[k] + i] = bytes[start[k] + i]
      <4>1. \A i \in 0 .. Size(codes[k]) - 1 : start[k] + i \in 1 .. L
        <5> DEFINE p == start[k]
                   t == Size(codes[k])
        <5>1. p \in 1 .. L /\ t \in 1 .. 4 /\ p + t <= L + 1
          BY <3>3, <3>4
        <5> HIDE DEF p, t
        <5>2. \A i \in 0 .. t - 1 : p + i \in 1 .. L
          BY <5>1, <1>2
        <5> QED
          BY <5>2 DEF p, t
      <4> QED
        BY <4>1, <1>3
    <3>6. Lead(b[start[k]]) = Lead(bytes[start[k]]) /\ CodeAt(b, start[k]) = CodeAt(bytes, start[k])
      <4> DEFINE p == start[k]
      <4>1. p \in Nat
        BY <3>3
      <4>2. Lead(bytes[p]) \in 1 .. 4
        BY <3>2, <3>3
      <4>3. \A i \in 0 .. Lead(bytes[p]) - 1 : b[p + i] = bytes[p + i]
        BY <3>2, <3>5
      <4> HIDE DEF p
      <4>4. Lead(b[p]) = Lead(bytes[p]) /\ CodeAt(b, p) = CodeAt(bytes, p)
        BY <4>1, <4>2, <4>3, CodeAtMoves
      <4> QED
        BY <4>4 DEF p
    <3> QED
      BY <2>2, <3>1, <3>2, <3>4, <3>6
  <2> QED
    BY <2>1, <2>2
<1>10. DecodesFrom(new, b, d)
  <2>1. /\ \A j, k \in 1 .. Len(d) : j < k => new[j] < new[k]
        /\ \A i \in 1 .. Len(b) : b[i] \notin 128 .. 191 <=> \E k \in 1 .. Len(d) : new[k] = i
    BY <1>3, <1>4, <1>7, <1>8
  <2>2. \A k \in 1 .. Len(d) :
             /\ Lead(b[new[k]]) = Size(d[k])
             /\ new[k] + Size(d[k]) = IF k = Len(d) THEN Len(b) + 1 ELSE new[k + 1]
             /\ CodeAt(b, new[k]) = d[k]
    BY <1>3, <1>4, <1>9
  <2> QED
    BY <2>1, <2>2 DEF DecodesFrom
<1>11. new \in [1 .. Len(d) -> 1 .. Len(b)]
  <2>1. Len(d) = n + 1 /\ Len(b) = L + s
    BY <1>3, <1>4
  <2>2. new \in [1 .. n + 1 -> 1 .. L + s]
    BY <1>6
  <2> QED
    BY <2>1, <2>2
<1>12. Decodes(b, d)
  BY <1>10, <1>11 DEF Decodes
<1> QED
  BY <1>12 DEF b, d, u

LEMMA DecodesOne ==
    ASSUME NEW c \in Nat, c < 131072
    PROVE  Decodes(UTF8(c), <<c>>)
<1> DEFINE none == <<>>
<1>1. none \in Seq(Byte) /\ none \in Seq(Nat) /\ Decodes(none, none)
  BY DecodesNone
<1>2. none \o UTF8(c) = UTF8(c) /\ Append(none, c) = <<c>>
  BY UTF8Bytes, ConcatEmptySeq
<1> HIDE DEF none
<1>3. Decodes(none \o UTF8(c), Append(none, c))
  BY <1>1, DecodesMore
<1> QED
  BY <1>2, <1>3

\* What is written so far names what is read so far.
UTF8Inv ==
    /\ result \in Seq(Byte) /\ pos \in 0 .. Len(text)
    /\ (\A i \in 1 .. Len(text) : text[i] < 131072) => Decodes(result, SubSeq(text, 1, pos))
    /\ returned # "no" => pos = Len(text)

LEMMA UTF8Init == Init /\ call = "ConvertC32ToUTF8" => UTF8Inv
<1> SUFFICES ASSUME Init, call = "ConvertC32ToUTF8" PROVE UTF8Inv
  OBVIOUS
<1>1. Len(text) \in Nat
  BY ArgumentsInit DEF Arguments
<1>2. pos = 0 /\ result = <<>> /\ returned = "no"
  BY DEF Init
<1>3. SubSeq(text, 1, pos) = <<>>
  BY <1>2, SubSeqEmpty
<1>4. Decodes(result, SubSeq(text, 1, pos))
  BY <1>2, <1>3, DecodesNone
<1>5. result \in Seq(Byte) /\ pos \in 0 .. Len(text)
  BY <1>1, <1>2
<1> QED
  BY <1>2, <1>4, <1>5 DEF UTF8Inv

LEMMA UTF8CodeStep ==
    ASSUME Arguments, call = "ConvertC32ToUTF8", UTF8Inv, ConvertC32ToUTF8, UNCHANGED text
    PROVE  UTF8Inv'
<1> DEFINE c == text[pos + 1]
           read(n) == SubSeq(text, 1, n)
<1>1. text \in Seq(Nat) /\ pos < Len(text) /\ pos' = pos + 1 /\ returned' = "no"
      /\ result' = result \o UTF8(c) /\ result \in Seq(Byte) /\ pos \in Nat /\ Len(text) \in Nat
  BY DEF Arguments, UTF8Inv, ConvertC32ToUTF8, Calling
<1>2. c \in Nat
  BY <1>1
<1> HIDE DEF c
<1>3. result' \in Seq(Byte)
  BY <1>1, <1>2, UTF8Bytes, ConcatProperties
<1>4. ASSUME \A i \in 1 .. Len(text) : text[i] < 131072
      PROVE  Decodes(result', read(pos + 1))
  <2>1. c < 131072
    BY <1>1, <1>4 DEF c
  <2>2. read(pos) \in Seq(Nat) /\ Decodes(result, read(pos))
    <3>1. \A i \in 1 .. pos : text[i] \in Nat
      BY <1>1
    <3>2. read(pos) \in Seq(Nat)
      BY <1>1, <3>1, SubSeqProperties
    <3> QED
      BY <1>4, <3>2 DEF UTF8Inv
  <2>3. read(pos + 1) = Append(read(pos), c)
    <3>1. \A i \in 1 .. pos + 1 : text[i] \in Nat
      BY <1>1
    <3>2. /\ read(pos + 1) \in Seq(Nat) /\ Len(read(pos + 1)) = pos + 1
          /\ \A i \in 1 .. pos + 1 : read(pos + 1)[i] = text[i]
      BY <1>1, <3>1
    <3>3. /\ Len(read(pos)) = pos
          /\ \A i \in 1 .. pos : read(pos)[i] = text[i]
      BY <1>1, <3>1
    <3> HIDE DEF read
    <3>4. /\ Append(read(pos), c) \in Seq(Nat) /\ Len(Append(read(pos), c)) = pos + 1
          /\ \A i \in 1 .. pos : Append(read(pos), c)[i] = text[i]
          /\ Append(read(pos), c)[pos + 1] = text[pos + 1]
      BY <1>2, <2>2, <3>3, AppendProperties DEF c
    <3>5. \A i \in 1 .. pos + 1 : read(pos + 1)[i] = Append(read(pos), c)[i]
      BY <1>1, <3>2, <3>4
    <3> QED
      BY <3>2, <3>4, <3>5, SeqEqual
  <2> HIDE DEF read
  <2>4. Decodes(result \o UTF8(c), Append(read(pos), c))
    BY <1>1, <1>2, <2>1, <2>2, DecodesMore
  <2> QED
    BY <1>1, <2>3, <2>4
<1> QED
  BY <1>1, <1>3, <1>4 DEF UTF8Inv

\* The same for ConvertC32ToUTF8.
LEMMA UTF8Calls == Spec => [](Arguments /\ (call = "ConvertC32ToUTF8" => UTF8Inv))
<1> DEFINE Inv == Arguments /\ (call = "ConvertC32ToUTF8" => UTF8Inv)
<1>1. Init => Inv
  BY ArgumentsInit, UTF8Init
<1>2. Inv /\ [Next]_vars => Inv'
  <2> SUFFICES ASSUME Inv, [Next]_vars PROVE Inv'
    OBVIOUS
  <2>1. CASE Next
    <3>1. UNCHANGED <<call, text, array>> /\ Arguments'
      BY <2>1, Steps, ArgumentsStep
    <3>2. ASSUME call = "ConvertC32ToUTF8" PROVE UTF8Inv'
      <4>1. UTF8Step
        BY <2>1, <3>2, Steps DEF HexStep, Base64Step, EntityStep, PadStep, DigestStep
      <4>2. CASE ConvertC32ToUTF8
        BY <3>1, <3>2, <4>2, UTF8CodeStep
      <4>3. CASE ConvertC32ToUTF8End
        BY <3>1, <3>2, <4>3 DEF ConvertC32ToUTF8End, UTF8Inv
      <4> QED
        BY <4>1, <4>2, <4>3 DEF UTF8Step
    <3> QED
      BY <3>1, <3>2
  <2>2. CASE UNCHANGED vars
    BY <2>2, ArgumentsStep DEF vars, UTF8Inv
  <2> QED
    BY <2>1, <2>2
<1> QED
  BY <1>1, <1>2, PTL DEF Spec

\* ConvertC32ToUTF8 (string.cc:17-52) writes code points below 0x20000 so that
\* a decoder reads them back, for texts of any length.
THEOREM UTF8DecodesAlways == Spec => []UTF8Decodes
<1> DEFINE Inv == Arguments /\ (call = "ConvertC32ToUTF8" => UTF8Inv)
<1>1. Inv => UTF8Decodes
  <2> SUFFICES ASSUME Inv, call = "ConvertC32ToUTF8", returned # "no",
                      \A i \in DOMAIN text : text[i] < 2^17
               PROVE  Decodes(result, text)
    BY Zenon DEF UTF8Decodes, Returned
  <2>1. text \in Seq(Nat) /\ UTF8Inv /\ pos = Len(text)
    BY DEF Arguments, UTF8Inv
  <2>2. SubSeq(text, 1, Len(text)) = text
    BY <2>1
  <2>3. \A i \in 1 .. Len(text) : text[i] < 131072
    <3>1. 2^17 = 131072 /\ DOMAIN text = 1 .. Len(text)
      BY <2>1
    <3> QED
      BY <3>1
  <2>4. Decodes(result, SubSeq(text, 1, pos))
    BY <2>1, <2>3 DEF UTF8Inv
  <2> QED
    BY <2>1, <2>2, <2>4
<1> QED
  BY <1>1, UTF8Calls, PTL

----------------------------------------------------------------------------
\* Numeric HTML entities

\* The number of the digits at some positions.
Numbers(digits, base) ==
    LET iter[s \in SUBSET DOMAIN digits] ==
            IF s = {} THEN 0 ELSE LET x == Max(s) IN iter[s \ {x}] * base + digits[x]
    IN  iter

\* Horner's rule from the number of no digits.
LEMMA NumbersRecur ==
    ASSUME NEW digits \in Seq(Nat), NEW base \in Nat, NEW T \in SUBSET (1 .. Len(digits))
    PROVE  Numbers(digits, base)[T] = IF T = {} THEN 0
               ELSE (Numbers(digits, base)[T \ {Max(T)}] * base) + digits[Max(T)]
<1> DEFINE L == Len(digits)
           Step == [ni \in Nat \X (1 .. L) |-> (ni[1] * base) + digits[ni[2]]]
<1>1. Step \in [Nat \X (1 .. L) -> Nat]
  <2> SUFFICES ASSUME NEW ni \in Nat \X (1 .. L) PROVE (ni[1] * base) + digits[ni[2]] \in Nat
    OBVIOUS
  <2>1. ni[1] \in Nat /\ digits[ni[2]] \in Nat
    OBVIOUS
  <2>2. \A m, n, d \in Nat : (m * n) + d \in Nat
    OBVIOUS
  <2> QED
    BY <2>1, <2>2
<1>2. L \in Nat /\ 0 \in Nat /\ DOMAIN digits = 1 .. L
  OBVIOUS
<1>3. \A n \in Nat, i \in 1 .. L : Step[<<n, i>>] = (n * base) + digits[i]
  OBVIOUS
<1> HIDE DEF Step
<1>4. PICK f \in [SUBSET (1 .. L) -> Nat] :
         \A U \in SUBSET (1 .. L) :
            f[U] = IF U = {} THEN 0 ELSE Step[<<f[U \ {Max(U)}], Max(U)>>]
  <2>1. \E f \in [SUBSET (1 .. L) -> Nat] : Folded(f, L, 0, Step)
    <3> HIDE DEF L
    <3> QED
      BY <1>1, <1>2, FoldExists
  <2> QED
    BY <2>1 DEF Folded
<1>5. \A U \in SUBSET (1 .. L) : U # {} => Max(U) \in 1 .. L /\ U \ {Max(U)} \in SUBSET (1 .. L)
  BY <1>2, MaxInside
<1>6. \A U \in SUBSET (1 .. L) :
         f[U] = IF U = {} THEN 0 ELSE (f[U \ {Max(U)}] * base) + digits[Max(U)]
  BY <1>3, <1>4, <1>5
<1>7. f = [U \in SUBSET DOMAIN digits |->
             IF U = {} THEN 0 ELSE (f[U \ {Max(U)}] * base) + digits[Max(U)]]
  BY <1>2, <1>4, <1>6
<1>8. Numbers(digits, base) = [U \in SUBSET DOMAIN digits |->
         IF U = {} THEN 0 ELSE (Numbers(digits, base)[U \ {Max(U)}] * base) + digits[Max(U)]]
  BY <1>7 DEF Numbers
<1> QED
  BY <1>2, <1>8

LEMMA NumberType ==
    ASSUME NEW digits \in Seq(Nat), NEW base \in Nat
    PROVE  Number(digits, base) \in Nat
<1> DEFINE S == {k \in 0 .. Len(digits) : Numbers(digits, base)[1 .. k] \in Nat}
<1>1. Len(digits) \in Nat /\ DOMAIN digits = 1 .. Len(digits)
  OBVIOUS
<1>2. 0 \in S
  <2>1. 1 .. 0 = {} /\ 1 .. 0 \in SUBSET (1 .. Len(digits)) /\ 0 \in 0 .. Len(digits)
    BY <1>1
  <2>2. Numbers(digits, base)[1 .. 0] = 0
    BY <2>1, NumbersRecur
  <2> QED
    BY <2>1, <2>2
<1>3. ASSUME NEW k \in 0 .. Len(digits) - 1, k \in S
      PROVE  k + 1 \in S
  <2> DEFINE T == 1 .. k + 1
  <2>1. T \in SUBSET (1 .. Len(digits)) /\ T # {} /\ T \ {k + 1} = 1 .. k
    <3>1. k + 1 \in T /\ \A i \in T : i \in 1 .. Len(digits)
      OBVIOUS
    <3>2. \A i : i \in T \ {k + 1} <=> i \in 1 .. k
      OBVIOUS
    <3> HIDE DEF T
    <3> QED
      BY <3>1, <3>2
  <2>2. Max(T) = k + 1
    <3>1. Largest(k + 1, T) /\ T \in SUBSET Int
      BY DEF Largest
    <3> QED
      BY <3>1, MaxIsLargest
  <2> HIDE DEF T
  <2>3. Numbers(digits, base)[T] = (Numbers(digits, base)[1 .. k] * base) + digits[k + 1]
    <3>1. Numbers(digits, base)[T] = (Numbers(digits, base)[T \ {Max(T)}] * base) + digits[Max(T)]
      BY <2>1, NumbersRecur
    <3> QED
      BY <3>1, <2>1, <2>2
  <2>4. digits[k + 1] \in Nat /\ Numbers(digits, base)[1 .. k] \in Nat /\ k + 1 \in 0 .. Len(digits)
    BY <1>3
  <2>5. \A m, n, d \in Nat : (m * n) + d \in Nat
    OBVIOUS
  <2>6. Numbers(digits, base)[T] \in Nat
    BY <2>3, <2>4, <2>5
  <2> QED
    BY <2>4, <2>6 DEF T
<1>4. Len(digits) \in S
  <2> HIDE DEF S
  <2>1. 0 .. Len(digits) \subseteq S
    BY <1>1, <1>2, <1>3, UpTo
  <2> QED
    BY <1>1, <2>1
<1>5. Number(digits, base) = Numbers(digits, base)[DOMAIN digits]
  BY DEF Number, FoldLeft, MapThenFoldSet, Numbers
<1> QED
  BY <1>1, <1>4, <1>5

\* from_chars reads the digits to their end if all are of the base.
LEMMA AllDigits ==
    ASSUME NEW digits, NEW D, digits \in Seq(D), NEW base \in Nat,
           \A i \in DOMAIN digits : digits[i] \in 0 .. base - 1
    PROVE  /\ FromChars(digits, base) = Number(digits, base)
           /\ Number(digits, base) \in Nat
<1> DEFINE L     == Len(digits)
           valid == {n \in 0 .. L : \A i \in 1 .. n : digits[i] \in 0 .. base - 1}
           last  == CHOOSE n \in valid : \A m \in valid : m <= n
<1>1. L \in Nat /\ DOMAIN digits = 1 .. L /\ SubSeq(digits, 1, L) = digits
  OBVIOUS
<1>2. L \in valid /\ \A m \in valid : m \in 0 .. L
  BY <1>1
<1> HIDE DEF valid
<1>3. last \in valid /\ \A m \in valid : m <= last
  BY <1>1, <1>2
<1> HIDE DEF last
<1>4. last = L
  BY <1>1, <1>2, <1>3
<1>5. FromChars(digits, base) = Number(SubSeq(digits, 1, last), base)
  BY DEF FromChars, last, valid
<1>6. digits \in Seq(Nat)
  <2>1. \A i \in 1 .. L : digits[i] \in Nat
    BY <1>1
  <2>2. SubSeq(digits, 1, L) \in Seq(Nat)
    BY <1>1, <2>1, SubSeqProperties
  <2> QED
    BY <1>1, <2>2
<1> QED
  BY <1>1, <1>4, <1>5, <1>6, NumberType

EntityInv == returned # "no" => result = UTF8(FromChars(Tail(text), Head(text)))

\* The same for ParseHTMLEntity.
LEMMA EntityCalls == Spec => [](Arguments /\ (call = "ParseHTMLEntity" => EntityInv))
<1> DEFINE Inv == Arguments /\ (call = "ParseHTMLEntity" => EntityInv)
<1>1. Init => Inv
  BY ArgumentsInit DEF Init, EntityInv
<1>2. Inv /\ [Next]_vars => Inv'
  <2> SUFFICES ASSUME Inv, [Next]_vars PROVE Inv'
    OBVIOUS
  <2>1. CASE Next
    <3>1. UNCHANGED <<call, text, array>> /\ Arguments'
      BY <2>1, Steps, ArgumentsStep
    <3>2. ASSUME call = "ParseHTMLEntity" PROVE EntityInv'
      <4>1. ParseHTMLEntity
        BY <2>1, <3>2, Steps DEF HexStep, Base64Step, UTF8Step, EntityStep, PadStep, DigestStep
      <4> QED
        BY <3>1, <4>1 DEF ParseHTMLEntity, EntityInv
    <3> QED
      BY <3>1, <3>2
  <2>2. CASE UNCHANGED vars
    BY <2>2, ArgumentsStep DEF vars, EntityInv
  <2> QED
    BY <2>1, <2>2
<1> QED
  BY <1>1, <1>2, PTL DEF Spec

\* ParseHTMLEntity (string.cc:56-80) writes the UTF-8 of the number that its
\* digits make, if all are digits of its base and the number is below 0x20000.
THEOREM EntitiesDecodeAlways == Spec => []EntitiesDecode
<1> DEFINE Inv == Arguments /\ (call = "ParseHTMLEntity" => EntityInv)
<1>1. Inv => EntitiesDecode
  <2> DEFINE digits == Tail(text)
             code   == Number(digits, Head(text))
  <2> SUFFICES ASSUME Inv, call = "ParseHTMLEntity", returned # "no",
                      \A i \in DOMAIN digits : digits[i] \in 0 .. Head(text) - 1, code < 2^17
               PROVE  Decodes(result, <<code>>)
    BY Zenon DEF EntitiesDecode, Returned
  <2>1. digits \in Seq((0 .. 16) \cup {NotADigit}) /\ Head(text) \in Nat
    <3>1. text \in Seq((0 .. 16) \cup {NotADigit}) /\ Len(text) \in 1 .. 8 /\ Head(text) \in {10, 16}
      BY DEF Arguments
    <3>2. text # <<>>
      BY <3>1
    <3> QED
      BY <3>1, <3>2, HeadTailProperties
  <2>2. result = UTF8(FromChars(digits, Head(text)))
    BY DEF EntityInv
  <2> HIDE DEF digits
  <2>3. FromChars(digits, Head(text)) = code /\ code \in Nat
    BY <2>1, AllDigits
  <2>4. 2^17 = 131072
    OBVIOUS
  <2> HIDE DEF code
  <2>5. code < 131072
    BY <2>4
  <2> QED
    BY <2>2, <2>3, <2>5, DecodesOne
<1> QED
  BY <1>1, EntityCalls, PTL

----------------------------------------------------------------------------
\* Words

LEMMA Words ==
    /\ \A a, b \in Half : <<a, b>> \in Word
    /\ \A w \in Word : w[1] \in Half /\ w[2] \in Half
  BY DEF Word

LEMMA PlusType == \A a, b \in Word : Plus(a, b) \in Word
<1> SUFFICES ASSUME NEW a \in Word, NEW b \in Word PROVE Plus(a, b) \in Word
  OBVIOUS
<1>1. a[1] \in Half /\ a[2] \in Half /\ b[1] \in Half /\ b[2] \in Half
  BY Words
<1> DEFINE low  == a[2] + b[2]
           high == a[1] + b[1] + (low \div 65536)
<1>2. Plus(a, b) = <<high % 65536, low % 65536>>
  BY DEF Plus
<1>3. low \in Nat /\ low \div 65536 \in Nat
  BY <1>1 DEF Half
<1>4. \A n \in Nat : n % 65536 \in Half
  BY DEF Half
<1> HIDE DEF low
<1>5. high \in Nat
  BY <1>1, <1>3 DEF Half
<1> HIDE DEF high
<1> QED
  BY <1>2, <1>3, <1>4, <1>5, Words

\* A half shifted by n, and what comes from the other half.
Shifted(h, l, n) == ((h * 2^n) % 65536) + (l \div 2^(16 - n))

LEMMA ShiftedType == \A h, l \in Half, n \in 0 .. 15 : Shifted(h, l, n) \in Half
<1> SUFFICES ASSUME NEW h \in Half, NEW l \in Half PROVE \A n \in 0 .. 15 : Shifted(h, l, n) \in Half
  OBVIOUS
<1>0. Shifted(h, l, 0) \in Half
  <2>1. 2^0 = 1 /\ 2^(16 - 0) = 65536
    OBVIOUS
  <2>2. ((h * 1) % 65536) + (l \div 65536) \in Half
    BY DEF Half
  <2> QED
    BY <2>1, <2>2 DEF Shifted
<1>1. Shifted(h, l, 1) \in Half
  <2>1. 2^1 = 2 /\ 2^(16 - 1) = 32768
    OBVIOUS
  <2>2. ((h * 2) % 65536) + (l \div 32768) \in Half
    BY DEF Half
  <2> QED
    BY <2>1, <2>2 DEF Shifted
<1>2. Shifted(h, l, 2) \in Half
  <2>1. 2^2 = 4 /\ 2^(16 - 2) = 16384
    OBVIOUS
  <2>2. ((h * 4) % 65536) + (l \div 16384) \in Half
    BY DEF Half
  <2> QED
    BY <2>1, <2>2 DEF Shifted
<1>3. Shifted(h, l, 3) \in Half
  <2>1. 2^3 = 8 /\ 2^(16 - 3) = 8192
    OBVIOUS
  <2>2. ((h * 8) % 65536) + (l \div 8192) \in Half
    BY DEF Half
  <2> QED
    BY <2>1, <2>2 DEF Shifted
<1>4. Shifted(h, l, 4) \in Half
  <2>1. 2^4 = 16 /\ 2^(16 - 4) = 4096
    OBVIOUS
  <2>2. ((h * 16) % 65536) + (l \div 4096) \in Half
    BY DEF Half
  <2> QED
    BY <2>1, <2>2 DEF Shifted
<1>5. Shifted(h, l, 5) \in Half
  <2>1. 2^5 = 32 /\ 2^(16 - 5) = 2048
    OBVIOUS
  <2>2. ((h * 32) % 65536) + (l \div 2048) \in Half
    BY DEF Half
  <2> QED
    BY <2>1, <2>2 DEF Shifted
<1>6. Shifted(h, l, 6) \in Half
  <2>1. 2^6 = 64 /\ 2^(16 - 6) = 1024
    OBVIOUS
  <2>2. ((h * 64) % 65536) + (l \div 1024) \in Half
    BY DEF Half
  <2> QED
    BY <2>1, <2>2 DEF Shifted
<1>7. Shifted(h, l, 7) \in Half
  <2>1. 2^7 = 128 /\ 2^(16 - 7) = 512
    OBVIOUS
  <2>2. ((h * 128) % 65536) + (l \div 512) \in Half
    BY DEF Half
  <2> QED
    BY <2>1, <2>2 DEF Shifted
<1>8. Shifted(h, l, 8) \in Half
  <2>1. 2^8 = 256 /\ 2^(16 - 8) = 256
    OBVIOUS
  <2>2. ((h * 256) % 65536) + (l \div 256) \in Half
    BY DEF Half
  <2> QED
    BY <2>1, <2>2 DEF Shifted
<1>9. Shifted(h, l, 9) \in Half
  <2>1. 2^9 = 512 /\ 2^(16 - 9) = 128
    OBVIOUS
  <2>2. ((h * 512) % 65536) + (l \div 128) \in Half
    BY DEF Half
  <2> QED
    BY <2>1, <2>2 DEF Shifted
<1>10. Shifted(h, l, 10) \in Half
  <2>1. 2^10 = 1024 /\ 2^(16 - 10) = 64
    OBVIOUS
  <2>2. ((h * 1024) % 65536) + (l \div 64) \in Half
    BY DEF Half
  <2> QED
    BY <2>1, <2>2 DEF Shifted
<1>11. Shifted(h, l, 11) \in Half
  <2>1. 2^11 = 2048 /\ 2^(16 - 11) = 32
    OBVIOUS
  <2>2. ((h * 2048) % 65536) + (l \div 32) \in Half
    BY DEF Half
  <2> QED
    BY <2>1, <2>2 DEF Shifted
<1>12. Shifted(h, l, 12) \in Half
  <2>1. 2^12 = 4096 /\ 2^(16 - 12) = 16
    OBVIOUS
  <2>2. ((h * 4096) % 65536) + (l \div 16) \in Half
    BY DEF Half
  <2> QED
    BY <2>1, <2>2 DEF Shifted
<1>13. Shifted(h, l, 13) \in Half
  <2>1. 2^13 = 8192 /\ 2^(16 - 13) = 8
    OBVIOUS
  <2>2. ((h * 8192) % 65536) + (l \div 8) \in Half
    BY DEF Half
  <2> QED
    BY <2>1, <2>2 DEF Shifted
<1>14. Shifted(h, l, 14) \in Half
  <2>1. 2^14 = 16384 /\ 2^(16 - 14) = 4
    OBVIOUS
  <2>2. ((h * 16384) % 65536) + (l \div 4) \in Half
    BY DEF Half
  <2> QED
    BY <2>1, <2>2 DEF Shifted
<1>15. Shifted(h, l, 15) \in Half
  <2>1. 2^15 = 32768 /\ 2^(16 - 15) = 2
    OBVIOUS
  <2>2. ((h * 32768) % 65536) + (l \div 2) \in Half
    BY DEF Half
  <2> QED
    BY <2>1, <2>2 DEF Shifted
<1> QED
  BY <1>0, <1>1, <1>2, <1>3, <1>4, <1>5, <1>6, <1>7, <1>8, <1>9, <1>10, <1>11, <1>12, <1>13, <1>14, <1>15

LEMMA RotlType == \A w \in Word, n \in 0 .. 31 : Rotl(w, n) \in Word
<1> SUFFICES ASSUME NEW w \in Word, NEW n \in 0 .. 31 PROVE Rotl(w, n) \in Word
  OBVIOUS
<1> DEFINE v == IF n < 16 THEN w ELSE <<w[2], w[1]>>
           k == n % 16
<1>1. v[1] \in Half /\ v[2] \in Half
  BY Words
<1>2. k \in 0 .. 15
  OBVIOUS
<1>3. Rotl(w, n) = <<Shifted(v[1], v[2], k), Shifted(v[2], v[1], k)>>
  BY DEF Rotl, Shifted
<1> HIDE DEF v, k
<1> QED
  BY <1>1, <1>2, <1>3, ShiftedType, Words

LEMMA BitType == \A n \in Half, i \in 0 .. 15 : BitOf(n, i) \in 0 .. 1
<1>1. /\ 2^0 = 1 /\ 2^1 = 2 /\ 2^2 = 4 /\ 2^3 = 8 /\ 2^4 = 16 /\ 2^5 = 32 /\ 2^6 = 64 /\ 2^7 = 128
      /\ 2^8 = 256 /\ 2^9 = 512 /\ 2^10 = 1024 /\ 2^11 = 2048
      /\ 2^12 = 4096 /\ 2^13 = 8192 /\ 2^14 = 16384 /\ 2^15 = 32768
  OBVIOUS
<1>2. \A n \in Half, p \in Nat \ {0} : (n \div p) % 2 \in 0 .. 1
  BY DEF Half
<1> DEFINE Power(i) == 2^i
<1>3. \A i \in 0 .. 15 : Power(i) \in Nat \ {0}
  <2>1. /\ Power(0) = 1 /\ Power(1) = 2 /\ Power(2) = 4 /\ Power(3) = 8 /\ Power(4) = 16
        /\ Power(5) = 32 /\ Power(6) = 64 /\ Power(7) = 128 /\ Power(8) = 256
        /\ Power(9) = 512 /\ Power(10) = 1024 /\ Power(11) = 2048
        /\ Power(12) = 4096 /\ Power(13) = 8192 /\ Power(14) = 16384 /\ Power(15) = 32768
    BY <1>1
  <2> HIDE DEF Power
  <2> QED
    BY <2>1
<1>4. \A n, i : BitOf(n, i) = (n \div Power(i)) % 2
  BY DEF BitOf
<1> HIDE DEF Power
<1> QED
  BY <1>2, <1>3, <1>4

LEMMA HalfOfType == \A b \in [0 .. 15 -> 0 .. 1] : HalfOf(b) \in Half
<1> SUFFICES ASSUME NEW b \in [0 .. 15 -> 0 .. 1] PROVE HalfOf(b) \in Half
  OBVIOUS
<1> DEFINE four(i) == b[i] + (2 * b[i + 1]) + (4 * b[i + 2]) + (8 * b[i + 3])
<1>1. ASSUME NEW i \in 0 .. 12 PROVE four(i) \in Nat /\ four(i) < 16
  <2>1. b[i] \in 0 .. 1 /\ b[i + 1] \in 0 .. 1 /\ b[i + 2] \in 0 .. 1 /\ b[i + 3] \in 0 .. 1
    OBVIOUS
  <2> QED
    BY <2>1
<1> DEFINE x == four(0)
           y == four(4)
           z == four(8)
           w == four(12)
<1>2. HalfOf(b) = x + (16 * y) + (256 * z) + (4096 * w)
  BY DEF HalfOf
<1> HIDE DEF four
<1>3. /\ x \in Nat /\ y \in Nat /\ z \in Nat /\ w \in Nat
      /\ x < 16 /\ y < 16 /\ z < 16 /\ w < 16
  BY <1>1
<1> HIDE DEF x, y, z, w
<1>4. HalfOf(b) \in Nat /\ HalfOf(b) < 65536
  BY <1>2, <1>3
<1> QED
  BY <1>4 DEF Half

LEMMA OnBitsType ==
    ASSUME NEW f \in [ThreeBits -> 0 .. 1], NEW b \in Word, NEW c \in Word, NEW d \in Word
    PROVE  OnBits(f, b, c, d) \in Word
<1> DEFINE bits(h) == [i \in 0 .. 15 |-> f[<<BitOf(b[h], i), BitOf(c[h], i), BitOf(d[h], i)>>]]
<1>1. ASSUME NEW h \in 1 .. 2 PROVE bits(h) \in [0 .. 15 -> 0 .. 1]
  <2> SUFFICES ASSUME NEW i \in 0 .. 15
               PROVE  f[<<BitOf(b[h], i), BitOf(c[h], i), BitOf(d[h], i)>>] \in 0 .. 1
    OBVIOUS
  <2>1. b[h] \in Half /\ c[h] \in Half /\ d[h] \in Half
    BY Words
  <2>2. BitOf(b[h], i) \in 0 .. 1 /\ BitOf(c[h], i) \in 0 .. 1 /\ BitOf(d[h], i) \in 0 .. 1
    BY <2>1, BitType
  <2>3. <<BitOf(b[h], i), BitOf(c[h], i), BitOf(d[h], i)>> \in ThreeBits
    BY <2>2 DEF ThreeBits
  <2> QED
    BY <2>3
<1>2. OnBits(f, b, c, d) = <<HalfOf(bits(1)), HalfOf(bits(2))>>
  BY DEF OnBits
<1> HIDE DEF bits
<1> QED
  BY <1>1, <1>2, HalfOfType, Words

LEMMA XorType ==
    ASSUME NEW a \in Word, NEW b \in Word, NEW c \in Word
    PROVE  Xor(a, b, c) \in Word
<1> DEFINE f == [x \in ThreeBits |-> (x[1] + x[2] + x[3]) % 2]
<1>1. f \in [ThreeBits -> 0 .. 1]
  BY DEF ThreeBits
<1>2. Xor(a, b, c) = OnBits(f, a, b, c)
  BY DEF Xor
<1> HIDE DEF f
<1> QED
  BY <1>1, <1>2, OnBitsType

LEMMA BitSelBCDType ==
    ASSUME NEW s, s[2] \in Word, s[3] \in Word, s[4] \in Word
    PROVE  BitSelBCD(s) \in Word
<1> DEFINE f == [x \in ThreeBits |-> IF x[1] = 1 THEN x[2] ELSE x[3]]
<1>1. f \in [ThreeBits -> 0 .. 1]
  BY DEF ThreeBits
<1>2. BitSelBCD(s) = OnBits(f, s[2], s[3], s[4])
  BY DEF BitSelBCD
<1> HIDE DEF f
<1> QED
  BY <1>1, <1>2, OnBitsType

LEMMA BitSelDBCType ==
    ASSUME NEW s, s[2] \in Word, s[3] \in Word, s[4] \in Word
    PROVE  BitSelDBC(s) \in Word
<1> DEFINE f == [x \in ThreeBits |-> IF x[3] = 1 THEN x[1] ELSE x[2]]
<1>1. f \in [ThreeBits -> 0 .. 1]
  BY DEF ThreeBits
<1>2. BitSelDBC(s) = OnBits(f, s[2], s[3], s[4])
  BY DEF BitSelDBC
<1> HIDE DEF f
<1> QED
  BY <1>1, <1>2, OnBitsType

LEMMA BitMajBCDType ==
    ASSUME NEW s, s[2] \in Word, s[3] \in Word, s[4] \in Word
    PROVE  BitMajBCD(s) \in Word
<1> DEFINE f == [x \in ThreeBits |-> (x[1] + x[2] + x[3]) \div 2]
<1>1. f \in [ThreeBits -> 0 .. 1]
  BY DEF ThreeBits
<1>2. BitMajBCD(s) = OnBits(f, s[2], s[3], s[4])
  BY DEF BitMajBCD
<1> HIDE DEF f
<1> QED
  BY <1>1, <1>2, OnBitsType

LEMMA BitIBCDType ==
    ASSUME NEW s, s[2] \in Word, s[3] \in Word, s[4] \in Word
    PROVE  BitIBCD(s) \in Word
<1> DEFINE f == [x \in ThreeBits |-> IF x[1] = 0 /\ x[3] = 1 THEN x[2] ELSE 1 - x[2]]
<1>1. f \in [ThreeBits -> 0 .. 1]
  BY DEF ThreeBits
<1>2. BitIBCD(s) = OnBits(f, s[2], s[3], s[4])
  BY DEF BitIBCD
<1> HIDE DEF f
<1> QED
  BY <1>1, <1>2, OnBitsType

LEMMA Sequences ==
    ASSUME NEW S, NEW n \in Nat, NEW f \in [1 .. n -> S]
    PROVE  f \in Seq(S) /\ Len(f) = n /\ DOMAIN f = 1 .. n
  OBVIOUS

LEMMA Pairs == \A a, b \in Nat : a < 65536 /\ b < 65536 => <<a, b>> \in Word
<1>1. \A a \in Nat : a < 65536 => a \in Half
  BY DEF Half
<1> QED
  BY <1>1, Words

\* The tables and what is looked up in them.
LEMMA InitialWords ==
    MD5InitialState \in [1 .. 4 -> Word] /\ SHA1InitialState \in [1 .. 5 -> Word] /\ SHA1K \in [1 .. 4 -> Word]
<1>0. /\ <<\h6745, \h2301>> \in Word /\ <<\hEFCD, \hAB89>> \in Word
      /\ <<\h98BA, \hDCFE>> \in Word /\ <<\h1032, \h5476>> \in Word
  BY Pairs
<1>1. MD5InitialState \in [1 .. 4 -> Word]
  BY <1>0 DEF MD5InitialState
<1>2. SHA1InitialState \in [1 .. 5 -> Word]
  <2>1. <<\hC3D2, \hE1F0>> \in Word
    BY Pairs
  <2> DEFINE s == MD5InitialState
             w == <<\hC3D2, \hE1F0>>
             t == s \o <<w>>
  <2>2. s \in Seq(Word) /\ Len(s) = 4
    BY <1>0 DEF MD5InitialState
  <2>3. w \in Word /\ SHA1InitialState = t
    BY <2>1 DEF SHA1InitialState
  <2> HIDE DEF s, w
  <2>4. <<w>> \in Seq(Word) /\ Len(<<w>>) = 1
    BY <2>3
  <2> DEFINE u == <<w>>
  <2> HIDE DEF u
  <2>5. t \in Seq(Word) /\ Len(t) = 5
    <3>1. u \in Seq(Word) /\ Len(u) = 1
      BY <2>4 DEF u
    <3>2. s \o u \in Seq(Word) /\ Len(s \o u) = Len(s) + Len(u)
      BY <2>2, <3>1, ConcatProperties
    <3> QED
      BY <2>2, <3>1, <3>2 DEF u
  <2> HIDE DEF t
  <2> QED
    BY <2>3, <2>5, LenProperties
<1>3. SHA1K \in [1 .. 4 -> Word]
  <2>1. /\ <<\h5A82, \h7999>> \in Word /\ <<\h6ED9, \hEBA1>> \in Word
        /\ <<\h8F1B, \hBCDC>> \in Word /\ <<\hCA62, \hC1D6>> \in Word
    BY Pairs
  <2> QED
    BY <2>1 DEF SHA1K
<1> QED
  BY <1>1, <1>2, <1>3

LEMMA MD5KType == \A i \in 1 .. 64 : MD5K[i] \in Word
<1>1. \A i \in 1 .. 8 : MD5K[i] \in Word
  <2>1. /\ <<\hD76A, \hA478>> \in Word /\ <<\hE8C7, \hB756>> \in Word
        /\ <<\h2420, \h70DB>> \in Word /\ <<\hC1BD, \hCEEE>> \in Word
        /\ <<\hF57C, \h0FAF>> \in Word /\ <<\h4787, \hC62A>> \in Word
        /\ <<\hA830, \h4613>> \in Word /\ <<\hFD46, \h9501>> \in Word
    BY Pairs
  <2>2. /\ MD5K[1] \in Word /\ MD5K[2] \in Word /\ MD5K[3] \in Word /\ MD5K[4] \in Word
        /\ MD5K[5] \in Word /\ MD5K[6] \in Word /\ MD5K[7] \in Word /\ MD5K[8] \in Word
    BY <2>1 DEF MD5K
  <2> QED
    BY <2>2
<1>2. \A i \in 9 .. 16 : MD5K[i] \in Word
  <2>1. /\ <<\h6980, \h98D8>> \in Word /\ <<\h8B44, \hF7AF>> \in Word
        /\ <<\hFFFF, \h5BB1>> \in Word /\ <<\h895C, \hD7BE>> \in Word
        /\ <<\h6B90, \h1122>> \in Word /\ <<\hFD98, \h7193>> \in Word
        /\ <<\hA679, \h438E>> \in Word /\ <<\h49B4, \h0821>> \in Word
    BY Pairs
  <2>2. /\ MD5K[9] \in Word /\ MD5K[10] \in Word /\ MD5K[11] \in Word /\ MD5K[12] \in Word
        /\ MD5K[13] \in Word /\ MD5K[14] \in Word /\ MD5K[15] \in Word /\ MD5K[16] \in Word
    BY <2>1 DEF MD5K
  <2> QED
    BY <2>2
<1>3. \A i \in 17 .. 24 : MD5K[i] \in Word
  <2>1. /\ <<\hF61E, \h2562>> \in Word /\ <<\hC040, \hB340>> \in Word
        /\ <<\h265E, \h5A51>> \in Word /\ <<\hE9B6, \hC7AA>> \in Word
        /\ <<\hD62F, \h105D>> \in Word /\ <<\h0244, \h1453>> \in Word
        /\ <<\hD8A1, \hE681>> \in Word /\ <<\hE7D3, \hFBC8>> \in Word
    BY Pairs
  <2>2. /\ MD5K[17] \in Word /\ MD5K[18] \in Word /\ MD5K[19] \in Word /\ MD5K[20] \in Word
        /\ MD5K[21] \in Word /\ MD5K[22] \in Word /\ MD5K[23] \in Word /\ MD5K[24] \in Word
    BY <2>1 DEF MD5K
  <2> QED
    BY <2>2
<1>4. \A i \in 25 .. 32 : MD5K[i] \in Word
  <2>1. /\ <<\h21E1, \hCDE6>> \in Word /\ <<\hC337, \h07D6>> \in Word
        /\ <<\hF4D5, \h0D87>> \in Word /\ <<\h455A, \h14ED>> \in Word
        /\ <<\hA9E3, \hE905>> \in Word /\ <<\hFCEF, \hA3F8>> \in Word
        /\ <<\h676F, \h02D9>> \in Word /\ <<\h8D2A, \h4C8A>> \in Word
    BY Pairs
  <2>2. /\ MD5K[25] \in Word /\ MD5K[26] \in Word /\ MD5K[27] \in Word /\ MD5K[28] \in Word
        /\ MD5K[29] \in Word /\ MD5K[30] \in Word /\ MD5K[31] \in Word /\ MD5K[32] \in Word
    BY <2>1 DEF MD5K
  <2> QED
    BY <2>2
<1>5. \A i \in 33 .. 40 : MD5K[i] \in Word
  <2>1. /\ <<\hFFFA, \h3942>> \in Word /\ <<\h8771, \hF681>> \in Word
        /\ <<\h6D9D, \h6122>> \in Word /\ <<\hFDE5, \h380C>> \in Word
        /\ <<\hA4BE, \hEA44>> \in Word /\ <<\h4BDE, \hCFA9>> \in Word
        /\ <<\hF6BB, \h4B60>> \in Word /\ <<\hBEBF, \hBC70>> \in Word
    BY Pairs
  <2>2. /\ MD5K[33] \in Word /\ MD5K[34] \in Word /\ MD5K[35] \in Word /\ MD5K[36] \in Word
        /\ MD5K[37] \in Word /\ MD5K[38] \in Word /\ MD5K[39] \in Word /\ MD5K[40] \in Word
    BY <2>1 DEF MD5K
  <2> QED
    BY <2>2
<1>6. \A i \in 41 .. 48 : MD5K[i] \in Word
  <2>1. /\ <<\h289B, \h7EC6>> \in Word /\ <<\hEAA1, \h27FA>> \in Word
        /\ <<\hD4EF, \h3085>> \in Word /\ <<\h0488, \h1D05>> \in Word
        /\ <<\hD9D4, \hD039>> \in Word /\ <<\hE6DB, \h99E5>> \in Word
        /\ <<\h1FA2, \h7CF8>> \in Word /\ <<\hC4AC, \h5665>> \in Word
    BY Pairs
  <2>2. /\ MD5K[41] \in Word /\ MD5K[42] \in Word /\ MD5K[43] \in Word /\ MD5K[44] \in Word
        /\ MD5K[45] \in Word /\ MD5K[46] \in Word /\ MD5K[47] \in Word /\ MD5K[48] \in Word
    BY <2>1 DEF MD5K
  <2> QED
    BY <2>2
<1>7. \A i \in 49 .. 56 : MD5K[i] \in Word
  <2>1. /\ <<\hF429, \h2244>> \in Word /\ <<\h432A, \hFF97>> \in Word
        /\ <<\hAB94, \h23A7>> \in Word /\ <<\hFC93, \hA039>> \in Word
        /\ <<\h655B, \h59C3>> \in Word /\ <<\h8F0C, \hCC92>> \in Word
        /\ <<\hFFEF, \hF47D>> \in Word /\ <<\h8584, \h5DD1>> \in Word
    BY Pairs
  <2>2. /\ MD5K[49] \in Word /\ MD5K[50] \in Word /\ MD5K[51] \in Word /\ MD5K[52] \in Word
        /\ MD5K[53] \in Word /\ MD5K[54] \in Word /\ MD5K[55] \in Word /\ MD5K[56] \in Word
    BY <2>1 DEF MD5K
  <2> QED
    BY <2>2
<1>8. \A i \in 57 .. 64 : MD5K[i] \in Word
  <2>1. /\ <<\h6FA8, \h7E4F>> \in Word /\ <<\hFE2C, \hE6E0>> \in Word
        /\ <<\hA301, \h4314>> \in Word /\ <<\h4E08, \h11A1>> \in Word
        /\ <<\hF753, \h7E82>> \in Word /\ <<\hBD3A, \hF235>> \in Word
        /\ <<\h2AD7, \hD2BB>> \in Word /\ <<\hEB86, \hD391>> \in Word
    BY Pairs
  <2>2. /\ MD5K[57] \in Word /\ MD5K[58] \in Word /\ MD5K[59] \in Word /\ MD5K[60] \in Word
        /\ MD5K[61] \in Word /\ MD5K[62] \in Word /\ MD5K[63] \in Word /\ MD5K[64] \in Word
    BY <2>1 DEF MD5K
  <2> QED
    BY <2>2
<1> QED
  BY <1>1, <1>2, <1>3, <1>4, <1>5, <1>6, <1>7, <1>8

LEMMA MD5Lookups ==
    ASSUME NEW i \in 0 .. 63
    PROVE  MD5S[(i \div 16) + 1][(i % 4) + 1] \in 0 .. 31 /\ MD5Index(i) \in 0 .. 15
<1>1. \A j, k \in 1 .. 4 : MD5S[j][k] \in 0 .. 31
  BY DEF MD5S
<1>2. i \div 16 \in 0 .. 3 /\ i % 4 \in 0 .. 3
  OBVIOUS
<1>3. MD5Index(i) \in 0 .. 15
  <2>1. CASE i \div 16 = 0
    BY <2>1 DEF MD5Index
  <2>2. CASE i \div 16 = 1
    BY <2>2 DEF MD5Index
  <2>3. CASE i \div 16 = 2
    BY <2>3 DEF MD5Index
  <2>4. CASE i \div 16 = 3
    BY <2>4 DEF MD5Index
  <2> QED
    BY <1>2, <2>1, <2>2, <2>3, <2>4
<1> QED
  BY <1>1, <1>2, <1>3

\* What a round makes of a state, and the words of a block, are words: each index
\* is inside its table.
LEMMA StateSumType ==
    ASSUME NEW n \in Nat, NEW s \in [1 .. n -> Word], NEW t \in [1 .. n -> Word]
    PROVE  StateSum(s, t) \in [1 .. n -> Word]
<1>1. \A i \in 1 .. n : Plus(s[i], t[i]) \in Word
  BY PlusType
<1>2. DOMAIN s = 1 .. n
  OBVIOUS
<1> QED
  BY <1>1, <1>2 DEF StateSum

LEMMA MD5StepType ==
    ASSUME NEW s \in [1 .. 4 -> Word], NEW i \in 0 .. 63, NEW v \in [1 .. 16 -> Word]
    PROVE  MD5Step(s, i, v) \in [1 .. 4 -> Word]
<1> DEFINE f == CASE i \div 16 = 0 -> BitSelBCD(s)
                  [] i \div 16 = 1 -> BitSelDBC(s)
                  [] i \div 16 = 2 -> BitXorBCD(s)
                  [] i \div 16 = 3 -> BitIBCD(s)
           shift == MD5S[(i \div 16) + 1][(i % 4) + 1]
           mixed == Plus(Plus(s[1], f), Plus(MD5K[i + 1], v[MD5Index(i) + 1]))
           next  == Plus(s[2], Rotl(mixed, shift))
<1>1. s[1] \in Word /\ s[2] \in Word /\ s[3] \in Word /\ s[4] \in Word
  OBVIOUS
<1>2. f \in Word
  <2>1. BitSelBCD(s) \in Word /\ BitSelDBC(s) \in Word /\ BitIBCD(s) \in Word
    BY <1>1, BitSelBCDType, BitSelDBCType, BitIBCDType
  <2>2. BitXorBCD(s) \in Word
    BY <1>1, XorType DEF BitXorBCD
  <2>3. i \div 16 \in 0 .. 3
    OBVIOUS
  <2> QED
    BY <2>1, <2>2, <2>3
<1> HIDE DEF f
<1>3. MD5K[i + 1] \in Word
  BY MD5KType
<1>4. shift \in 0 .. 31 /\ MD5Index(i) \in 0 .. 15
  BY MD5Lookups
<1>5. v[MD5Index(i) + 1] \in Word
  BY <1>4
<1>6. mixed \in Word
  BY <1>1, <1>2, <1>3, <1>5, PlusType
<1> HIDE DEF shift, mixed
<1>7. next \in Word
  BY <1>1, <1>4, <1>6, PlusType, RotlType
<1>8. MD5Step(s, i, v) = <<s[4], next, s[2], s[3]>>
  BY DEF MD5Step, f, mixed, shift
<1> HIDE DEF next
<1> QED
  BY <1>1, <1>7, <1>8

LEMMA SHA1StepType ==
    ASSUME NEW s \in [1 .. 5 -> Word], NEW i \in 0 .. 79, NEW v \in [1 .. 80 -> Word]
    PROVE  SHA1Step(s, i, v) \in [1 .. 5 -> Word]
<1> DEFINE n == i \div 20
           f == CASE n = 0 -> BitSelBCD(s) [] n = 2 -> BitMajBCD(s) [] OTHER -> BitXorBCD(s)
           t == Plus(Plus(Rotl(s[1], 5), f), Plus(Plus(s[5], SHA1K[n + 1]), v[i + 1]))
           r == Rotl(s[2], 30)
<1>1. s[1] \in Word /\ s[2] \in Word /\ s[3] \in Word /\ s[4] \in Word /\ s[5] \in Word
  OBVIOUS
<1>2. n \in 0 .. 3
  OBVIOUS
<1>3. f \in Word
  <2>1. BitSelBCD(s) \in Word /\ BitMajBCD(s) \in Word
    BY <1>1, BitSelBCDType, BitMajBCDType
  <2>2. BitXorBCD(s) \in Word
    BY <1>1, XorType DEF BitXorBCD
  <2> HIDE DEF n
  <2>3. CASE n = 0
    BY <2>3, <2>1
  <2>4. CASE n = 2
    BY <2>4, <2>1
  <2>5. CASE n # 0 /\ n # 2
    BY <2>5, <2>2
  <2> QED
    BY <2>3, <2>4, <2>5
<1> HIDE DEF f
<1>4. SHA1K[n + 1] \in Word
  BY <1>2, InitialWords
<1>5. v[i + 1] \in Word
  OBVIOUS
<1> HIDE DEF n
<1>6. t \in Word
  <2>1. Rotl(s[1], 5) \in Word
    BY <1>1, RotlType
  <2> QED
    BY <2>1, <1>1, <1>3, <1>4, <1>5, PlusType
<1>7. r \in Word
  BY <1>1, RotlType
<1>8. SHA1Step(s, i, v) = <<t, s[1], r, s[3], s[4]>>
  BY DEF SHA1Step, f, n
<1> HIDE DEF t, r
<1> QED
  BY <1>1, <1>6, <1>7, <1>8

LEMMA Bytes == /\ \A b \in Byte : b \in 0 .. 2^8 - 1 /\ b \in Nat /\ b < 256
               /\ \A n \in Nat : n < 256 => n \in Byte
  BY DEF Byte

LEMMA ShiftInType == \A b \in Byte, w \in Word : ShiftIn(b, w) \in Word
<1> SUFFICES ASSUME NEW b \in Byte, NEW w \in Word PROVE ShiftIn(b, w) \in Word
  OBVIOUS
<1> DEFINE high == (b * 256) + (w[1] \div 256)
           low  == ((w[1] % 256) * 256) + (w[2] \div 256)
<1>1. w[1] \in Half /\ w[2] \in Half
  BY Words
<1>2. high \in Half
  BY <1>1 DEF Half, Byte
<1>3. low \in Half
  BY <1>1 DEF Half
<1> QED
  BY <1>2, <1>3, Words DEF ShiftIn

LEMMA MD5ValuesType ==
    ASSUME NEW block, \A j \in 1 .. 64 : block[j] \in Byte, NEW garbage \in Word
    PROVE  MD5Values(block, garbage) \in [1 .. 16 -> Word]
<1>1. ASSUME NEW k \in 0 .. 15 PROVE MD5Value(block, k, garbage) \in Word
  <2>1. block[(4 * k) + 1] \in Byte /\ block[(4 * k) + 2] \in Byte
        /\ block[(4 * k) + 3] \in Byte /\ block[(4 * k) + 4] \in Byte
    OBVIOUS
  <2> QED
    BY <2>1, ShiftInType DEF MD5Value
<1>2. \A k \in 1 .. 16 : MD5Value(block, k - 1, garbage) \in Word
  BY <1>1
<1> QED
  BY <1>2 DEF MD5Values

LEMMA SHA1ValuesType ==
    ASSUME NEW block, \A j \in 1 .. 64 : block[j] \in Byte
    PROVE  SHA1Values(block) \in [1 .. 16 -> Word]
<1>1. \A b, c \in Byte : (b * 256) + c \in Half
  BY DEF Half, Byte
<1>2. ASSUME NEW k \in 1 .. 16
      PROVE  << (block[(4 * k) - 3] * 256) + block[(4 * k) - 2],
                (block[(4 * k) - 1] * 256) + block[4 * k] >> \in Word
  <2>1. block[(4 * k) - 3] \in Byte /\ block[(4 * k) - 2] \in Byte
        /\ block[(4 * k) - 1] \in Byte /\ block[4 * k] \in Byte
    OBVIOUS
  <2> QED
    BY <2>1, <1>1, Words
<1> QED
  BY <1>2 DEF SHA1Values

LEMMA SHA1NextValueType ==
    ASSUME NEW v \in Seq(Word), Len(v) \in 16 .. 79
    PROVE  SHA1NextValue(v) \in Word
<1> DEFINE n == Len(v) + 1
<1>1. n - 3 \in 1 .. Len(v) /\ n - 8 \in 1 .. Len(v) /\ n - 14 \in 1 .. Len(v) /\ n - 16 \in 1 .. Len(v)
  <2> DEFINE L == Len(v)
  <2>1. L \in 16 .. 79 /\ n = L + 1
    OBVIOUS
  <2> HIDE DEF L, n
  <2>2. n - 3 \in 1 .. L /\ n - 8 \in 1 .. L /\ n - 14 \in 1 .. L /\ n - 16 \in 1 .. L
    BY <2>1
  <2> QED
    BY <2>2 DEF L
<1>2. v[n - 3] \in Word /\ v[n - 8] \in Word /\ v[n - 14] \in Word /\ v[n - 16] \in Word
  BY <1>1, ElementOfSeq
<1>3. <<0, 0>> \in Word
  BY Pairs
<1> HIDE DEF n
<1>4. Xor(v[n - 3], v[n - 8], v[n - 14]) \in Word
  BY <1>2, XorType
<1>5. Xor(Xor(v[n - 3], v[n - 8], v[n - 14]), v[n - 16], <<0, 0>>) \in Word
  BY <1>2, <1>3, <1>4, XorType
<1>6. Rotl(Xor(Xor(v[n - 3], v[n - 8], v[n - 14]), v[n - 16], <<0, 0>>), 1) \in Word
  BY <1>5, RotlType
<1> QED
  BY <1>6 DEF SHA1NextValue, n

LEMMA ByteOfType == \A w \in Word, j \in 0 .. 3 : ByteOf(w, j) \in Byte
<1> SUFFICES ASSUME NEW w \in Word, NEW j \in 0 .. 3 PROVE ByteOf(w, j) \in Byte
  OBVIOUS
<1> DEFINE h == w[IF j < 2 THEN 2 ELSE 1]
           k == j % 2
           Power(e) == 256^e
<1>1. h \in Half /\ k \in 0 .. 1
  BY Words
<1>2. Power(0) = 1 /\ Power(1) = 256
  OBVIOUS
<1>3. ByteOf(w, j) = (h \div Power(k)) % 256
  BY DEF ByteOf
<1> HIDE DEF h, k, Power
<1>4. (h \div Power(k)) % 256 \in Byte
  BY <1>1, <1>2 DEF Half, Byte
<1> QED
  BY <1>3, <1>4

LEMMA SumTypes ==
    /\ \A s \in [1 .. 4 -> Word] : MD5Sum(s) \in Seq(Byte)
    /\ \A s \in [1 .. 5 -> Word] : SHA1Sum(s) \in Seq(Byte)
<1>1. ASSUME NEW s \in [1 .. 4 -> Word] PROVE MD5Sum(s) \in Seq(Byte)
  <2>1. ASSUME NEW i \in 1 .. 16 PROVE ByteOf(s[((i - 1) \div 4) + 1], (i - 1) % 4) \in Byte
    <3>1. ((i - 1) \div 4) + 1 \in 1 .. 4 /\ (i - 1) % 4 \in 0 .. 3
      OBVIOUS
    <3>2. s[((i - 1) \div 4) + 1] \in Word
      BY <3>1
    <3> QED
      BY <3>1, <3>2, ByteOfType
  <2>2. MD5Sum(s) \in [1 .. 16 -> Byte]
    BY <2>1 DEF MD5Sum
  <2> QED
    BY <2>2, Sequences
<1>2. ASSUME NEW s \in [1 .. 5 -> Word] PROVE SHA1Sum(s) \in Seq(Byte)
  <2>1. ASSUME NEW i \in 1 .. 20 PROVE ByteOf(s[((i - 1) \div 4) + 1], 3 - ((i - 1) % 4)) \in Byte
    <3>1. ((i - 1) \div 4) + 1 \in 1 .. 5 /\ 3 - ((i - 1) % 4) \in 0 .. 3
      OBVIOUS
    <3>2. s[((i - 1) \div 4) + 1] \in Word
      BY <3>1
    <3> QED
      BY <3>1, <3>2, ByteOfType
  <2>2. SHA1Sum(s) \in [1 .. 20 -> Byte]
    BY <2>1 DEF SHA1Sum
  <2> QED
    BY <2>2, Sequences
<1> QED
  BY <1>1, <1>2

----------------------------------------------------------------------------
\* Digests

Width == IF call = "MD5" THEN 4 ELSE 5

\* The state is as many words as its hash has, a block that is being digested is
\* one of the padded message, and the message is not gone before the end.
DigestInv ==
    /\ state \in [1 .. Width -> Word]
    /\ roundState \in Seq(Word) /\ values \in Seq(Word)
    /\ idxBlock \in 0 .. NumMsgBlocks(Len(text))
    /\ idxRound \in 0 .. 80
    /\ values # <<>> => /\ pos = 8 /\ returned = "no"
                        /\ idxBlock < NumMsgBlocks(Len(text))
                        /\ roundState \in [1 .. Width -> Word]
                        /\ Len(values) \in 16 .. 80
                        /\ call = "MD5" => Len(values) = 16
    /\ returned = "no" => Padded
    /\ returned # "no" => pos = 8 /\ result \in Seq(Byte) /\ numMsgBits \in Nat

LEMMA PaddedTypes ==
    ASSUME Arguments, call \in {"PadMessage", "MD5", "SHA1"}, Padded
    PROVE  /\ Len(text) \in Nat /\ result \in Seq(Byte) /\ pos \in 0 .. Len(text) + 8 /\ numMsgBits \in Nat
<1>1. Len(text) \in Nat /\ 8 * Len(text) \in Nat
  BY DEF Arguments, Fits
<1>2. result \in Seq(Byte) /\ pos \in 0 .. 8
  <2>1. CASE result = <<>> /\ pos = 0
    BY <2>1
  <2>2. CASE result \in Seq(Byte) /\ pos \in 0 .. 8
    BY <2>2
  <2> QED
    BY <2>1, <2>2 DEF Padded
<1>3. pos + 1 \in 1 .. 9
  BY <1>2
<1>4. Shifts(8 * Len(text))[pos + 1] \in Nat
  <2>1. Shifts(8 * Len(text)) \in [1 .. 9 -> Nat]
    BY <1>1, ShiftsByBytes
  <2> QED
    BY <2>1, <1>3
<1>5. numMsgBits \in Nat
  <2>1. numMsgBits = 8 * Len(text) \/ numMsgBits = Shifts(8 * Len(text))[pos + 1]
    BY DEF Padded
  <2> QED
    BY <2>1, <1>1, <1>4
<1> QED
  BY <1>1, <1>2, <1>5

LEMMA DigestInit == Init /\ call \in {"MD5", "SHA1"} => DigestInv
<1> SUFFICES ASSUME Init, call \in {"MD5", "SHA1"} PROVE DigestInv
  OBVIOUS
<1>1. Len(text) \in Nat
  BY ArgumentsInit DEF Arguments, Fits
<1>2. NumMsgBlocks(Len(text)) \in Nat
  BY <1>1, FilledBlocks
<1>3. state \in [1 .. Width -> Word]
  BY InitialWords DEF Init, InitialState, Width
<1>4. /\ roundState = <<>> /\ values = <<>> /\ idxBlock = 0 /\ idxRound = 0
      /\ returned = "no" /\ Padded
  BY PadInit DEF Init, PadInv
<1> QED
  BY <1>2, <1>3, <1>4 DEF DigestInv

\* Digesting a block starts with its bytes.
LEMMA BlockBytes ==
    ASSUME Arguments, call \in {"MD5", "SHA1"}, Padded, pos = 8, NEW k \in Nat,
           k < Len(result) \div BlockLength,
           NEW block, block = SubSeq(result, (k * BlockLength) + 1, (k + 1) * BlockLength)
    PROVE  k < NumMsgBlocks(Len(text)) /\ \A j \in 1 .. 64 : block[j] \in Byte
<1> DEFINE n == Len(text)
           b == BlockLength
           q == NumMsgBlocks(n)
<1>1. n \in Nat
  BY DEF Arguments, Fits
<1>2. result \in Seq(Byte) /\ Len(result) = Filled(n)
  BY DEF Padded
<1>3. q \in Nat /\ Filled(n) = q * b /\ Filled(n) \div b = q /\ b \in Nat /\ b >= 64
  BY <1>1, FilledBlocks, BlockLengthAssumption DEF Filled
<1>4. k < q
  BY <1>2, <1>3
<1> HIDE DEF n, b, q
<1>5. k * b \in Nat /\ (k + 1) * b = (k * b) + b /\ (k + 1) * b <= q * b
  <2>1. (k + 1) * b <= q * b
    <3>1. PICK d \in Nat : q = (k + 1) + d
      <4>1. q - (k + 1) \in Nat /\ q = (k + 1) + (q - (k + 1))
        BY <1>3, <1>4
      <4> QED
        BY <4>1
    <3>2. ((k + 1) + d) * b = ((k + 1) * b) + (d * b) /\ d * b \in Nat /\ (k + 1) * b \in Nat
      BY <1>3
    <3> QED
      BY <3>1, <3>2
  <2> QED
    BY <2>1, <1>3
<1> DEFINE start == k * b
           stop  == (k + 1) * b
<1>6. start \in Nat /\ stop = start + b /\ stop \in Nat /\ stop <= Len(result)
  BY <1>2, <1>3, <1>5
<1> HIDE DEF start, stop
<1>7. block = SubSeq(result, start + 1, stop)
  BY DEF start, stop, b
<1>8. \A j \in 1 .. 64 : block[j] \in Byte
  <2>1. \A i \in start + 1 .. stop : result[i] \in Byte
    BY <1>2, <1>6, ElementOfSeq
  <2> DEFINE first == start + 1
  <2>2. first \in Int /\ stop \in Int /\ first <= stop /\ (stop - first) + 1 = b
    BY <1>3, <1>6
  <2> HIDE DEF first
  <2>3. block \in Seq(Byte) /\ Len(block) = b
    <3>1. block = SubSeq(result, first, stop) /\ \A i \in first .. stop : result[i] \in Byte
      BY <1>7, <2>1 DEF first
    <3> QED
      BY <3>1, <2>2, SubSeqProperties
  <2>4. \A j \in 1 .. 64 : j \in 1 .. b
    BY <1>3
  <2> QED
    BY <2>3, <2>4, ElementOfSeq
<1> QED
  BY <1>4, <1>8 DEF n, q

LEMMA DigestBlockStep ==
    ASSUME Arguments, call \in {"MD5", "SHA1"}, DigestInv, DigestBlock, UNCHANGED <<call, text>>
    PROVE  DigestInv'
<1> DEFINE block == SubSeq(result, (idxBlock * BlockLength) + 1, (idxBlock + 1) * BlockLength)
<1>1. /\ pos = 8 /\ idxBlock < Len(result) \div BlockLength /\ returned = "no"
      /\ roundState' = state /\ idxRound' = 0
      /\ UNCHANGED <<pos, result, returned, numMsgBits, state, idxBlock>>
      /\ \/ call = "MD5" /\ \E garbage \in AnyWord : values' = MD5Values(block, garbage)
         \/ call = "SHA1" /\ values' = SHA1Values(block)
  BY DEF DigestBlock, Calling
<1>2. idxBlock \in Nat /\ Padded /\ state \in [1 .. Width -> Word]
  BY <1>1 DEF DigestInv
<1>3. idxBlock < NumMsgBlocks(Len(text)) /\ \A j \in 1 .. 64 : block[j] \in Byte
  BY <1>1, <1>2, BlockBytes
<1> HIDE DEF block
<1>4. \A garbage \in AnyWord : garbage \in Word
  BY Pairs DEF AnyWord
<1>5. values' \in [1 .. 16 -> Word]
  BY <1>1, <1>3, <1>4, MD5ValuesType, SHA1ValuesType
<1>6. values' \in Seq(Word) /\ Len(values') = 16 /\ Len(values') \in 16 .. 80
  <2>1. values' \in Seq(Word) /\ Len(values') = 16
    BY <1>5, Sequences
  <2> QED
    BY <2>1
<1>7. Width \in Nat /\ Width' = Width /\ Padded'
  BY <1>1, <1>2 DEF Width, Padded, Filled, NumMsgBlocks
<1>8. roundState' \in [1 .. Width' -> Word] /\ roundState' \in Seq(Word) /\ state' \in [1 .. Width' -> Word]
  BY <1>1, <1>2, <1>7, Sequences
<1>9. UNCHANGED NumMsgBlocks(Len(text)) /\ idxBlock \in 0 .. NumMsgBlocks(Len(text)) /\ 0 \in 0 .. 80
  BY <1>1 DEF DigestInv, NumMsgBlocks
<1> QED
  BY <1>1, <1>3, <1>6, <1>7, <1>8, <1>9 DEF DigestInv

LEMMA DigestValueStep ==
    ASSUME Arguments, call \in {"MD5", "SHA1"}, DigestInv, DigestValue, UNCHANGED <<call, text>>
    PROVE  DigestInv'
<1>1. /\ call = "SHA1" /\ returned = "no" /\ values' = Append(values, SHA1NextValue(values))
      /\ Len(values) \in 16 .. 79 /\ values \in Seq(Word)
      /\ UNCHANGED <<pos, result, returned, numMsgBits, state, idxBlock, roundState, idxRound>>
  BY DEF DigestValue, Calling, DigestInv
<1>2. SHA1NextValue(values) \in Word
  BY <1>1, SHA1NextValueType
<1>3. values' \in Seq(Word) /\ Len(values') = Len(values) + 1
  BY <1>1, <1>2, AppendProperties
<1> DEFINE n == Len(values)
<1>4. Len(values') \in 16 .. 80 /\ values # <<>>
  <2>1. n \in 16 .. 79 /\ Len(values') = n + 1
    BY <1>1, <1>3
  <2>2. values = <<>> => n = 0
    OBVIOUS
  <2> HIDE DEF n
  <2> QED
    BY <2>1, <2>2
<1>5. UNCHANGED <<Width, NumMsgBlocks(Len(text))>> /\ (Padded => Padded')
  BY <1>1 DEF Width, Padded, Filled, NumMsgBlocks
<1> QED
  BY <1>1, <1>3, <1>4, <1>5 DEF DigestInv

LEMMA DigestRoundStep ==
    ASSUME Arguments, call \in {"MD5", "SHA1"}, DigestInv, DigestRound, UNCHANGED <<call, text>>
    PROVE  DigestInv'
<1>1. /\ values # <<>> /\ returned = "no" /\ idxRound' = idxRound + 1
      /\ \/ call = "MD5" /\ idxRound < 64 /\ roundState' = MD5Step(roundState, idxRound, values)
         \/ /\ call = "SHA1" /\ Len(values) = 80 /\ idxRound < 80
            /\ roundState' = SHA1Step(roundState, idxRound, values)
      /\ UNCHANGED <<pos, result, returned, numMsgBits, state, idxBlock, values>>
  BY DEF DigestRound, Calling
<1>2. /\ idxRound \in 0 .. 80 /\ values \in Seq(Word) /\ roundState \in [1 .. Width -> Word]
      /\ call = "MD5" => Len(values) = 16
  BY <1>1 DEF DigestInv
<1>3. \A m \in Nat : Len(values) = m => values \in [1 .. m -> Word]
  BY <1>2, LenProperties
<1>4. roundState' \in [1 .. Width -> Word]
  <2>1. CASE call = "MD5"
    <3>1. idxRound \in 0 .. 63 /\ roundState \in [1 .. 4 -> Word] /\ Len(values) = 16
      BY <2>1, <1>1, <1>2 DEF Width
    <3>2. values \in [1 .. 16 -> Word]
      BY <3>1, <1>3
    <3>3. Width = 4 /\ roundState' = MD5Step(roundState, idxRound, values)
      BY <2>1, <1>1 DEF Width
    <3> QED
      BY <3>1, <3>2, <3>3, MD5StepType
  <2>2. CASE call = "SHA1"
    <3>1. idxRound \in 0 .. 79 /\ roundState \in [1 .. 5 -> Word] /\ Len(values) = 80
      BY <2>2, <1>1, <1>2 DEF Width
    <3>2. values \in [1 .. 80 -> Word]
      BY <3>1, <1>3
    <3>3. Width = 5 /\ roundState' = SHA1Step(roundState, idxRound, values)
      BY <2>2, <1>1 DEF Width
    <3> QED
      BY <3>1, <3>2, <3>3, SHA1StepType
  <2> QED
    BY <2>1, <2>2
<1>5. idxRound' \in 0 .. 80
  BY <1>1, <1>2
<1>6. Width \in Nat /\ UNCHANGED <<Width, NumMsgBlocks(Len(text))>> /\ (Padded => Padded')
  BY <1>1 DEF Width, Padded, Filled, NumMsgBlocks
<1>7. roundState' \in Seq(Word)
  BY <1>4, <1>6, Sequences
<1> QED
  BY <1>1, <1>4, <1>5, <1>6, <1>7 DEF DigestInv

LEMMA DigestBlockEndStep ==
    ASSUME Arguments, call \in {"MD5", "SHA1"}, DigestInv, DigestBlockEnd, UNCHANGED <<call, text>>
    PROVE  DigestInv'
<1>1. /\ values # <<>> /\ returned = "no" /\ idxBlock' = idxBlock + 1 /\ values' = <<>>
      /\ state' = StateSum(state, roundState)
      /\ UNCHANGED <<pos, result, returned, numMsgBits, roundState, idxRound>>
  BY DEF DigestBlockEnd, Calling
<1>2. /\ state \in [1 .. Width -> Word] /\ roundState \in [1 .. Width -> Word]
      /\ idxBlock \in 0 .. NumMsgBlocks(Len(text)) /\ idxBlock < NumMsgBlocks(Len(text))
  BY <1>1 DEF DigestInv
<1>3. Width \in Nat /\ UNCHANGED <<Width, NumMsgBlocks(Len(text))>> /\ (Padded => Padded')
  BY <1>1 DEF Width, Padded, Filled, NumMsgBlocks
<1>4. state' \in [1 .. Width' -> Word]
  BY <1>1, <1>2, <1>3, StateSumType
<1>5. Len(text) \in Nat
  BY DEF Arguments, Fits
<1>6. idxBlock' \in 0 .. NumMsgBlocks(Len(text))
  <2>1. NumMsgBlocks(Len(text)) \in Nat
    BY <1>5, FilledBlocks
  <2> QED
    BY <2>1, <1>1, <1>2
<1> QED
  BY <1>1, <1>3, <1>4, <1>6 DEF DigestInv

LEMMA DigestEndStep ==
    ASSUME Arguments, call \in {"MD5", "SHA1"}, DigestInv, DigestEnd, UNCHANGED <<call, text>>
    PROVE  DigestInv'
<1>1. /\ pos = 8 /\ values = <<>> /\ returned = "no" /\ returned' = "OK"
      /\ \/ call = "MD5" /\ result' = MD5Sum(state)
         \/ call = "SHA1" /\ result' = SHA1Sum(state)
      /\ UNCHANGED <<pos, numMsgBits, state, idxBlock, roundState, idxRound, values>>
  BY DEF DigestEnd, Calling, digestVars
<1>2. state \in [1 .. Width -> Word] /\ Padded
  BY <1>1 DEF DigestInv
<1>3. result' \in Seq(Byte)
  BY <1>1, <1>2, SumTypes DEF Width
<1>4. numMsgBits \in Nat
  BY <1>2, PaddedTypes
<1>5. UNCHANGED <<Width, NumMsgBlocks(Len(text))>>
  BY <1>1 DEF Width, NumMsgBlocks
<1> QED
  BY <1>1, <1>3, <1>4, <1>5 DEF DigestInv

\* The same for MD5 and SHA-1.
LEMMA DigestCalls == Spec => [](Arguments /\ (call \in {"MD5", "SHA1"} => DigestInv))
<1> DEFINE Inv == Arguments /\ (call \in {"MD5", "SHA1"} => DigestInv)
<1>1. Init => Inv
  BY ArgumentsInit, DigestInit
<1>2. Inv /\ [Next]_vars => Inv'
  <2> SUFFICES ASSUME Inv, [Next]_vars PROVE Inv'
    OBVIOUS
  <2>1. CASE Next
    <3>1. UNCHANGED <<call, text, array>> /\ Arguments' /\ returned = "no"
      BY <2>1, Steps, ArgumentsStep
    <3>2. ASSUME call \in {"MD5", "SHA1"} PROVE DigestInv'
      <4>1. DigestStep
        BY <2>1, <3>2, Steps DEF HexStep, Base64Step, UTF8Step, EntityStep, PadStep
      <4>2. CASE PadMessage \/ PadMessageSize
        <5>1. Padded' /\ returned' = returned
          BY <3>1, <3>2, <4>2, PadMessageStep, PadSizeStep DEF DigestInv
        <5>2. UNCHANGED <<state, idxBlock, roundState, idxRound, values>> /\ (pos' = pos \/ pos # 8)
          BY <4>2 DEF PadMessage, PadMessageSize, digestVars
        <5>3. UNCHANGED <<Width, NumMsgBlocks(Len(text))>>
          BY <3>1 DEF Width, NumMsgBlocks
        <5> QED
          BY <3>1, <3>2, <5>1, <5>2, <5>3 DEF DigestInv
      <4>3. CASE DigestBlock
        BY <3>1, <3>2, <4>3, DigestBlockStep
      <4>4. CASE DigestValue
        BY <3>1, <3>2, <4>4, DigestValueStep
      <4>5. CASE DigestRound
        BY <3>1, <3>2, <4>5, DigestRoundStep
      <4>6. CASE DigestBlockEnd
        BY <3>1, <3>2, <4>6, DigestBlockEndStep
      <4>7. CASE DigestEnd
        BY <3>1, <3>2, <4>7, DigestEndStep
      <4> QED
        BY <4>1, <4>2, <4>3, <4>4, <4>5, <4>6, <4>7 DEF DigestStep
    <3> QED
      BY <3>1, <3>2
  <2>2. CASE UNCHANGED vars
    BY <2>2, ArgumentsStep DEF vars, digestVars, DigestInv, Width, Padded, Filled, NumMsgBlocks
  <2> QED
    BY <2>1, <2>2
<1> QED
  BY <1>1, <1>2, PTL DEF Spec

----------------------------------------------------------------------------
\* Types

\* The variables of the other calls have their initial values.
OthersInv ==
    /\ array \in ArraySizes \cup {NoArray}
    /\ call \notin {"ParseHex", "ParseBase64"} => returned \in {"no", "OK"}
    /\ call # "ParseHex" => curByteValue = 0 /\ lowNybble \in BOOLEAN
    /\ call # "ParseBase64" => scratchPad = [i \in 1 .. 4 |-> 0] /\ counter = 0
    /\ call = "ParseHTMLEntity" => pos = 0 /\ result \in Seq(Byte)
    /\ call \notin {"PadMessage", "MD5", "SHA1"} => numMsgBits = 8 * Len(text)
    /\ call \notin {"MD5", "SHA1"} => /\ state = <<>> /\ roundState = <<>> /\ values = <<>>
                                      /\ idxBlock = 0 /\ idxRound = 0

LEMMA FromCharsType ==
    ASSUME NEW digits \in Seq(Int), NEW base \in Nat
    PROVE  FromChars(digits, base) \in Nat
<1> DEFINE L     == Len(digits)
           valid == {n \in 0 .. L : \A i \in 1 .. n : digits[i] \in 0 .. base - 1}
           last  == CHOOSE n \in valid : \A m \in valid : m <= n
<1>1. L \in Nat /\ valid \subseteq 0 .. L /\ 0 \in valid
  <2>1. \A i \in 1 .. 0 : FALSE
    OBVIOUS
  <2> QED
    BY <2>1
<1>2. \A n \in valid : \A i \in 1 .. n : digits[i] \in Nat
  OBVIOUS
<1> HIDE DEF valid
<1>3. \E n \in valid : \A m \in valid : m <= n
  <2> DEFINE below == {L - n : n \in valid}
  <2>1. \A n \in valid : n \in Nat /\ L - n \in Nat /\ L - n \in below
    BY <1>1
  <2>2. below \in SUBSET Nat /\ below # {}
    BY <1>1, <2>1
  <2>3. \A k \in below : \E n \in valid : k = L - n
    OBVIOUS
  <2> HIDE DEF below
  <2>4. PICK k \in below : \A j \in below : k <= j
    BY <2>2, LeastElement
  <2>5. PICK n \in valid : k = L - n
    BY <2>3
  <2>6. ASSUME NEW m \in valid PROVE m <= n
    <3>1. L - n <= L - m
      BY <2>1, <2>4, <2>5
    <3> HIDE DEF L
    <3> QED
      BY <1>1, <2>1, <3>1
  <2> QED
    BY <2>6
<1>4. last \in valid
  BY <1>3
<1> HIDE DEF last
<1>5. SubSeq(digits, 1, last) \in Seq(Nat)
  <2>1. \A i \in 1 .. last : digits[i] \in Nat
    BY <1>2, <1>4
  <2>2. last \in Int /\ 1 \in Int
    BY <1>1, <1>4
  <2> QED
    BY <2>1, <2>2, SubSeqProperties
<1>6. FromChars(digits, base) = Number(SubSeq(digits, 1, last), base)
  BY DEF FromChars, last, valid
<1> QED
  BY <1>5, <1>6, NumberType

LEMMA EntityType ==
    ASSUME Arguments, call = "ParseHTMLEntity"
    PROVE  UTF8(FromChars(Tail(text), Head(text))) \in Seq(Byte)
<1>1. text \in Seq((0 .. 16) \cup {NotADigit}) /\ Len(text) \in 1 .. 8 /\ Head(text) \in {10, 16}
  BY DEF Arguments
<1>2. text \in Seq(Int) /\ text # <<>>
  <2>1. (0 .. 16) \cup {NotADigit} \subseteq Int
    BY DEF NotADigit
  <2> QED
    BY <1>1, <2>1
<1>3. Tail(text) \in Seq(Int) /\ Head(text) \in Nat
  BY <1>1, <1>2, HeadTailProperties
<1> QED
  BY <1>3, FromCharsType, UTF8Bytes

\* No call touches the variables of another.
LEMMA OthersCalls == Spec => [](Arguments /\ OthersInv)
<1> DEFINE Inv == Arguments /\ OthersInv
<1>1. Init => Inv
  <2> SUFFICES ASSUME Init PROVE Inv
    OBVIOUS
  <2>1. array \in ArraySizes \cup {NoArray} /\ lowNybble \in BOOLEAN
    BY DEF Init, StartsLow
  <2>2. call \notin {"MD5", "SHA1"} => state = <<>>
    BY DEF Init, InitialState
  <2> QED
    BY <2>1, <2>2, ArgumentsInit DEF Init, OthersInv
<1>2. Inv /\ [Next]_vars => Inv'
  <2> SUFFICES ASSUME Inv, [Next]_vars PROVE Inv'
    OBVIOUS
  <2>1. CASE Next
    <3>1. UNCHANGED <<call, text, array>> /\ Arguments' /\ returned = "no"
      BY <2>1, Steps, ArgumentsStep
    <3>2. CASE HexStep
      BY <3>1, <3>2 DEF HexStep, ParseHexDigit, ParseHexEnd, Refuse, base64Vars, digestVars, OthersInv
    <3>3. CASE Base64Step
      BY <3>1, <3>3 DEF Base64Step, ParseBase64Digit, ParseBase64End, Refuse, hexVars, digestVars, OthersInv
    <3>4. CASE UTF8Step
      BY <3>1, <3>4 DEF UTF8Step, ConvertC32ToUTF8, ConvertC32ToUTF8End, hexVars, base64Vars,
                        digestVars, OthersInv
    <3>5. CASE EntityStep
      BY <3>1, <3>5, EntityType DEF EntityStep, ParseHTMLEntity, hexVars, base64Vars, digestVars, OthersInv
    <3>6. CASE PadStep
      BY <3>1, <3>6 DEF PadStep, PadMessage, PadMessageSize, PadMessageEnd, hexVars, base64Vars,
                        digestVars, OthersInv
    <3>7. CASE DigestStep
      BY <3>1, <3>7 DEF DigestStep, PadMessage, PadMessageSize, DigestBlock, DigestValue, DigestRound,
                        DigestBlockEnd, DigestEnd, hexVars, base64Vars, OthersInv
    <3> QED
      BY <2>1, <3>2, <3>3, <3>4, <3>5, <3>6, <3>7, Steps
  <2>2. CASE UNCHANGED vars
    BY <2>2, ArgumentsStep DEF vars, hexVars, base64Vars, digestVars, OthersInv
  <2> QED
    BY <2>1, <2>2
<1> QED
  BY <1>1, <1>2, PTL DEF Spec

LEMMA ResultCodes == \A n : ResultOf(n) \in {"OK", "ArgumentTooLong", "ArgumentTooShort"}
  BY DEF ResultOf

LEMMA HexTypes == Arguments /\ OthersInv /\ call = "ParseHex" /\ HexInv => TypeOK
<1> SUFFICES ASSUME Arguments, OthersInv, call = "ParseHex", HexInv PROVE TypeOK
  OBVIOUS
<1>1. Len(text) \in Nat /\ pos \in 0 .. Len(text) + 8
  <2>1. Len(text) \in Nat /\ pos \in 0 .. Len(text)
    BY DEF Arguments, HexInv
  <2> QED
    BY <2>1
<1>2. curByteValue \in Byte
  <2>1. Nybble(Read) \in 0 .. 15
    BY Nybbles
  <2> QED
    BY <2>1 DEF HexInv, Byte
<1>3. returned \in {"no", "OK", "InvalidArgument", "ArgumentTooLong", "ArgumentTooShort"}
  BY ResultCodes DEF HexInv
<1>4. scratchPad \in [1 .. 4 -> Byte] /\ counter \in 0 .. 3
  BY DEF OthersInv, Byte
<1>5. numMsgBits \in Nat /\ idxBlock \in 0 .. Len(text) + 1 /\ idxRound \in 0 .. 80
  BY <1>1 DEF OthersInv
<1>6. state \in Seq(Word) /\ roundState \in Seq(Word) /\ values \in Seq(Word)
  BY DEF OthersInv
<1> QED
  BY <1>1, <1>2, <1>3, <1>4, <1>5, <1>6 DEF HexInv, OthersInv, TypeOK

LEMMA Base64Types == Arguments /\ OthersInv /\ call = "ParseBase64" /\ Base64Inv => TypeOK
<1> SUFFICES ASSUME Arguments, OthersInv, call = "ParseBase64", Base64Inv PROVE TypeOK
  OBVIOUS
<1>1. Len(text) \in Nat /\ pos \in 0 .. Len(text) + 8
  <2>1. Len(text) \in Nat /\ pos \in 0 .. Len(text)
    BY DEF Arguments, Base64Inv
  <2> QED
    BY <2>1
<1>2. curByteValue \in Byte /\ lowNybble \in BOOLEAN
  BY DEF OthersInv, Byte
<1>3. returned \in {"no", "OK", "InvalidArgument", "ArgumentTooLong", "ArgumentTooShort"}
  BY ResultCodes DEF Base64Inv
<1>4. counter \in 0 .. 3
  BY Base64Facts
<1>5. numMsgBits \in Nat /\ idxBlock \in 0 .. Len(text) + 1 /\ idxRound \in 0 .. 80
  BY <1>1 DEF OthersInv
<1>6. state \in Seq(Word) /\ roundState \in Seq(Word) /\ values \in Seq(Word)
  BY DEF OthersInv
<1> QED
  BY <1>1, <1>2, <1>3, <1>4, <1>5, <1>6 DEF Base64Inv, OthersInv, TypeOK

LEMMA TextTypes ==
    ASSUME Arguments, OthersInv, call \in {"ConvertC32ToUTF8", "ParseHTMLEntity"},
           call = "ConvertC32ToUTF8" => UTF8Inv
    PROVE  TypeOK
<1>1. Len(text) \in Nat /\ pos \in 0 .. Len(text) + 8
  <2>1. Len(text) \in Nat /\ pos \in 0 .. Len(text)
    BY DEF Arguments, UTF8Inv, OthersInv
  <2> QED
    BY <2>1
<1>2. result \in Seq(Byte) /\ returned \in {"no", "OK"}
  BY DEF UTF8Inv, OthersInv
<1>3. /\ curByteValue \in Byte /\ lowNybble \in BOOLEAN
      /\ scratchPad \in [1 .. 4 -> Byte] /\ counter \in 0 .. 3
  BY DEF OthersInv, Byte
<1>4. numMsgBits \in Nat /\ idxBlock \in 0 .. Len(text) + 1 /\ idxRound \in 0 .. 80
  BY <1>1 DEF OthersInv
<1>5. state \in Seq(Word) /\ roundState \in Seq(Word) /\ values \in Seq(Word)
  <2>1. state = <<>> /\ roundState = <<>> /\ values = <<>>
    BY DEF OthersInv
  <2> QED
    BY <2>1
<1> QED
  BY <1>1, <1>2, <1>3, <1>4, <1>5 DEF OthersInv, TypeOK

LEMMA DigestTypes ==
    ASSUME Arguments, OthersInv, call \in {"PadMessage", "MD5", "SHA1"},
           call = "PadMessage" => PadInv, call # "PadMessage" => DigestInv
    PROVE  TypeOK
<1>1. Len(text) \in Nat
  BY DEF Arguments, Fits
<1>2. result \in Seq(Byte) /\ pos \in 0 .. Len(text) + 8 /\ numMsgBits \in Nat
  <2>1. CASE call = "PadMessage" \/ returned = "no"
    BY <2>1, PaddedTypes DEF PadInv, DigestInv
  <2>2. CASE call # "PadMessage" /\ returned # "no"
    BY <2>2, <1>1 DEF DigestInv
  <2> QED
    BY <2>1, <2>2
<1>3. /\ curByteValue \in Byte /\ lowNybble \in BOOLEAN
      /\ scratchPad \in [1 .. 4 -> Byte] /\ counter \in 0 .. 3 /\ returned \in {"no", "OK"}
  BY DEF OthersInv, Byte
<1>4. state \in Seq(Word) /\ roundState \in Seq(Word) /\ values \in Seq(Word)
  <2>1. Width \in Nat
    BY DEF Width
  <2>2. CASE call # "PadMessage"
    BY <2>1, <2>2, Sequences DEF DigestInv
  <2>3. CASE call = "PadMessage"
    BY <2>3 DEF OthersInv
  <2> QED
    BY <2>2, <2>3
<1>5. idxBlock \in 0 .. Len(text) + 1 /\ idxRound \in 0 .. 80
  <2>1. NumMsgBlocks(Len(text)) \in Nat /\ NumMsgBlocks(Len(text)) <= Len(text) + 1
    BY <1>1, FilledBlocks
  <2>2. idxBlock \in 0 .. NumMsgBlocks(Len(text)) /\ idxRound \in 0 .. 80
    BY <2>1 DEF DigestInv, OthersInv
  <2> QED
    BY <1>1, <2>1, <2>2
<1> QED
  BY <1>1, <1>2, <1>3, <1>4, <1>5 DEF OthersInv, TypeOK

\* What the conversions and digests (string.cc, hash.hh) write are bytes and
\* words, and every index they use is inside its table, text or block.
THEOREM TypeCorrect == Spec => []TypeOK
<1> DEFINE Hex    == Arguments /\ (call = "ParseHex" => HexInv)
           Base64 == Arguments /\ (call = "ParseBase64" => Base64Inv)
           Text   == Arguments /\ (call = "ConvertC32ToUTF8" => UTF8Inv)
           Message == Arguments /\ (call = "PadMessage" => PadInv)
           Digest  == Arguments /\ (call \in {"MD5", "SHA1"} => DigestInv)
           Others  == Arguments /\ OthersInv
<1>1. Hex /\ Base64 /\ Text /\ Message /\ Digest /\ Others => TypeOK
  <2> SUFFICES ASSUME Hex, Base64, Text, Message, Digest, Others PROVE TypeOK
    OBVIOUS
  <2>1. CASE call \in {"ParseHex", "ParseBase64"}
    BY <2>1, HexTypes, Base64Types
  <2>2. CASE call \in {"ConvertC32ToUTF8", "ParseHTMLEntity"}
    BY <2>2, TextTypes
  <2>3. CASE call \in {"PadMessage", "MD5", "SHA1"}
    BY <2>3, DigestTypes
  <2> QED
    BY <2>1, <2>2, <2>3 DEF Arguments
<1> QED
  BY <1>1, HexCalls, Base64Calls, UTF8Calls, PadCalls, DigestCalls, OthersCalls, PTL
==============================================================================
