--------------------------- MODULE JsonTextProofs ---------------------------
(***************************************************************************)
(* JsonText for every buffer: the second pass stays inside the buffer, fits *)
(* into what the first pass allocated, and gives the characters that the    *)
(* JSON string stands for.                                                  *)
(***************************************************************************)
EXTENDS JsonText, TLAPS

Typed ==
    /\ input \in Inputs
    /\ input_pointer \in 1..Length /\ input_end \in 1..Length
    /\ skipped_bytes \in Nat /\ skipped_bytes < input_end /\ room \in Nat
    /\ output \in Seq(0..255)
    /\ pc \in {"scan", "decode", "parsed", "failed"} /\ short \in BOOLEAN
    /\ pc = "scan" => input_pointer = 1 /\ output = <<>>
    /\ pc \in {"decode", "parsed"} => /\ input_end < Length /\ At(input_end) = QUOTE
                                      /\ room = input_end - skipped_bytes + 1
                                      /\ input_pointer <= input_end + 1

(* c[p] is the number of escape sequences the first pass met before p: each *)
(* starts with a backslash, no two next to each other.                      *)
Counts(c) ==
    /\ c[1] = 0
    /\ \A p \in Nat : c[p] <= c[p + 1] /\ c[p + 2] <= c[p] + 1
    /\ \A p \in 1..(input_end - 1) : At(p) # BACKSLASH => c[p + 1] = c[p]
    /\ \A p \in Nat : p >= input_end - 1 => c[p] = skipped_bytes
    /\ \A p \in 1..input_end : skipped_bytes <= c[p] + (input_end - p)

(* The output is shorter than what was read by at least those.              *)
Shorter(c) ==
    /\ pc \in {"scan", "decode"} => Len(output) + c[input_pointer] <= input_pointer - 1
    /\ pc = "parsed" => Len(output) <= room

Fitting == \E c \in [Nat -> Nat] : Counts(c) /\ Shorter(c)

(* The first pass has reached a character of the reading, or what there is  *)
(* instead; or it is inside a literal, behind the first backslash; or past  *)
(* where the reading ends without a quote.                                  *)
Reading == input.reading
Within(p, k) == \/ Reading[k + 1].at = Reading[k].at + 6 /\ p - Reading[k].at \in 2..5
                \/ Reading[k + 1].at = Reading[k].at + 12 /\ p - Reading[k].at \in (2..6) \cup (8..11)
Reached(p) == \/ \E k \in 1..Len(Reading) : p = Reading[k].at
              \/ \E k \in 1..(Len(Reading) - 1) : Within(p, k)
              \/ ~IsString /\ p > End.at

(* The second pass follows the reading to its end, unless digits are missing. *)
Measured == /\ pc = "scan" => Reached(input_end)
            /\ pc \in {"decode", "parsed"} => IF IsString THEN input_end = End.at ELSE input_end > End.at
            /\ pc = "failed" => ~IsString \/ short
Follows == ~Loose =>
    /\ pc = "decode" => \E k \in 1..Len(Reading) : /\ input_pointer = Reading[k].at
                                                   /\ output = Reading[k].means
    /\ pc = "parsed" => /\ IsString /\ output = Append(End.means, 0)
                        /\ input_pointer <= input_end

IInv == Typed /\ Fitting /\ Measured /\ Follows

(* The codes there are, and the first that takes a pair of code units.       *)
LastCode == 1114111
FirstPair == 65536

(* d bytes of the input become n of the output: a character, an escape, a   *)
(* code unit, a pair of them.                                               *)
Becomes(d, n) ==
    \/ d = 1 /\ n = 1 /\ At(input_pointer) # BACKSLASH
    \/ d = 2 /\ n = 1 /\ At(input_pointer) = BACKSLASH
    \/ /\ d = 6 /\ n <= 3 /\ input_pointer + 6 <= input_end
       /\ At(input_pointer) = BACKSLASH /\ At(input_pointer + 1) = 117
    \/ /\ d = 12 /\ n <= 4 /\ input_pointer + 12 <= input_end
       /\ At(input_pointer) = BACKSLASH /\ At(input_pointer + 6) = BACKSLASH
       /\ \A k \in 2..5 : At(input_pointer + k) \in Digits /\ At(input_pointer + 6 + k) \in Digits

-----------------------------------------------------------------------------
(* The buffer. *)

(* The bytes of the buffer, its opening quote and its NUL.                  *)
LEMMA Buffer ==
    ASSUME input \in Inputs
    PROVE  /\ Length \in Nat /\ Length >= 2 /\ At(0) = QUOTE /\ At(Length - 1) = 0
           /\ \A p \in 0..(Length - 1) : At(p) \in 0..255
<1>1. /\ input.bytes \in Seq(0..255) /\ Len(input.bytes) >= 2
      /\ input.bytes[1] = QUOTE /\ input.bytes[Len(input.bytes)] = 0
  BY InputsAssumption, Zenon
<1>2. PICK b : b = input.bytes
  OBVIOUS
<1>3. b \in Seq(0..255) /\ Len(b) >= 2 /\ b[1] = QUOTE /\ b[Len(b)] = 0 /\ Length = Len(b)
      /\ \A p : At(p) = b[p + 1]
  BY <1>1, <1>2, Zenon DEF Length, At
<1>4. ASSUME NEW p \in 0..(Len(b) - 1) PROVE b[p + 1] \in 0..255
  <2>1. p + 1 \in 1..Len(b)
    BY <1>3
  <2> QED
    BY <1>3, <2>1
<1>5. Len(b) \in Nat /\ 0 + 1 = 1 /\ (Len(b) - 1) + 1 = Len(b)
  BY <1>3
<1> QED
  BY <1>3, <1>4, <1>5

(* The reading, and how far it goes.                                        *)
LEMMA ReadingIs ==
    ASSUME input \in Inputs
    PROVE  /\ Len(Reading) \in Nat /\ Len(Reading) >= 1 /\ End = Reading[Len(Reading)]
           /\ \A k \in 1..Len(Reading) : /\ Reading[k].at \in Nat /\ Reading[k].code \in Nat
                                         /\ Reading[k].means \in Seq(0..255)
           /\ Reading[1].at = 1 /\ Reading[1].means = <<>>
           /\ \A k \in 1..Len(Reading), j \in 1..Len(Reading) : j < k => Reading[j].at < Reading[k].at
           /\ \A k \in 1..(Len(Reading) - 1) : Character(input.bytes, Reading[k], Reading[k + 1])
           /\ IsString \/ Loose \/ Illegal(input.bytes, End)
<1>1. /\ Reading \in Seq([at : Nat, code : Nat, means : Seq(0..255)])
      /\ IsReading(input.bytes, Reading)
  BY InputsAssumption, Zenon DEF Reading
<1>2. PICK r \in Seq([at : Nat, code : Nat, means : Seq(0..255)]) : r = Reading
  BY <1>1, Zenon
<1>3. /\ Len(r) > 0 /\ r[1].at = 1 /\ r[1].means = <<>>
      /\ \A k \in DOMAIN r, j \in DOMAIN r : j < k => r[j].at < r[k].at
      /\ \A k \in 1..(Len(r) - 1) : Character(input.bytes, r[k], r[k + 1])
      /\ Closes(input.bytes, r[Len(r)]) \/ LacksDigits(input.bytes, r[Len(r)]) \/ Illegal(input.bytes, r[Len(r)])
  BY <1>1, <1>2, Zenon DEF IsReading
<1>4. Len(r) \in Nat /\ Len(r) >= 1 /\ DOMAIN r = 1..Len(r)
  BY <1>2, <1>3
<1>5. ASSUME NEW k \in 1..Len(r)
      PROVE  r[k].at \in Nat /\ r[k].code \in Nat /\ r[k].means \in Seq(0..255)
  <2>1. PICK x \in [at : Nat, code : Nat, means : Seq(0..255)] : x = r[k]
    <3>1. PICK T : T = [at : Nat, code : Nat, means : Seq(0..255)]
      OBVIOUS
    <3>2. r \in Seq(T)
      BY <3>1, Zenon
    <3>3. r[k] \in T
      BY <3>2
    <3> QED
      BY <3>1, <3>3, Zenon
  <2>2. x.at \in Nat /\ x.code \in Nat /\ x.means \in Seq(0..255)
    OBVIOUS
  <2> QED
    BY <2>1, <2>2, Zenon
<1>6. r[Len(r)] = End
  BY <1>2, Zenon DEF End, Reading
<1> QED
  BY <1>2, <1>3, <1>4, <1>5, <1>6, Zenon DEF IsString, Loose

(* The bytes of a character, from p to q.                                   *)
Shaped(p, q) ==
    \/ q = p + 1 /\ At(p) # BACKSLASH /\ At(p) # QUOTE
    \/ q = p + 2 /\ At(p) = BACKSLASH /\ At(p + 1) # 117
    \/ /\ q = p + 6 /\ At(p) = BACKSLASH /\ At(p + 1) = 117
       /\ \A k \in 2..5 : At(p + k) \in Digits
    \/ /\ q = p + 12 /\ At(p) = BACKSLASH /\ At(p + 1) = 117 /\ At(p + 6) = BACKSLASH
       /\ \A k \in (2..5) \cup (8..11) : At(p + k) \in Digits

-----------------------------------------------------------------------------
(* The literals. *)

(* Four digits are a UTF-16 code unit; what is not 0 is digits.             *)
LEMMA HexRange ==
    ASSUME NEW p, \A k \in 0..3 : At(p + k) \in 0..255
    PROVE  /\ parse_hex4(p) \in Nat /\ parse_hex4(p) <= 65535
           /\ parse_hex4(p) # 0 => \A k \in 0..3 : At(p + k) \in Digits
<1> DEFINE d == [k \in 0..3 |-> Digit(At(p + k))]
<1>1. \A k \in 0..3 : /\ d[k] = Digit(At(p + k)) /\ d[k] \in -1..15
                      /\ d[k] # -1 => At(p + k) \in Digits
  BY DEF Digit, Digits
<1>2. parse_hex4(p) = IF \E k \in 0..3 : d[k] = -1 THEN 0
                      ELSE d[0] * 4096 + d[1] * 256 + d[2] * 16 + d[3]
  BY DEF parse_hex4
<1> HIDE DEF d
<1>3. CASE \E k \in 0..3 : d[k] = -1
  <2>1. parse_hex4(p) = 0
    BY <1>2, <1>3, SMT
  <2> QED
    BY <2>1, SMT
<1>4. CASE ~ \E k \in 0..3 : d[k] = -1
  <2>1. d[0] \in 0..15 /\ d[1] \in 0..15 /\ d[2] \in 0..15 /\ d[3] \in 0..15
    <3>1. \A k \in 0..3 : d[k] \in -1..15 /\ d[k] # -1
      BY <1>1, <1>4, Zenon
    <3> QED
      BY <3>1
  <2>2. \A k \in 0..3 : At(p + k) \in Digits
    BY <1>1, <1>4, Zenon
  <2>3. parse_hex4(p) = d[0] * 4096 + d[1] * 256 + d[2] * 16 + d[3]
    BY <1>2, <1>4, SMT
  <2>4. PICK w \in 0..15, x \in 0..15, y \in 0..15, z \in 0..15 :
          w = d[0] /\ x = d[1] /\ y = d[2] /\ z = d[3]
    BY <2>1, Zenon
  <2>5. parse_hex4(p) = w * 4096 + x * 256 + y * 16 + z
    BY <2>3, <2>4, SMT
  <2>6. parse_hex4(p) \in Nat /\ parse_hex4(p) <= 65535
    BY <2>5, SMT
  <2> QED
    BY <2>2, <2>6, SMT
<1> QED
  BY <1>3, <1>4, SMT

(* A hexadecimal digit has one value. *)
LEMMA DigitRead ==
    ASSUME NEW a \in 0..255, NEW n \in 0..15
    PROVE  /\ IsDigit(a, n) => Digit(a) = n /\ a \in Digits
           /\ Digit(a) = n => IsDigit(a, n)
<1>1. CASE a \in 48..57
  BY <1>1 DEF IsDigit, Letter, Digit, Digits
<1>2. CASE a \in 65..70
  BY <1>2 DEF IsDigit, Letter, Digit, Digits
<1>3. CASE a \in 97..102
  BY <1>3 DEF IsDigit, Letter, Digit, Digits
<1>4. CASE a \notin 48..57 /\ a \notin 65..70 /\ a \notin 97..102
  BY <1>4 DEF IsDigit, Letter, Digit, Digits
<1> QED
  BY <1>1, <1>2, <1>3, <1>4

(* parse_hex4 reads the code unit that is written, ...                      *)
LEMMA UnitRead ==
    ASSUME input \in Inputs, NEW p \in Nat, NEW c, Unit(input.bytes, p, c)
    PROVE  /\ p + 6 < Length /\ At(p) = BACKSLASH /\ At(p + 1) = 117
           /\ parse_hex4(p + 2) = c /\ \A k \in 2..5 : At(p + k) \in Digits
<1>1. PICK b : b = input.bytes
  OBVIOUS
<1>2. Unit(b, p, c)
  BY <1>1, Zenon
<1>3. /\ At(p) = b[p + 1] /\ At(p + 1) = b[p + 2] /\ At(p + 2) = b[p + 3] /\ At(p + 3) = b[p + 4]
      /\ At(p + 4) = b[p + 5] /\ At(p + 5) = b[p + 6] /\ Length = Len(b)
  <2>1. /\ (p + 1) + 1 = p + 2 /\ (p + 2) + 1 = p + 3 /\ (p + 3) + 1 = p + 4
        /\ (p + 4) + 1 = p + 5 /\ (p + 5) + 1 = p + 6
    OBVIOUS
  <2> QED
    BY <1>1, <2>1, Zenon DEF At, Length
<1>4. p + 6 < Length /\ At(p) = BACKSLASH /\ At(p + 1) = 117
  BY <1>2, <1>3 DEF Unit
<1>5. /\ At(p + 2) \in 0..255 /\ At(p + 3) \in 0..255 /\ At(p + 4) \in 0..255 /\ At(p + 5) \in 0..255
  <2>1. Length \in Nat /\ \A q \in 0..(Length - 1) : At(q) \in 0..255
    BY Buffer
  <2>2. /\ p + 2 \in 0..(Length - 1) /\ p + 3 \in 0..(Length - 1)
        /\ p + 4 \in 0..(Length - 1) /\ p + 5 \in 0..(Length - 1)
    BY <1>4, <2>1
  <2> QED
    BY <2>1, <2>2, Zenon
<1>6. PICK w \in 0..15 :
        /\ IsDigit(b[p + 3], w)
        /\ \E x \in 0..15 : /\ IsDigit(b[p + 4], x)
           /\ \E y \in 0..15 : /\ IsDigit(b[p + 5], y)
              /\ \E z \in 0..15 : IsDigit(b[p + 6], z) /\ c = Value(w, x, y, z)
  BY <1>2, Zenon DEF Unit
<1>7. PICK x \in 0..15 :
        /\ IsDigit(b[p + 4], x)
        /\ \E y \in 0..15 : /\ IsDigit(b[p + 5], y)
           /\ \E z \in 0..15 : IsDigit(b[p + 6], z) /\ c = Value(w, x, y, z)
  BY <1>6, Zenon
<1>8. PICK y \in 0..15 :
        /\ IsDigit(b[p + 5], y)
        /\ \E z \in 0..15 : IsDigit(b[p + 6], z) /\ c = Value(w, x, y, z)
  BY <1>7, Zenon
<1>9. PICK z \in 0..15 : IsDigit(b[p + 6], z) /\ c = Value(w, x, y, z)
  BY <1>8, Zenon
<1>10. /\ Digit(At(p + 2)) = w /\ Digit(At(p + 3)) = x
       /\ Digit(At(p + 4)) = y /\ Digit(At(p + 5)) = z
       /\ At(p + 2) \in Digits /\ At(p + 3) \in Digits /\ At(p + 4) \in Digits /\ At(p + 5) \in Digits
  <2>1. Digit(At(p + 2)) = w /\ At(p + 2) \in Digits
    <3>1. At(p + 2) \in 0..255 /\ w \in 0..15 /\ IsDigit(At(p + 2), w)
      BY <1>3, <1>5, <1>6
    <3> QED
      BY <3>1, DigitRead
  <2>2. Digit(At(p + 3)) = x /\ At(p + 3) \in Digits
    <3>1. At(p + 3) \in 0..255 /\ x \in 0..15 /\ IsDigit(At(p + 3), x)
      BY <1>3, <1>5, <1>7
    <3> QED
      BY <3>1, DigitRead
  <2>3. Digit(At(p + 4)) = y /\ At(p + 4) \in Digits
    <3>1. At(p + 4) \in 0..255 /\ y \in 0..15 /\ IsDigit(At(p + 4), y)
      BY <1>3, <1>5, <1>8
    <3> QED
      BY <3>1, DigitRead
  <2>4. Digit(At(p + 5)) = z /\ At(p + 5) \in Digits
    <3>1. At(p + 5) \in 0..255 /\ z \in 0..15 /\ IsDigit(At(p + 5), z)
      BY <1>3, <1>5, <1>9
    <3> QED
      BY <3>1, DigitRead
  <2> QED
    BY <2>1, <2>2, <2>3, <2>4, Zenon
<1>11. parse_hex4(p + 2) = Value(w, x, y, z)
  <2> DEFINE d == [k \in 0..3 |-> Digit(At(p + 2 + k))]
  <2>1. d[0] = w /\ d[1] = x /\ d[2] = y /\ d[3] = z
    <3>1. p + 2 + 0 = p + 2 /\ p + 2 + 1 = p + 3 /\ p + 2 + 2 = p + 4 /\ p + 2 + 3 = p + 5
      OBVIOUS
    <3>2. d[0] = Digit(At(p + 2 + 0)) /\ d[1] = Digit(At(p + 2 + 1)) /\ d[2] = Digit(At(p + 2 + 2))
          /\ d[3] = Digit(At(p + 2 + 3))
      OBVIOUS
    <3> HIDE DEF d
    <3> QED
      BY <1>10, <3>1, <3>2, Zenon
  <2>2. parse_hex4(p + 2) = IF \E k \in 0..3 : d[k] = -1 THEN 0
                            ELSE d[0] * 4096 + d[1] * 256 + d[2] * 16 + d[3]
    BY DEF parse_hex4
  <2> HIDE DEF d
  <2>3. \A k \in 0..3 : d[k] # -1
    BY <2>1, SMT
  <2> QED
    BY <2>1, <2>2, <2>3, SMT DEF Value
<1>12. \A k \in 2..5 : k = 2 \/ k = 3 \/ k = 4 \/ k = 5
  OBVIOUS
<1>13. parse_hex4(p + 2) = c
  BY <1>9, <1>11
<1> QED
  BY <1>4, <1>10, <1>12, <1>13, Zenon

(* ... and reads none where none is written.                                *)
LEMMA UnitWritten ==
    ASSUME input \in Inputs, NEW p \in Nat, p + 6 < Length, At(p) = BACKSLASH, At(p + 1) = 117,
           parse_hex4(p + 2) # 0
    PROVE  Unit(input.bytes, p, parse_hex4(p + 2))
<1>1. PICK b : b = input.bytes
  OBVIOUS
<1>2. /\ At(p) = b[p + 1] /\ At(p + 1) = b[p + 2] /\ At(p + 2) = b[p + 3] /\ At(p + 3) = b[p + 4]
      /\ At(p + 4) = b[p + 5] /\ At(p + 5) = b[p + 6] /\ Length = Len(b)
  <2>1. /\ (p + 1) + 1 = p + 2 /\ (p + 2) + 1 = p + 3 /\ (p + 3) + 1 = p + 4
        /\ (p + 4) + 1 = p + 5 /\ (p + 5) + 1 = p + 6
    OBVIOUS
  <2> QED
    BY <1>1, <2>1, Zenon DEF At, Length
<1>3. \A k \in 0..3 : At(p + 2 + k) \in 0..255
  <2>1. Length \in Nat /\ \A q \in 0..(Length - 1) : At(q) \in 0..255
    BY Buffer
  <2>2. ASSUME NEW k \in 0..3 PROVE p + 2 + k \in 0..(Length - 1)
    BY <2>1
  <2> QED
    BY <2>1, <2>2
<1> DEFINE d == [k \in 0..3 |-> Digit(At(p + 2 + k))]
<1>4. \A k \in 0..3 : d[k] = Digit(At(p + 2 + k)) /\ (d[k] = -1 \/ d[k] \in 0..15)
  BY <1>3 DEF Digit
<1>5. parse_hex4(p + 2) = IF \E k \in 0..3 : d[k] = -1 THEN 0
                          ELSE d[0] * 4096 + d[1] * 256 + d[2] * 16 + d[3]
  BY DEF parse_hex4
<1> HIDE DEF d
<1>6. \A k \in 0..3 : d[k] # -1
  BY <1>5, SMT
<1>7. 0 \in 0..3 /\ 1 \in 0..3 /\ 2 \in 0..3 /\ 3 \in 0..3
  OBVIOUS
<1>8. PICK w \in 0..15 : w = d[0]
  BY <1>4, <1>6, <1>7
<1>9. PICK x \in 0..15 : x = d[1]
  BY <1>4, <1>6, <1>7
<1>10. PICK y \in 0..15 : y = d[2]
  BY <1>4, <1>6, <1>7
<1>11. PICK z \in 0..15 : z = d[3]
  BY <1>4, <1>6, <1>7
<1>12. parse_hex4(p + 2) = Value(w, x, y, z)
  BY <1>5, <1>6, <1>8, <1>9, <1>10, <1>11, SMT DEF Value
<1>13. p + 2 + 0 = p + 2 /\ p + 2 + 1 = p + 3 /\ p + 2 + 2 = p + 4 /\ p + 2 + 3 = p + 5
  OBVIOUS
<1>14. /\ Digit(At(p + 2)) = w /\ Digit(At(p + 3)) = x
       /\ Digit(At(p + 4)) = y /\ Digit(At(p + 5)) = z
       /\ At(p + 2) \in 0..255 /\ At(p + 3) \in 0..255 /\ At(p + 4) \in 0..255 /\ At(p + 5) \in 0..255
  BY <1>3, <1>4, <1>7, <1>8, <1>9, <1>10, <1>11, <1>13
<1>15. /\ IsDigit(At(p + 2), w) /\ IsDigit(At(p + 3), x)
       /\ IsDigit(At(p + 4), y) /\ IsDigit(At(p + 5), z)
  <2>1. IsDigit(At(p + 2), w)
    <3>1. At(p + 2) \in 0..255 /\ w \in 0..15 /\ Digit(At(p + 2)) = w
      BY <1>14
    <3> QED
      BY <3>1, DigitRead
  <2>2. IsDigit(At(p + 3), x)
    <3>1. At(p + 3) \in 0..255 /\ x \in 0..15 /\ Digit(At(p + 3)) = x
      BY <1>14
    <3> QED
      BY <3>1, DigitRead
  <2>3. IsDigit(At(p + 4), y)
    <3>1. At(p + 4) \in 0..255 /\ y \in 0..15 /\ Digit(At(p + 4)) = y
      BY <1>14
    <3> QED
      BY <3>1, DigitRead
  <2>4. IsDigit(At(p + 5), z)
    <3>1. At(p + 5) \in 0..255 /\ z \in 0..15 /\ Digit(At(p + 5)) = z
      BY <1>14
    <3> QED
      BY <3>1, DigitRead
  <2> QED
    BY <2>1, <2>2, <2>3, <2>4, Zenon
<1>16. /\ IsDigit(b[p + 3], w) /\ IsDigit(b[p + 4], x) /\ IsDigit(b[p + 5], y) /\ IsDigit(b[p + 6], z)
       /\ p + 6 < Len(b) /\ b[p + 1] = BACKSLASH /\ b[p + 2] = 117
  BY <1>2, <1>15, Zenon
<1> QED
  BY <1>1, <1>12, <1>16, Zenon DEF Unit

(* The two code units of a character beyond the first 65536.                *)
LEMMA PairRead ==
    ASSUME NEW h \in HighSurrogate, NEW l \in LowSurrogate
    PROVE  PairCode(h, l) = PairOf(h, l)
<1>1. h \in Nat /\ l \in Nat /\ h >= 55296 /\ h <= 56319 /\ l >= 56320 /\ l <= 57343
  BY DEF HighSurrogate, LowSurrogate
<1>2. h % 1024 = h - 55296
  BY <1>1
<1>3. l % 1024 = l - 56320
  BY <1>1
<1> QED
  BY <1>2, <1>3 DEF PairCode, PairOf

(* The encoding is as long as it needs to be, and of bytes.                 *)
LEMMA EncodedLength ==
    ASSUME NEW c \in Nat, c <= LastCode
    PROVE  /\ utf8(c) \in Seq(0..255) /\ Len(utf8(c)) \in 1..4
           /\ c < FirstPair => Len(utf8(c)) <= 3
<1> DEFINE n == IF c < 128 THEN 1 ELSE IF c < 2048 THEN 2 ELSE IF c < 65536 THEN 3 ELSE 4
           mark == <<0, 192, 224, 240>>[n]
           byte(k) == IF k = 1 THEN mark + c \div Shift[n - 1]
                      ELSE 128 + ((c \div Shift[n - k]) % 64)
           code == [k \in 1..n |-> byte(k)]
<1>1. utf8(c) = code
  BY DEF utf8
<1>2. /\ n \in 1..4 /\ (c < FirstPair => n <= 3)
      /\ n = 1 => c < 128
      /\ n = 2 => c < 2048
      /\ n = 3 => c < 65536
  BY DEF FirstPair
<1>3. Shift[0] = 1 /\ Shift[1] = 64 /\ Shift[2] = 4096 /\ Shift[3] = 262144
  BY DEF Shift
<1>4. /\ n = 1 => mark = 0
      /\ n = 2 => mark = 192
      /\ n = 3 => mark = 224
      /\ n = 4 => mark = 240
  <2> HIDE DEF n
  <2> QED
    OBVIOUS
<1> HIDE DEF n, mark
<1>5. ASSUME NEW k \in 1..n PROVE byte(k) \in 0..255
  <2>1. /\ c \div 1 = c /\ c \div 64 \in Nat /\ c \div 4096 \in Nat
        /\ c \div 262144 \in Nat /\ c \div 262144 <= 4
    BY SMT DEF LastCode
  <2>2. ASSUME NEW x \in Nat PROVE 128 + (x % 64) \in 0..255
    OBVIOUS
  <2>3. CASE k = 1
    <3>1. CASE n = 1
      BY <1>2, <1>3, <1>4, <2>3, <3>1
    <3>2. CASE n = 2
      <4>1. c \div 64 <= 31
        BY <1>2, <3>2
      <4> QED
        BY <1>3, <1>4, <2>1, <2>3, <3>2, <4>1
    <3>3. CASE n = 3
      <4>1. c \div 4096 <= 15
        BY <1>2, <3>3
      <4> QED
        BY <1>3, <1>4, <2>1, <2>3, <3>3, <4>1
    <3>4. CASE n = 4
      <4>1. byte(k) = 240 + (c \div Shift[3])
        BY <1>4, <2>3, <3>4
      <4>2. PICK high \in 0..4 : high = c \div Shift[3]
        BY <1>3, <2>1
      <4> HIDE DEF byte
      <4> QED
        BY <4>1, <4>2
    <3> HIDE DEF byte
    <3> QED
      BY <1>2, <3>1, <3>2, <3>3, <3>4
  <2>4. CASE k # 1
    <3>1. n - k \in 0..2
      BY <1>2, <2>4
    <3>2. c \div Shift[n - k] \in Nat
      <4>1. Shift[n - k] \in {1, 64, 4096}
        BY <1>3, <3>1
      <4> QED
        BY <2>1, <4>1
    <3> QED
      BY <2>2, <2>4, <3>2
  <2> HIDE DEF byte
  <2> QED
    BY <2>3, <2>4
<1> HIDE DEF byte
<1>6. code \in Seq(0..255) /\ Len(code) = n
  BY <1>2, <1>5
<1> HIDE DEF code
<1>7. utf8(c) \in Seq(0..255) /\ Len(utf8(c)) = n
  BY <1>1, <1>6, Zenon
<1> QED
  BY <1>2, <1>7, SMT DEF FirstPair

(* The encoding is that of Unicode's tables.                                *)
LEMMA Encoded == ASSUME NEW c \in Nat PROVE utf8(c) = Utf8(c)
<1> DEFINE n == IF c < 128 THEN 1 ELSE IF c < 2048 THEN 2 ELSE IF c < 65536 THEN 3 ELSE 4
           mark == <<0, 192, 224, 240>>[n]
           byte(k) == IF k = 1 THEN mark + c \div Shift[n - 1]
                      ELSE 128 + ((c \div Shift[n - k]) % 64)
           code == [k \in 1..n |-> byte(k)]
<1>1. utf8(c) = code
  BY DEF utf8
<1>2. Shift[0] = 1 /\ Shift[1] = 64 /\ Shift[2] = 4096 /\ Shift[3] = 262144
  BY DEF Shift
<1>3. c \div 1 = c
  OBVIOUS
<1>4. CASE c < 128
  <2>1. n = 1
    BY <1>4
  <2>2. mark = 0
    BY <2>1
  <2> HIDE DEF n, mark
  <2>3. byte(1) = c
    BY <1>2, <1>3, <2>1, <2>2
  <2> HIDE DEF byte
  <2>4. code = <<c>>
    BY <2>1, <2>3
  <2> HIDE DEF code
  <2>5. Utf8(c) = <<c>>
    BY <1>4 DEF Utf8
  <2> QED
    BY <1>1, <2>4, <2>5
<1>5. CASE c >= 128 /\ c < 2048
  <2>1. n = 2
    BY <1>5
  <2>2. mark = 192
    BY <2>1
  <2> HIDE DEF n, mark
  <2>3. byte(1) = First(192, c, 64)
    BY <1>2, <1>3, <2>1, <2>2 DEF First
  <2>4. byte(2) = Rest(c, 1)
    BY <1>2, <1>3, <2>1, <2>2 DEF Rest
  <2> HIDE DEF byte
  <2>5. code = <<First(192, c, 64), Rest(c, 1)>>
    BY <2>1, <2>3, <2>4
  <2> HIDE DEF code
  <2>6. Utf8(c) = <<First(192, c, 64), Rest(c, 1)>>
    BY <1>5 DEF Utf8
  <2> QED
    BY <1>1, <2>5, <2>6
<1>6. CASE c >= 2048 /\ c < 65536
  <2>1. n = 3
    BY <1>6
  <2>2. mark = 224
    BY <2>1
  <2> HIDE DEF n, mark
  <2>3. byte(1) = First(224, c, 4096)
    BY <1>2, <1>3, <2>1, <2>2 DEF First
  <2>4. byte(2) = Rest(c, 64)
    BY <1>2, <1>3, <2>1, <2>2 DEF Rest
  <2>5. byte(3) = Rest(c, 1)
    BY <1>2, <1>3, <2>1, <2>2 DEF Rest
  <2> HIDE DEF byte
  <2>6. code = <<First(224, c, 4096), Rest(c, 64), Rest(c, 1)>>
    BY <2>1, <2>3, <2>4, <2>5
  <2> HIDE DEF code
  <2>7. Utf8(c) = <<First(224, c, 4096), Rest(c, 64), Rest(c, 1)>>
    BY <1>6 DEF Utf8
  <2> QED
    BY <1>1, <2>6, <2>7
<1>7. CASE c >= 65536
  <2>1. n = 4
    BY <1>7
  <2>2. mark = 240
    BY <2>1
  <2> HIDE DEF n, mark
  <2>3. byte(1) = First(240, c, 262144)
    BY <1>2, <1>3, <2>1, <2>2 DEF First
  <2>4. byte(2) = Rest(c, 4096)
    BY <1>2, <1>3, <2>1, <2>2 DEF Rest
  <2>5. byte(3) = Rest(c, 64)
    BY <1>2, <1>3, <2>1, <2>2 DEF Rest
  <2>6. byte(4) = Rest(c, 1)
    BY <1>2, <1>3, <2>1, <2>2 DEF Rest
  <2> HIDE DEF byte
  <2>7. code = <<First(240, c, 262144), Rest(c, 4096), Rest(c, 64), Rest(c, 1)>>
    BY <2>1, <2>3, <2>4, <2>5, <2>6
  <2> HIDE DEF code
  <2>8. Utf8(c) = <<First(240, c, 262144), Rest(c, 4096), Rest(c, 64), Rest(c, 1)>>
    BY <1>7 DEF Utf8
  <2> QED
    BY <1>1, <2>7, <2>8
<1> QED
  BY <1>4, <1>5, <1>6, <1>7

(* A literal is a code unit of six bytes, or a pair of twelve: what counts   *)
(* for its encoding, and that digits are behind its \u.                    *)
LEMMA LiteralFits ==
    ASSUME Typed, pc = "decode", NEW p \in 1..input_end, utf16_literal(p) # FAILED
    PROVE  LET literal == utf16_literal(p)
           IN  /\ literal.codepoint \in Nat /\ literal.codepoint <= LastCode
               /\ \/ literal.length = 6 /\ p + 6 <= input_end /\ literal.codepoint < FirstPair
                  \/ /\ literal.length = 12 /\ p + 12 <= input_end
                     /\ At(p + 6) = BACKSLASH
                     /\ \A k \in 2..5 : At(p + k) \in Digits /\ At(p + 6 + k) \in Digits
<1> DEFINE first == parse_hex4(p + 2)
           second == parse_hex4(p + 8)
<1>1. input_end \in Nat /\ input_end < Length /\ Length \in Nat
      /\ \A q \in 0..(Length - 1) : At(q) \in 0..255
  BY Buffer, SMT DEF Typed
<1>2. input_end - p >= 6 /\ p + 6 <= input_end
  BY <1>1, SMT DEF utf16_literal
<1>3. first \in Nat /\ first <= 65535 /\ (first # 0 => \A k \in 0..3 : At(p + 2 + k) \in Digits)
  <2>1. \A k \in 0..3 : At(p + 2 + k) \in 0..255
    BY <1>1, <1>2, SMT
  <2> QED
    BY <2>1, HexRange, SMT
<1> HIDE DEF first
<1>4. utf16_literal(p) = [length |-> LengthOf(first),
                         codepoint |-> IF first \in HighSurrogate THEN PairCode(first, second) ELSE first]
  BY SMT DEF utf16_literal, first
<1>5. CASE first \notin HighSurrogate
  <2>1. LengthOf(first) = 6
    BY <1>5, SMT DEF LengthOf
  <2>2. utf16_literal(p) = [length |-> 6, codepoint |-> first]
    BY <1>4, <1>5, <2>1, SMT
  <2>3. first < FirstPair /\ first <= LastCode
    BY <1>3, SMT DEF FirstPair, LastCode
  <2> QED
    BY <1>2, <1>3, <2>2, <2>3, SMT
<1>6. CASE first \in HighSurrogate
  <2>1. /\ input_end - (p + 6) >= 6 /\ Bytes(p + 6, 2) = <<BACKSLASH, 117>> /\ second \in LowSurrogate
        /\ utf16_literal(p) = [length |-> LengthOf(first), codepoint |-> PairCode(first, second)]
    BY <1>4, <1>6, SMT DEF utf16_literal, first
  <2>2. second \in Nat /\ second <= 65535 /\ \A k \in 0..3 : At(p + 8 + k) \in Digits
    <3>1. \A k \in 0..3 : At(p + 8 + k) \in 0..255
      BY <1>1, <2>1, SMT
    <3> QED
      BY <2>1, <3>1, HexRange, SMT DEF LowSurrogate
  <2> HIDE DEF second
  <2>3. PairCode(first, second) \in Nat /\ PairCode(first, second) <= LastCode
    BY <1>3, <2>2, SMT DEF PairCode, LastCode
  <2>4. LengthOf(first) = 12
    BY <1>6, SMT DEF LengthOf
  <2>5. At(p + 6) = BACKSLASH
    <3>1. Bytes(p + 6, 2)[1] = At(p + 6 + 1 - 1)
      BY DEF Bytes, SMT
    <3> QED
      BY <1>1, <2>1, <3>1, SMT
  <2>6. ASSUME NEW k \in 2..5 PROVE At(p + k) \in Digits /\ At(p + 6 + k) \in Digits
    <3>1. k - 2 \in 0..3 /\ p + 2 + (k - 2) = p + k /\ p + 8 + (k - 2) = p + 6 + k
      BY <1>1, SMT
    <3>2. first # 0
      BY <1>6, SMT DEF HighSurrogate
    <3> QED
      BY <1>3, <2>2, <3>1, <3>2, SMT
  <2> QED
    BY <1>1, <2>1, <2>3, <2>4, <2>5, <2>6, SMT
<1> QED
  BY <1>5, <1>6, SMT

(* The bytes of a character of the reading.                                 *)
LEMMA CharacterShape ==
    ASSUME input \in Inputs, NEW k \in 1..(Len(Reading) - 1)
    PROVE  Reading[k + 1].at < Length /\ Shaped(Reading[k].at, Reading[k + 1].at)
<1>1. PICK x, y : x = Reading[k] /\ y = Reading[k + 1]
  OBVIOUS
<1>2. Character(input.bytes, x, y)
  BY <1>1, ReadingIs, Zenon
<1>3. PICK p \in Nat : p = x.at
  <2>1. k \in 1..Len(Reading)
    BY ReadingIs
  <2> QED
    BY <1>1, <2>1, ReadingIs, Zenon
<1>4. PICK b : b = input.bytes
  OBVIOUS
<1>5. At(p) = b[p + 1] /\ At(p + 1) = b[p + 2] /\ Length = Len(b)
  <2>1. (p + 1) + 1 = p + 2
    OBVIOUS
  <2> QED
    BY <1>4, <2>1, Zenon DEF At, Length
<1>6. CASE Plain(b, x, y)
  <2>1. y.at = p + 1 /\ y.at < Len(b) /\ b[p + 1] \notin {QUOTE, BACKSLASH}
    BY <1>3, <1>6, Zenon DEF Plain
  <2> QED
    BY <1>1, <1>3, <1>5, <2>1, Zenon DEF Shaped
<1>7. CASE Short(b, x, y)
  <2>1. y.at = p + 2 /\ y.at < Len(b) /\ b[p + 1] = BACKSLASH /\ <<b[p + 2], x.code>> \in ShortEscapes
    BY <1>3, <1>7, Zenon DEF Short
  <2>2. PICK v : v = b[p + 2]
    OBVIOUS
  <2>3. v # 117
    <3>1. PICK c : c = x.code
      OBVIOUS
    <3>2. <<v, c>> \in ShortEscapes
      BY <2>1, <2>2, <3>1, Zenon
    <3> QED
      BY <3>2 DEF ShortEscapes, QUOTE, BACKSLASH
  <2>4. b[p + 2] # 117
    BY <2>2, <2>3
  <2> QED
    BY <1>1, <1>3, <1>5, <2>1, <2>4, Zenon DEF Shaped
<1>8. CASE Single(b, x, y)
  <2>1. y.at = p + 6 /\ Unit(b, p, x.code)
    BY <1>3, <1>8, Zenon DEF Single
  <2>2. /\ p + 6 < Length /\ At(p) = BACKSLASH /\ At(p + 1) = 117
        /\ \A i \in 2..5 : At(p + i) \in Digits
    BY <1>4, <2>1, UnitRead
  <2> QED
    BY <1>1, <1>3, <2>1, <2>2 DEF Shaped
<1>9. CASE Pair(b, x, y)
  <2>1. PICK h, l : y.at = p + 12 /\ Unit(b, p, h) /\ Unit(b, p + 6, l)
    BY <1>3, <1>9, Zenon DEF Pair
  <2>2. /\ At(p) = BACKSLASH /\ At(p + 1) = 117 /\ \A i \in 2..5 : At(p + i) \in Digits
    BY <1>4, <2>1, UnitRead
  <2>3. /\ (p + 6) + 6 < Length /\ At(p + 6) = BACKSLASH
        /\ \A i \in 2..5 : At((p + 6) + i) \in Digits
    <3>1. p + 6 \in Nat
      OBVIOUS
    <3> QED
      BY <1>4, <2>1, <3>1, UnitRead
  <2>4. ASSUME NEW i \in (2..5) \cup (8..11) PROVE At(p + i) \in Digits
    <3>1. CASE i \in 2..5
      BY <2>2, <3>1, Zenon
    <3>2. CASE i \in 8..11
      <4>1. i - 6 \in 2..5 /\ (p + 6) + (i - 6) = p + i
        BY <3>2
      <4>2. At((p + 6) + (i - 6)) \in Digits
        BY <2>3, <4>1, Zenon
      <4> QED
        BY <4>1, <4>2, Zenon
    <3> QED
      BY <3>1, <3>2
  <2>5. (p + 6) + 6 = p + 12
    OBVIOUS
  <2>6. Shaped(p, p + 12)
    BY <2>2, <2>3, <2>4, Zenon DEF Shaped
  <2> QED
    BY <1>1, <1>3, <2>1, <2>3, <2>5, <2>6
<1> QED
  BY <1>2, <1>4, <1>6, <1>7, <1>8, <1>9, Zenon DEF Character

(* The reading stays inside the buffer, its characters one behind the other. *)
LEMMA ReadingInside ==
    ASSUME input \in Inputs, NEW k \in 1..Len(Reading)
    PROVE  /\ Reading[k].at \in 1..(Length - 1) /\ Reading[k].at <= End.at
           /\ k # Len(Reading) => /\ k \in 1..(Len(Reading) - 1) /\ k + 1 \in 1..Len(Reading)
                                  /\ Reading[k].at < Reading[k + 1].at /\ Reading[k + 1].at <= End.at
                                  /\ Reading[k].at < End.at
<1>1. /\ Len(Reading) \in Nat /\ Len(Reading) >= 1 /\ End = Reading[Len(Reading)] /\ Reading[1].at = 1
      /\ \A j \in 1..Len(Reading) : Reading[j].at \in Nat
      /\ \A i \in 1..Len(Reading), j \in 1..Len(Reading) : j < i => Reading[j].at < Reading[i].at
  BY ReadingIs, Zenon
<1>2. ASSUME NEW j \in 1..Len(Reading) PROVE Reading[j].at <= End.at
  <2>1. CASE j = Len(Reading)
    BY <1>1, <2>1
  <2>2. CASE j # Len(Reading)
    <3>1. j < Len(Reading) /\ Len(Reading) \in 1..Len(Reading)
      BY <1>1, <2>2
    <3>2. Reading[j].at < Reading[Len(Reading)].at
      BY <1>1, <3>1, Zenon
    <3> QED
      BY <1>1, <3>1, <3>2
  <2> QED
    BY <2>1, <2>2
<1>3. Reading[k].at >= 1
  <2>1. CASE k = 1
    BY <1>1, <2>1
  <2>2. CASE k # 1
    <3>1. 1 < k /\ 1 \in 1..Len(Reading)
      BY <1>1, <2>2
    <3>2. Reading[1].at < Reading[k].at
      BY <1>1, <3>1, Zenon
    <3> QED
      BY <1>1, <3>2
  <2> QED
    BY <2>1, <2>2
<1>4. Reading[k].at < Length
  <2>1. CASE k = 1
    BY <1>1, <2>1, Buffer
  <2>2. CASE k # 1
    <3>1. k - 1 \in 1..(Len(Reading) - 1) /\ (k - 1) + 1 = k
      BY <1>1, <2>2
    <3>2. Reading[(k - 1) + 1].at < Length
      BY <3>1, CharacterShape, Zenon
    <3> QED
      BY <3>1, <3>2, Zenon
  <2> QED
    BY <2>1, <2>2
<1>5. ASSUME k # Len(Reading)
      PROVE  /\ k \in 1..(Len(Reading) - 1) /\ k + 1 \in 1..Len(Reading)
             /\ Reading[k].at < Reading[k + 1].at /\ Reading[k + 1].at <= End.at
             /\ Reading[k].at < End.at
  <2>1. k \in 1..(Len(Reading) - 1) /\ k + 1 \in 1..Len(Reading) /\ k < k + 1
    BY <1>1, <1>5
  <2>2. Reading[k].at < Reading[k + 1].at
    BY <1>1, <2>1, Zenon
  <2>3. Reading[k + 1].at <= End.at
    BY <1>2, <2>1, Zenon
  <2>4. Reading[k].at \in Nat /\ Reading[k + 1].at \in Nat /\ End.at \in Nat
    <3>1. Len(Reading) \in 1..Len(Reading)
      BY <1>1
    <3> QED
      BY <1>1, <2>1, <3>1, Zenon
  <2> QED
    BY <2>1, <2>2, <2>3, <2>4
<1> QED
  BY <1>1, <1>2, <1>3, <1>4, <1>5, Buffer

(* utf16_literal_to_utf8 takes the code units of a character, ...           *)
LEMMA LiteralOf ==
    ASSUME Typed, NEW x, NEW y, x.at \in Nat, x.code \in Nat, y.at <= input_end,
           Single(input.bytes, x, y) \/ Pair(input.bytes, x, y)
    PROVE  /\ At(x.at) = BACKSLASH /\ At(x.at + 1) = 117
           /\ utf16_literal(x.at) = [length |-> y.at - x.at, codepoint |-> x.code]
           /\ y.means = x.means \o Utf8(x.code)
<1>1. input \in Inputs /\ input_end \in Nat
  BY Buffer DEF Typed
<1>2. PICK p \in Nat : p = x.at
  OBVIOUS
<1>3. PICK c \in Nat : c = x.code
  OBVIOUS
<1>4. CASE Single(input.bytes, x, y)
  <2>1. /\ y.at = p + 6 /\ Unit(input.bytes, p, c) /\ c \notin HighSurrogate \cup LowSurrogate
        /\ y.means = x.means \o Utf8(c)
    BY <1>2, <1>3, <1>4, Zenon DEF Single
  <2>2. At(p) = BACKSLASH /\ At(p + 1) = 117 /\ parse_hex4(p + 2) = c
    BY <1>1, <2>1, UnitRead
  <2>3. input_end - p >= 6 /\ y.at - p = 6
    BY <1>1, <1>2, <2>1
  <2>4. LengthOf(c) = 6
    BY <2>1 DEF LengthOf
  <2>5. utf16_literal(p) = [length |-> 6, codepoint |-> c]
    <3>1. ~(input_end - p < 6) /\ c \notin HighSurrogate /\ c \notin LowSurrogate
      BY <1>1, <2>1, <2>3
    <3> QED
      BY <2>2, <2>4, <3>1, Zenon DEF utf16_literal
  <2> QED
    BY <1>2, <1>3, <2>1, <2>2, <2>3, <2>5
<1>5. CASE Pair(input.bytes, x, y)
  <2>1. PICK h \in HighSurrogate, l \in LowSurrogate :
          /\ y.at = p + 12 /\ Unit(input.bytes, p, h) /\ Unit(input.bytes, p + 6, l)
          /\ c = PairOf(h, l)
          /\ y.means = x.means \o Utf8(c)
    BY <1>2, <1>3, <1>5, Zenon DEF Pair
  <2>2. At(p) = BACKSLASH /\ At(p + 1) = 117 /\ parse_hex4(p + 2) = h
    BY <1>1, <2>1, UnitRead
  <2>3. At(p + 6) = BACKSLASH /\ At(p + 7) = 117 /\ parse_hex4(p + 8) = l
    <3>1. p + 6 \in Nat /\ (p + 6) + 1 = p + 7 /\ (p + 6) + 2 = p + 8
      OBVIOUS
    <3>2. At(p + 6) = BACKSLASH /\ At((p + 6) + 1) = 117 /\ parse_hex4((p + 6) + 2) = l
      BY <1>1, <2>1, <3>1, UnitRead
    <3> QED
      BY <3>1, <3>2
  <2>4. Bytes(p + 6, 2) = <<BACKSLASH, 117>>
    BY <2>3 DEF Bytes
  <2>5. input_end - p >= 6 /\ input_end - (p + 6) >= 6 /\ y.at - p = 12
    BY <1>1, <1>2, <2>1
  <2>6. PairCode(h, l) = c
    BY <2>1, PairRead
  <2>7. LengthOf(h) = 12 /\ h \notin LowSurrogate
    <3>1. h <= 56319
      BY DEF HighSurrogate
    <3>2. \A q \in LowSurrogate : q >= 56320
      BY DEF LowSurrogate
    <3>3. h \notin LowSurrogate
      BY <3>1, <3>2 DEF HighSurrogate
    <3> QED
      BY <3>3, Zenon DEF LengthOf
  <2>8. utf16_literal(p) = [length |-> 12, codepoint |-> c]
    <3>1. ~(input_end - p < 6)
      BY <1>1, <2>5
    <3> QED
      BY <2>1, <2>2, <2>3, <2>4, <2>5, <2>6, <2>7, <3>1, Zenon DEF utf16_literal
  <2> QED
    BY <1>2, <1>3, <2>1, <2>2, <2>5, <2>8
<1> QED
  BY <1>4, <1>5

(* ... and fails at a surrogate without its other half.                     *)
LEMMA LiteralWrong ==
    ASSUME Typed, input_end < Length, NEW p \in Nat, NEW c,
           Unit(input.bytes, p, c),
           \/ c \in LowSurrogate
           \/ c \in HighSurrogate /\ ~ \E l \in LowSurrogate : Unit(input.bytes, p + 6, l)
    PROVE  At(p) = BACKSLASH /\ At(p + 1) = 117 /\ utf16_literal(p) = FAILED
<1>1. input \in Inputs /\ input_end \in Nat /\ Length \in Nat
  BY Buffer DEF Typed
<1>2. At(p) = BACKSLASH /\ At(p + 1) = 117 /\ parse_hex4(p + 2) = c
  BY <1>1, UnitRead
<1>3. CASE c \in LowSurrogate
  BY <1>2, <1>3, Zenon DEF utf16_literal
<1>4. CASE c \in HighSurrogate /\ ~ \E l \in LowSurrogate : Unit(input.bytes, p + 6, l)
  <2>1. PICK l : l = parse_hex4(p + 8)
    OBVIOUS
  <2>2. ASSUME input_end - (p + 6) >= 6, Bytes(p + 6, 2) = <<BACKSLASH, 117>>, l \in LowSurrogate
        PROVE  FALSE
    <3>1. At(p + 6) = BACKSLASH /\ At((p + 6) + 1) = 117
      <4>1. Bytes(p + 6, 2)[1] = At((p + 6) + 1 - 1) /\ Bytes(p + 6, 2)[2] = At((p + 6) + 2 - 1)
        BY DEF Bytes
      <4>2. (p + 6) + 1 - 1 = p + 6 /\ (p + 6) + 2 - 1 = (p + 6) + 1
        OBVIOUS
      <4> QED
        BY <2>2, <4>1, <4>2
    <3>2. (p + 6) + 6 < Length /\ p + 6 \in Nat /\ (p + 6) + 2 = p + 8
      BY <1>1, <2>2
    <3>3. l # 0
      BY <2>2 DEF LowSurrogate
    <3>4. parse_hex4((p + 6) + 2) = l
      BY <2>1, <3>2
    <3>5. Unit(input.bytes, p + 6, l)
      BY <1>1, <3>1, <3>2, <3>3, <3>4, UnitWritten
    <3> QED
      BY <1>4, <2>2, <3>5, Zenon
  <2> QED
    BY <1>2, <1>4, <2>1, <2>2, Zenon DEF utf16_literal
<1> QED
  BY <1>2, <1>3, <1>4

-----------------------------------------------------------------------------
(* The two passes. *)

(* The first pass counts the escape sequences: one more counts from behind  *)
(* its backslash on.                                                        *)
LEMMA CountsStep ==
    ASSUME Typed, ScanCharacter, NEW c \in [Nat -> Nat], Counts(c)
    PROVE  \E b \in [Nat -> Nat] : Counts(b)' /\ b[1] = 0
<1>1. PICK e \in Nat : e = input_end /\ e >= 1
  BY Buffer DEF Typed
<1>2. \A p : At(p)' = At(p)
  BY DEF ScanCharacter, At
<1>3. CASE At(e) # BACKSLASH
  <2>1. input_end' = e + 1 /\ skipped_bytes' = skipped_bytes
    BY <1>1, <1>3 DEF ScanCharacter
  <2>2. ASSUME NEW p \in 1..e, At(p) # BACKSLASH PROVE c[p + 1] = c[p]
    <3>1. CASE p = e
      BY <1>1, <3>1 DEF Counts
    <3>2. CASE p # e
      BY <1>1, <2>2, <3>2 DEF Counts
    <3> QED
      BY <3>1, <3>2
  <2>3. \A p \in Nat : p >= e => c[p] = skipped_bytes
    BY <1>1 DEF Counts
  <2>4. ASSUME NEW p \in 1..(e + 1) PROVE skipped_bytes <= c[p] + ((e + 1) - p)
    <3>1. CASE p = e + 1
      BY <1>1, <2>3, <3>1 DEF Typed
    <3>2. CASE p # e + 1
      <4>1. p \in 1..e /\ c[p] \in Nat
        BY <1>1, <3>2
      <4>2. skipped_bytes <= c[p] + (e - p) /\ skipped_bytes \in Nat
        BY <1>1, <4>1, Zenon DEF Typed, Counts
      <4> QED
        BY <1>1, <4>1, <4>2
    <3> QED
      BY <3>1, <3>2
  <2>5. c[1] = 0 /\ \A p \in Nat : c[p] <= c[p + 1] /\ c[p + 2] <= c[p] + 1
    BY DEF Counts
  <2>6. (e + 1) - 1 = e
    BY <1>1
  <2> QED
    BY <1>2, <2>1, <2>2, <2>3, <2>4, <2>5, <2>6, Zenon DEF Counts
<1>4. CASE At(e) = BACKSLASH
  <2>1. input_end' = e + 2 /\ skipped_bytes' = skipped_bytes + 1 /\ skipped_bytes \in Nat
    BY <1>1, <1>4 DEF ScanCharacter, Skipped, Typed
  <2> DEFINE b == [p \in Nat |-> IF p <= e THEN c[p] ELSE c[p] + 1]
  <2>2. /\ b \in [Nat -> Nat]
        /\ \A p \in Nat : p <= e => b[p] = c[p]
        /\ \A p \in Nat : p > e => b[p] = skipped_bytes + 1
        /\ \A p \in Nat : p >= e - 1 => c[p] = skipped_bytes
    BY <1>1 DEF Counts
  <2> HIDE DEF b
  <2>3. b[1] = 0
    BY <1>1, <2>2 DEF Counts
  <2>4. ASSUME NEW p \in Nat PROVE b[p] <= b[p + 1] /\ b[p + 2] <= b[p] + 1
    <3>1. c[p] <= c[p + 1] /\ c[p + 2] <= c[p] + 1 /\ c[p] \in Nat /\ c[p + 1] \in Nat /\ c[p + 2] \in Nat
      BY DEF Counts
    <3>2. CASE p + 2 <= e
      BY <1>1, <2>2, <3>1, <3>2
    <3>3. CASE p + 2 > e
      BY <1>1, <2>1, <2>2, <3>1, <3>3
    <3> QED
      BY <1>1, <3>2, <3>3
  <2>5. ASSUME NEW p \in 1..(e + 1), At(p) # BACKSLASH PROVE b[p + 1] = b[p]
    <3>1. CASE p = e + 1
      BY <1>1, <2>2, <3>1
    <3>2. CASE p # e + 1
      <4>1. p # e
        BY <1>4, <2>5
      <4>2. p \in 1..(e - 1) /\ p + 1 <= e
        BY <1>1, <3>2, <4>1
      <4>3. c[p + 1] = c[p]
        BY <1>1, <2>5, <4>2 DEF Counts
      <4> QED
        BY <1>1, <2>2, <4>2, <4>3
    <3> QED
      BY <3>1, <3>2
  <2>6. \A p \in Nat : p >= e + 1 => b[p] = skipped_bytes + 1
    BY <1>1, <2>2
  <2>7. ASSUME NEW p \in 1..(e + 2) PROVE skipped_bytes + 1 <= b[p] + ((e + 2) - p)
    <3>1. CASE p > e
      BY <1>1, <2>1, <2>2, <3>1
    <3>2. CASE p <= e
      <4>1. skipped_bytes <= c[p] + (e - p) /\ c[p] \in Nat /\ b[p] = c[p]
        BY <1>1, <2>2, <3>2 DEF Counts
      <4> QED
        BY <1>1, <2>1, <4>1
    <3> QED
      BY <1>1, <3>1, <3>2
  <2>8. (e + 2) - 1 = e + 1
    BY <1>1
  <2> QED
    BY <1>2, <2>1, <2>2, <2>3, <2>4, <2>5, <2>6, <2>7, <2>8, Zenon DEF Counts
<1> QED
  BY <1>3, <1>4

(* What the second pass writes for what it reads.                           *)
LEMMA Written ==
    ASSUME Typed, CopyCharacter \/ DecodeEscape \/ DecodeUtf16
    PROVE  /\ pc = "decode" /\ input_pointer < input_end
           /\ input' = input /\ input_end' = input_end /\ skipped_bytes' = skipped_bytes
           /\ room' = room /\ pc' = pc /\ short' = short
           /\ output' \in Seq(0..255)
           /\ \E d, n \in Nat : /\ Becomes(d, n)
                               /\ input_pointer' = input_pointer + d /\ Len(output') = Len(output) + n
<1>1. /\ input \in Inputs /\ input_pointer \in 1..Length /\ input_end \in 1..Length
      /\ output \in Seq(0..255)
  BY DEF Typed
<1>2. Length \in Nat /\ \A p \in 0..(Length - 1) : At(p) \in 0..255
  BY <1>1, Buffer
<1>3. pc = "decode" /\ input_pointer < input_end
  BY Zenon DEF CopyCharacter, DecodeEscape, DecodeUtf16, Decoding
<1>4. ASSUME NEW bytes \in Seq(0..255), NEW d \in Nat, Write(bytes, d), Becomes(d, Len(bytes))
      PROVE  /\ input' = input /\ input_end' = input_end /\ skipped_bytes' = skipped_bytes
             /\ room' = room /\ pc' = pc /\ short' = short
             /\ output' \in Seq(0..255)
             /\ \E k, n \in Nat : /\ Becomes(k, n)
                                 /\ input_pointer' = input_pointer + k /\ Len(output') = Len(output) + n
  <2>1. /\ input' = input /\ input_end' = input_end /\ skipped_bytes' = skipped_bytes
        /\ room' = room /\ pc' = pc /\ short' = short
        /\ output' = output \o bytes /\ input_pointer' = input_pointer + d
    BY <1>4, Zenon DEF Write
  <2>2. output \o bytes \in Seq(0..255) /\ Len(output \o bytes) = Len(output) + Len(bytes) /\ Len(bytes) \in Nat
    BY <1>1
  <2>3. Len(output') = Len(output) + Len(bytes)
    BY <2>1, <2>2, Zenon
  <2>4. output' \in Seq(0..255)
    BY <2>1, <2>2, Zenon
  <2>5. \E k, n \in Nat : /\ Becomes(k, n)
                         /\ input_pointer' = input_pointer + k /\ Len(output') = Len(output) + n
    <3>1. Len(bytes) \in Nat
      BY <2>2
    <3> WITNESS d \in Nat, Len(bytes) \in Nat
    <3> QED
      BY <1>4, <2>1, <2>3, Zenon
  <2> QED
    BY <2>1, <2>4, <2>5, Zenon
<1>5. CASE CopyCharacter
  <2>1. PICK b \in 0..255 : b = At(input_pointer)
    <3>1. input_pointer \in 0..(Length - 1)
      BY <1>1, <1>2, <1>3
    <3> QED
      BY <1>2, <3>1, Zenon
  <2>2. Write(<<b>>, 1) /\ At(input_pointer) # BACKSLASH
    BY <1>5, <2>1, Zenon DEF CopyCharacter
  <2>3. PICK bytes : bytes = <<b>>
    OBVIOUS
  <2>4. Write(bytes, 1)
    BY <2>2, <2>3, Zenon
  <2>5. bytes \in Seq(0..255) /\ Len(bytes) = 1 /\ 1 \in Nat
    BY <2>3
  <2>6. Becomes(1, Len(bytes))
    BY <2>2, <2>5 DEF Becomes
  <2> QED
    BY <1>3, <1>4, <2>4, <2>5, <2>6, Zenon
<1>6. CASE DecodeEscape
  <2>1. \A e \in DOMAIN Escapes : Escapes[e] \in 0..255
    BY DEF Escapes
  <2>2. At(input_pointer) = BACKSLASH /\ Escaped \in DOMAIN Escapes /\ Write(<<Escapes[Escaped]>>, 2)
    BY <1>6, Zenon DEF DecodeEscape
  <2>3. PICK b \in 0..255 : b = Escapes[Escaped]
    BY <2>1, <2>2, Zenon
  <2>4. PICK bytes : bytes = <<b>>
    OBVIOUS
  <2>5. Write(bytes, 2)
    BY <2>2, <2>3, <2>4, Zenon
  <2>6. bytes \in Seq(0..255) /\ Len(bytes) = 1 /\ 2 \in Nat
    BY <2>4
  <2>7. Becomes(2, Len(bytes))
    BY <2>2, <2>6 DEF Becomes
  <2> QED
    BY <1>3, <1>4, <2>5, <2>6, <2>7, Zenon
<1>7. CASE DecodeUtf16
  <2>1. PICK c, d : /\ utf16_literal(input_pointer) # FAILED
                    /\ c = utf16_literal(input_pointer).codepoint
                    /\ d = utf16_literal(input_pointer).length
                    /\ At(input_pointer) = BACKSLASH /\ Escaped = 117 /\ Write(utf8(c), d)
    BY <1>7, Zenon DEF DecodeUtf16
  <2>2. input_pointer \in 1..input_end
    BY <1>1, <1>2, <1>3
  <2>3. /\ c \in Nat /\ c <= LastCode
        /\ \/ d = 6 /\ input_pointer + 6 <= input_end /\ c < FirstPair
           \/ /\ d = 12 /\ input_pointer + 12 <= input_end
              /\ At(input_pointer + 6) = BACKSLASH
              /\ \A k \in 2..5 : /\ At(input_pointer + k) \in Digits
                                 /\ At(input_pointer + 6 + k) \in Digits
    BY <1>3, <2>1, <2>2, LiteralFits, Zenon
  <2>4. PICK bytes : bytes = utf8(c)
    OBVIOUS
  <2>5. /\ bytes \in Seq(0..255) /\ Len(bytes) \in 1..4
        /\ c < FirstPair => Len(bytes) <= 3
    BY <2>3, <2>4, EncodedLength, Zenon
  <2>6. d \in Nat /\ Write(bytes, d)
    <3>1. 6 \in Nat /\ 12 \in Nat
      OBVIOUS
    <3> QED
      BY <2>1, <2>3, <2>4, <3>1, Zenon
  <2>7. Becomes(d, Len(bytes))
    <3>1. \A m \in 1..4 : m <= 4
      OBVIOUS
    <3> QED
      BY <2>1, <2>3, <2>5, <3>1, Zenon DEF Becomes, Escaped
  <2> QED
    BY <1>3, <1>4, <2>5, <2>6, <2>7, Zenon
<1> QED
  BY <1>5, <1>6, <1>7, Zenon

(* The types follow, and the second pass goes at most one byte too far.      *)
LEMMA TypedStep == Typed /\ [Next]_vars => Typed'
<1> SUFFICES ASSUME Typed, [Next]_vars PROVE Typed'
  OBVIOUS
<1>1. /\ input \in Inputs /\ input_pointer \in 1..Length /\ input_end \in 1..Length
      /\ skipped_bytes \in Nat /\ skipped_bytes < input_end /\ room \in Nat /\ output \in Seq(0..255)
      /\ short \in BOOLEAN
  BY DEF Typed
<1>2. Length \in Nat /\ At(Length - 1) = 0 /\ \A p \in 0..(Length - 1) : At(p) \in 0..255
  BY <1>1, Buffer
<1>3. input' = input /\ Length' = Length /\ \A p : At(p)' = At(p)
  <2>1. input' = input
    BY Zenon DEF Next, ScanCharacter, Allocate, ScanFails, CopyCharacter, DecodeEscape, DecodeUtf16,
       DecodeFails, DecodeEnds, Write, vars
  <2> QED
    BY <2>1 DEF Length, At
<1>4. CASE ScanCharacter
  <2>1. /\ pc = "scan" /\ input_end < Length /\ input_pointer = 1 /\ output = <<>>
        /\ IF At(input_end) = BACKSLASH
           THEN input_end' = input_end + 2 /\ skipped_bytes' = skipped_bytes + 1
           ELSE input_end' = input_end + 1 /\ skipped_bytes' = skipped_bytes
        /\ input_pointer' = input_pointer /\ output' = output /\ room' = room /\ pc' = pc /\ short' = short
    BY <1>4, Zenon DEF Typed, ScanCharacter, Scanning, Skipped
  <2>2. input_end' \in 1..Length /\ skipped_bytes' \in Nat /\ skipped_bytes' < input_end'
    <3>1. At(input_end) = BACKSLASH => input_end # Length - 1
      BY <1>2 DEF BACKSLASH
    <3> QED
      BY <1>1, <1>2, <2>1, <3>1
  <2> QED
    BY <1>1, <1>3, <2>1, <2>2 DEF Typed
<1>5. CASE Allocate
  <2>1. /\ pc = "scan" /\ input_pointer = 1 /\ input_end < Length /\ At(input_end) = QUOTE
        /\ input_pointer' = input_pointer /\ output' = output /\ skipped_bytes' = skipped_bytes
        /\ input_end' = input_end
    BY <1>5, Zenon DEF Typed, Allocate
  <2>2. \/ pc' = "decode" /\ room' = input_end - skipped_bytes + 1 /\ short' = short
        \/ pc' = "failed" /\ short' = TRUE /\ room' = room
    BY <1>5, Zenon DEF Allocate
  <2>3. input_end - skipped_bytes + 1 \in Nat /\ input_pointer <= input_end + 1
    BY <1>1, <1>2, <2>1
  <2>4. short' \in BOOLEAN
    BY <1>1, <2>2, Zenon
  <2>5. CASE pc' = "decode" /\ room' = input_end - skipped_bytes + 1
    BY <1>1, <1>3, <2>1, <2>3, <2>4, <2>5 DEF Typed
  <2>6. CASE pc' = "failed" /\ room' = room
    BY <1>1, <1>3, <2>1, <2>4, <2>6 DEF Typed
  <2> QED
    BY <2>2, <2>5, <2>6, Zenon
<1>6. CASE ScanFails \/ DecodeFails
  <2>1. /\ pc' = "failed"
        /\ input_pointer' = input_pointer /\ output' = output /\ skipped_bytes' = skipped_bytes
        /\ input_end' = input_end /\ room' = room /\ short' = short
    BY <1>6, Zenon DEF ScanFails, DecodeFails
  <2> QED
    BY <1>1, <1>3, <2>1 DEF Typed
<1>7. CASE CopyCharacter \/ DecodeEscape \/ DecodeUtf16
  <2>1. /\ pc = "decode" /\ input_pointer < input_end
        /\ input_end' = input_end /\ skipped_bytes' = skipped_bytes
        /\ room' = room /\ pc' = pc /\ short' = short /\ output' \in Seq(0..255)
    BY <1>7, Written
  <2>2. \E d \in Nat : /\ input_pointer' = input_pointer + d
                       /\ d \in {1, 2} \/ (d \in {6, 12} /\ input_pointer + d <= input_end)
    BY <1>7, Written, SMT DEF Becomes
  <2>3. /\ input_end < Length /\ At(input_end) = QUOTE /\ room = input_end - skipped_bytes + 1
    BY <2>1 DEF Typed
  <2>4. input_pointer' \in 1..Length /\ input_pointer' <= input_end + 1
    BY <1>1, <1>2, <2>1, <2>2, <2>3
  <2> QED
    BY <1>1, <1>3, <2>1, <2>3, <2>4 DEF Typed
<1>8. CASE DecodeEnds
  <2>1. /\ pc = "decode" /\ pc' = "parsed" /\ output' = Append(output, 0)
        /\ input_pointer' = input_pointer /\ skipped_bytes' = skipped_bytes
        /\ input_end' = input_end /\ room' = room /\ short' = short
    BY <1>8, Zenon DEF DecodeEnds
  <2>2. output' \in Seq(0..255)
    BY <1>1, <2>1
  <2> QED
    BY <1>1, <1>3, <2>1, <2>2 DEF Typed
<1>9. CASE UNCHANGED vars
  BY <1>9 DEF vars, Typed, Length, At
<1> QED
  BY <1>4, <1>5, <1>6, <1>7, <1>8, <1>9, Zenon DEF Next

(* The second pass leaves the counts alone.                                 *)
LEMMA CountsKept ==
    ASSUME NEW c, Counts(c), input' = input, input_end' = input_end, skipped_bytes' = skipped_bytes
    PROVE  Counts(c)'
<1>1. \A p : At(p)' = At(p)
  BY DEF At
<1> QED
  BY <1>1, Zenon DEF Counts

(* There is room for one byte more than the second pass has written.         *)
LEMMA RoomLeft ==
    ASSUME Typed, NEW c \in [Nat -> Nat], Counts(c), Shorter(c), pc = "decode"
    PROVE  Len(output) + 1 <= room
<1>1. /\ Len(output) + c[input_pointer] <= input_pointer - 1 /\ Len(output) \in Nat
      /\ input_pointer \in Nat /\ c[input_pointer] \in Nat
  BY Buffer DEF Typed, Shorter
<1>2. /\ room = input_end - skipped_bytes + 1 /\ input_end \in Nat /\ skipped_bytes \in Nat
      /\ input_pointer >= 1 /\ input_pointer <= input_end + 1
  BY Buffer DEF Typed
<1>3. CASE input_pointer <= input_end
  <2>1. input_pointer \in 1..input_end
    BY <1>1, <1>2, <1>3
  <2>2. skipped_bytes <= c[input_pointer] + (input_end - input_pointer)
    BY <2>1, Zenon DEF Counts
  <2> QED
    BY <1>1, <1>2, <2>2
<1>4. CASE input_pointer > input_end
  <2>1. input_pointer >= input_end - 1
    BY <1>1, <1>2, <1>4
  <2>2. c[input_pointer] = skipped_bytes
    BY <1>1, <2>1, Zenon DEF Counts
  <2> QED
    BY <1>1, <1>2, <2>2
<1> QED
  BY <1>1, <1>2, <1>3, <1>4

(* What is written stays shorter than what is read.                          *)
LEMMA FittingStep == Typed /\ Fitting /\ [Next]_vars => Fitting'
<1> SUFFICES ASSUME Typed, Fitting, [Next]_vars PROVE Fitting'
  OBVIOUS
<1>1. PICK c \in [Nat -> Nat] : Counts(c) /\ Shorter(c)
  BY Zenon DEF Fitting
<1>2. /\ input_end \in Nat /\ input_pointer \in Nat /\ skipped_bytes \in Nat /\ Len(output) \in Nat
      /\ output \in Seq(0..255) /\ (pc = "scan" => input_pointer = 1 /\ output = <<>>)
  BY Buffer DEF Typed
<1>3. ASSUME NEW b \in [Nat -> Nat], b[1] = 0, pc = "scan", input_pointer' = input_pointer,
             output' = output, pc' # "parsed"
      PROVE  Shorter(b)'
  <2>1. Len(output') = 0 /\ input_pointer' = 1
    BY <1>2, <1>3
  <2> QED
    BY <1>3, <2>1 DEF Shorter
<1>4. CASE ScanCharacter
  <2>1. PICK b \in [Nat -> Nat] : Counts(b)' /\ b[1] = 0
    BY <1>1, <1>4, CountsStep
  <2>2. pc = "scan" /\ pc' = "scan" /\ input_pointer' = input_pointer /\ output' = output
    BY <1>4, Zenon DEF ScanCharacter, Scanning
  <2>3. Shorter(b)'
    BY <1>3, <2>1, <2>2
  <2> QED
    BY <2>1, <2>3, Zenon DEF Fitting
<1>5. CASE Allocate
  <2>1. /\ pc = "scan" /\ pc' \in {"decode", "failed"} /\ input_pointer' = input_pointer /\ output' = output
        /\ input' = input /\ input_end' = input_end /\ skipped_bytes' = skipped_bytes
    BY <1>5, Zenon DEF Allocate
  <2>2. c[1] = 0
    BY <1>1, Zenon DEF Counts
  <2>3. Shorter(c)'
    BY <1>3, <2>1, <2>2
  <2>4. Counts(c)'
    BY <1>1, <2>1, CountsKept, Zenon
  <2> QED
    BY <2>3, <2>4, Zenon DEF Fitting
<1>6. CASE ScanFails \/ DecodeFails
  <2>1. /\ pc' = "failed" /\ input' = input /\ input_end' = input_end /\ skipped_bytes' = skipped_bytes
    BY <1>6, Zenon DEF ScanFails, DecodeFails
  <2>2. Shorter(c)'
    BY <2>1 DEF Shorter
  <2>3. Counts(c)'
    BY <1>1, <2>1, CountsKept, Zenon
  <2> QED
    BY <2>2, <2>3, Zenon DEF Fitting
<1>7. CASE CopyCharacter \/ DecodeEscape \/ DecodeUtf16
  <2>1. /\ pc = "decode" /\ pc' = pc /\ input_pointer < input_end
        /\ input' = input /\ input_end' = input_end /\ skipped_bytes' = skipped_bytes
    BY <1>7, Written
  <2>2. PICK d, n \in Nat : /\ Becomes(d, n)
                            /\ input_pointer' = input_pointer + d /\ Len(output') = Len(output) + n
    BY <1>7, Written, Zenon
  <2>3. PICK p \in Nat : p = input_pointer /\ p >= 1 /\ p < input_end
    BY <1>2, <2>1 DEF Typed
  <2>4. \A q \in Nat : c[q] \in Nat /\ c[q + 1] \in Nat /\ c[q + 2] \in Nat /\ c[q + 2] <= c[q] + 1
    BY <1>1 DEF Counts
  <2>5. \A q \in Nat : (q + 2) + 2 = q + 4 /\ (q + 4) + 2 = q + 6
    OBVIOUS
  <2>6. ASSUME NEW q \in Nat PROVE c[q + 6] <= c[q] + 3 /\ c[q + 6] \in Nat
    <3>1. q + 2 \in Nat /\ q + 4 \in Nat
      OBVIOUS
    <3>2. /\ c[q + 2] <= c[q] + 1 /\ c[q + 4] <= c[q + 2] + 1 /\ c[q + 6] <= c[q + 4] + 1
          /\ c[q] \in Nat /\ c[q + 2] \in Nat /\ c[q + 4] \in Nat /\ c[q + 6] \in Nat
      BY <2>4, <2>5, <3>1
    <3> QED
      BY <3>2
  <2>7. PICK m \in Nat, x \in Nat : m = Len(output) /\ x = c[p] /\ m + x <= p - 1
    <3>1. Len(output) + c[p] <= p - 1
      BY <1>1, <2>1, <2>3, Zenon DEF Shorter
    <3>2. c[p] \in Nat
      BY <2>3, <2>4, Zenon
    <3> QED
      BY <1>2, <3>1, <3>2, Zenon
  <2>8. Len(output) + n + c[p + d] <= p + d - 1
    <3>1. PICK y \in Nat : y = c[p + d]
      BY <2>3
    <3> SUFFICES m + n + y <= p + d - 1
      BY <2>7, <3>1, Zenon
    <3>2. CASE d = 1 /\ n = 1 /\ At(p) # BACKSLASH
      <4>1. p \in 1..(input_end - 1)
        BY <1>2, <2>3
      <4>2. y = x
        BY <1>1, <3>1, <2>7, <3>2, <4>1, Zenon DEF Counts
      <4> QED
        BY <2>3, <2>7, <3>2, <4>2
    <3>3. CASE d = 2 /\ n = 1
      <4>1. y <= x + 1
        BY <2>3, <2>4, <2>7, <3>1, <3>3, Zenon
      <4> QED
        BY <2>3, <2>7, <3>3, <4>1
    <3>4. CASE d = 6 /\ n <= 3
      <4>1. y <= x + 3
        BY <2>3, <2>6, <2>7, <3>1, <3>4, Zenon
      <4> QED
        BY <2>2, <2>3, <2>7, <3>4, <4>1
    <3>5. CASE d = 12 /\ n <= 4
      <4>1. p + 6 \in Nat /\ (p + 6) + 6 = p + 12
        BY <2>3
      <4>2. PICK z \in Nat : z <= x + 3 /\ y <= z + 3
        BY <2>3, <2>6, <2>7, <3>1, <3>5, <4>1, Zenon
      <4> QED
        BY <2>2, <2>3, <2>7, <3>5, <4>2
    <3> QED
      BY <2>2, <2>3, <3>2, <3>3, <3>4, <3>5, Zenon DEF Becomes
  <2>9. Shorter(c)'
    BY <2>1, <2>2, <2>3, <2>8 DEF Shorter
  <2>10. Counts(c)'
    BY <1>1, <2>1, CountsKept, Zenon
  <2> QED
    BY <2>9, <2>10, Zenon DEF Fitting
<1>8. CASE DecodeEnds
  <2>1. /\ pc = "decode" /\ pc' = "parsed" /\ output' = Append(output, 0) /\ room' = room
        /\ input' = input /\ input_end' = input_end /\ skipped_bytes' = skipped_bytes
    BY <1>8, Zenon DEF DecodeEnds
  <2>2. Len(output) + 1 <= room
    BY <1>1, <2>1, RoomLeft
  <2>3. Len(output') = Len(output) + 1
    BY <1>2, <2>1
  <2>4. Shorter(c)'
    BY <2>1, <2>2, <2>3 DEF Shorter
  <2>5. Counts(c)'
    BY <1>1, <2>1, CountsKept, Zenon
  <2> QED
    BY <2>4, <2>5, Zenon DEF Fitting
<1>9. CASE UNCHANGED vars
  <2>1. /\ input' = input /\ input_end' = input_end /\ skipped_bytes' = skipped_bytes
        /\ pc' = pc /\ output' = output /\ room' = room /\ input_pointer' = input_pointer
    BY <1>9 DEF vars
  <2>2. Counts(c)' /\ Shorter(c)'
    BY <1>1, <2>1, CountsKept, Zenon DEF Shorter
  <2> QED
    BY <2>2, Zenon DEF Fitting
<1> QED
  BY <1>4, <1>5, <1>6, <1>7, <1>8, <1>9, Zenon DEF Next

(* The quote that ends the first pass is the one that ends the reading, or  *)
(* behind a reading that ends without one.                                  *)
LEMMA Quoted ==
    ASSUME Typed, input_end < Length, At(input_end) = QUOTE, Reached(input_end)
    PROVE  IF IsString THEN input_end = End.at ELSE input_end > End.at
<1>1. input \in Inputs /\ input_end \in Nat /\ Length \in Nat /\ At(Length - 1) = 0
  BY Buffer DEF Typed
<1>2. PICK e \in Nat : e = input_end
  BY <1>1
<1>3. At(e) = QUOTE /\ QUOTE # BACKSLASH /\ \A d \in Digits : d # QUOTE
  BY <1>2 DEF QUOTE, BACKSLASH, Digits
<1>4. CASE \E k \in 1..Len(Reading) : e = Reading[k].at
  <2>1. PICK k \in 1..Len(Reading) : e = Reading[k].at
    BY <1>4
  <2>2. k = Len(Reading)
    <3>1. ASSUME k # Len(Reading) PROVE FALSE
      <4>1. k \in 1..(Len(Reading) - 1)
        BY <1>1, <3>1, ReadingInside
      <4>2. Shaped(e, Reading[k + 1].at)
        BY <1>1, <2>1, <4>1, CharacterShape
      <4> QED
        BY <1>3, <4>2, Zenon DEF Shaped
    <3> QED
      BY <3>1
  <2>3. e = End.at
    BY <1>1, <2>1, <2>2, ReadingIs
  <2>4. IsString
    <3>1. e < Length - 1
      BY <1>1, <1>2, <1>3 DEF QUOTE
    <3> QED
      BY <1>3, <2>3, <3>1, Zenon DEF IsString, Closes, At, Length
  <2> QED
    BY <1>2, <2>3, <2>4
<1>5. CASE \E k \in 1..(Len(Reading) - 1) : Within(e, k)
  <2>1. PICK k \in 1..(Len(Reading) - 1) : Within(e, k)
    BY <1>5
  <2>2. PICK p \in Nat : p = Reading[k].at
    BY <1>1, ReadingIs
  <2>3. PICK q \in Nat : q = Reading[k + 1].at
    BY <1>1, ReadingIs
  <2>4. Shaped(p, q)
    BY <1>1, <2>2, <2>3, CharacterShape
  <2>5. PICK i \in 2..11 : /\ e = p + i
                           /\ \/ q = p + 6 /\ i \in 2..5
                              \/ q = p + 12 /\ i \in (2..6) \cup (8..11)
    <3>1. \/ q = p + 6 /\ e - p \in 2..5
          \/ q = p + 12 /\ e - p \in (2..6) \cup (8..11)
      BY <2>1, <2>2, <2>3, Zenon DEF Within
    <3>2. e - p \in 2..11 /\ e = p + (e - p)
      BY <3>1
    <3> QED
      BY <3>1, <3>2, Zenon
  <2>6. \/ q = p + 6 /\ \A j \in 2..5 : At(p + j) \in Digits
        \/ q = p + 12 /\ At(p + 6) = BACKSLASH /\ \A j \in (2..5) \cup (8..11) : At(p + j) \in Digits
    <3>1. q # p + 1 /\ q # p + 2
      BY <2>5
    <3> QED
      BY <2>4, <3>1, Zenon DEF Shaped
  <2>7. At(p + i) \in Digits \/ At(p + i) = BACKSLASH
    <3>1. p + 6 # p + 12
      OBVIOUS
    <3>2. i \in (2..6) \cup (8..11) => i = 6 \/ i \in (2..5) \cup (8..11)
      OBVIOUS
    <3> QED
      BY <2>5, <2>6, <3>1, <3>2, Zenon
  <2> QED
    BY <1>3, <2>5, <2>7, Zenon
<1>6. CASE ~IsString /\ e > End.at
  BY <1>2, <1>6
<1> QED
  BY <1>2, <1>4, <1>5, <1>6, Zenon DEF Reached

(* The first pass goes from character to character, or stops inside a literal. *)
LEMMA ReachedStep ==
    ASSUME Typed, ScanCharacter, Reached(input_end)
    PROVE  Reached(input_end')
<1>1. /\ input \in Inputs /\ input_end \in Nat /\ Length \in Nat
      /\ input_end < Length /\ At(input_end) # QUOTE
  BY Buffer DEF Typed, ScanCharacter, Scanning
<1>2. PICK e \in Nat : e = input_end
  BY <1>1
<1>3. PICK n \in Nat : /\ n = input_end'
                       /\ IF At(e) = BACKSLASH THEN n = e + 2 ELSE n = e + 1
  BY <1>2 DEF ScanCharacter
<1>4. SUFFICES Reached(n)
  BY <1>3
<1>5. CASE \E k \in 1..Len(Reading) : e = Reading[k].at
  <2>1. PICK k \in 1..Len(Reading) : e = Reading[k].at
    BY <1>5
  <2>2. CASE k = Len(Reading)
    <3>1. e = End.at
      BY <1>1, <2>1, <2>2, ReadingIs
    <3>2. ~IsString
      BY <1>1, <1>2, <3>1, Zenon DEF IsString, Closes, At
    <3>3. n > End.at
      BY <1>3, <3>1
    <3> QED
      BY <3>2, <3>3, Zenon DEF Reached
  <2>3. CASE k # Len(Reading)
    <3>1. k \in 1..(Len(Reading) - 1) /\ k + 1 \in 1..Len(Reading)
      BY <1>1, <2>3, ReadingInside
    <3>2. PICK q \in Nat : q = Reading[k + 1].at
      BY <1>1, <3>1, ReadingIs
    <3>3. Shaped(e, q)
      BY <1>1, <2>1, <3>1, <3>2, CharacterShape
    <3>4. CASE n = q
      BY <3>1, <3>2, <3>4, Zenon DEF Reached
    <3>5. CASE n = e + 2 /\ (q = e + 6 \/ q = e + 12)
      <4>1. n - e \in 2..5 /\ n - e \in (2..6) \cup (8..11)
        BY <3>5
      <4>2. Within(n, k)
        BY <2>1, <3>2, <3>5, <4>1, Zenon DEF Within
      <4> QED
        BY <3>1, <4>2, Zenon DEF Reached
    <3> QED
      BY <1>3, <3>3, <3>4, <3>5, Zenon DEF Shaped
  <2> QED
    BY <2>2, <2>3
<1>6. CASE \E k \in 1..(Len(Reading) - 1) : Within(e, k)
  <2>1. PICK k \in 1..(Len(Reading) - 1) : Within(e, k)
    BY <1>6
  <2>2. k \in 1..Len(Reading) /\ k + 1 \in 1..Len(Reading)
    BY <1>1, ReadingIs
  <2>3. PICK p \in Nat : p = Reading[k].at
    BY <1>1, <2>2, ReadingIs
  <2>4. PICK q \in Nat : q = Reading[k + 1].at
    BY <1>1, <2>2, ReadingIs
  <2>5. Shaped(p, q)
    BY <1>1, <2>3, <2>4, CharacterShape
  <2>6. PICK i \in 2..11 : /\ e = p + i
                           /\ \/ q = p + 6 /\ i \in 2..5
                              \/ q = p + 12 /\ i \in (2..6) \cup (8..11)
    <3>1. \/ q = p + 6 /\ e - p \in 2..5
          \/ q = p + 12 /\ e - p \in (2..6) \cup (8..11)
      BY <2>1, <2>3, <2>4, Zenon DEF Within
    <3>2. e - p \in 2..11 /\ e = p + (e - p)
      BY <3>1
    <3> QED
      BY <3>1, <3>2, Zenon
  <2>7. \/ q = p + 6 /\ \A j \in 2..5 : At(p + j) \in Digits
        \/ q = p + 12 /\ At(p + 6) = BACKSLASH /\ \A j \in (2..5) \cup (8..11) : At(p + j) \in Digits
    <3>1. q # p + 1 /\ q # p + 2
      BY <2>6
    <3> QED
      BY <2>5, <3>1, Zenon DEF Shaped
  <2>8. \A d \in Digits : d # BACKSLASH
    BY DEF Digits, BACKSLASH
  <2>9. CASE i = 6
    <3>1. q = p + 12
      BY <2>6, <2>9
    <3>2. At(e) = BACKSLASH
      BY <2>6, <2>7, <2>9, <3>1
    <3>3. n - p = 8 /\ 8 \in (2..6) \cup (8..11)
      BY <1>3, <2>6, <2>9, <3>2
    <3>4. Within(n, k)
      BY <2>3, <2>4, <3>1, <3>3, Zenon DEF Within
    <3> QED
      BY <3>4, Zenon DEF Reached
  <2>10. CASE i # 6
    <3>1. At(p + i) \in Digits
      <4>1. p + 6 # p + 12 /\ (i \in (2..6) \cup (8..11) => i \in (2..5) \cup (8..11))
        BY <2>10
      <4> QED
        BY <2>6, <2>7, <4>1, Zenon
    <3>2. At(e) # BACKSLASH
      BY <2>6, <2>8, <3>1, Zenon
    <3>3. n = p + i + 1
      BY <1>3, <2>6, <3>2
    <3>4. CASE n = q
      BY <2>2, <2>4, <3>4, Zenon DEF Reached
    <3>5. CASE n # q
      <4>1. \/ q = p + 6 /\ n - p \in 2..5
            \/ q = p + 12 /\ n - p \in (2..6) \cup (8..11)
        BY <2>6, <2>10, <3>3, <3>5
      <4>2. Within(n, k)
        BY <2>3, <2>4, <4>1, Zenon DEF Within
      <4> QED
        BY <4>2, Zenon DEF Reached
    <3> QED
      BY <3>4, <3>5
  <2> QED
    BY <2>9, <2>10
<1>7. CASE ~IsString /\ e > End.at
  <2>1. End.at \in Nat
    <3>1. Len(Reading) \in 1..Len(Reading)
      BY <1>1, ReadingIs
    <3> QED
      BY <1>1, <3>1, ReadingIs
  <2>2. n > End.at
    BY <1>3, <1>7, <2>1
  <2> QED
    BY <1>7, <2>2, Zenon DEF Reached
<1> QED
  BY <1>2, <1>5, <1>6, <1>7, Zenon DEF Reached

(* Nothing is left to read of a string that the first pass could not close. *)
LEMMA Unclosed ==
    ASSUME Typed, input_end >= Length, Reached(input_end)
    PROVE  ~IsString
<1>1. input \in Inputs /\ Length \in Nat /\ input_end = Length
  BY Buffer DEF Typed
<1>2. \A k \in 1..Len(Reading) : Reading[k].at \in Nat /\ Reading[k].at < Length
  BY <1>1, ReadingInside
<1>3. ASSUME NEW k \in 1..(Len(Reading) - 1) PROVE ~Within(Length, k)
  <2>1. k \in 1..Len(Reading) /\ k + 1 \in 1..Len(Reading)
    BY <1>1, ReadingIs
  <2>2. PICK p \in Nat : p = Reading[k].at
    BY <1>2, <2>1
  <2>3. PICK q \in Nat : q = Reading[k + 1].at /\ q < Length
    BY <1>2, <2>1
  <2>4. ~(q = p + 6 /\ Length - p \in 2..5) /\ ~(q = p + 12 /\ Length - p \in (2..6) \cup (8..11))
    BY <1>1, <2>3
  <2> QED
    BY <2>2, <2>3, <2>4, Zenon DEF Within
<1>4. ASSUME NEW k \in 1..Len(Reading) PROVE Length # Reading[k].at
  BY <1>1, <1>2
<1> QED
  BY <1>1, <1>3, <1>4, Zenon DEF Reached

(* Where the second pass is in the reading.                                 *)
LEMMA Place ==
    ASSUME Typed, Measured, Follows, ~Loose, pc = "decode"
    PROVE  \E k \in 1..Len(Reading) :
             /\ input_pointer = Reading[k].at /\ output = Reading[k].means
             /\ k # Len(Reading) => Reading[k + 1].at <= input_end
             /\ k = Len(Reading) => End = Reading[k] /\ (IsString <=> input_pointer = input_end)
             /\ input_pointer <= input_end /\ (input_pointer = input_end => IsString)
<1>1. input \in Inputs /\ input_end \in Nat /\ Length \in Nat
  BY Buffer DEF Typed
<1>2. PICK k \in 1..Len(Reading) : input_pointer = Reading[k].at /\ output = Reading[k].means
  BY Zenon DEF Follows
<1>3. IF IsString THEN input_end = End.at ELSE input_end > End.at
  BY Zenon DEF Measured
<1>4. /\ Reading[k].at \in Nat /\ Reading[k].at <= End.at
      /\ k # Len(Reading) => k + 1 \in 1..Len(Reading) /\ Reading[k + 1].at <= End.at
      /\ k = Len(Reading) => End = Reading[k]
  <2>1. Reading[k].at \in Nat /\ (k = Len(Reading) => End = Reading[k])
    BY <1>1, ReadingIs, Zenon
  <2> QED
    BY <1>1, <2>1, ReadingInside
<1>5. End.at \in Nat
  <2>1. Len(Reading) \in 1..Len(Reading) /\ End = Reading[Len(Reading)]
    BY <1>1, ReadingIs
  <2> QED
    BY <1>1, <2>1, ReadingIs, Zenon
<1>6. k # Len(Reading) => Reading[k + 1].at \in Nat
  BY <1>1, <1>4, ReadingIs, Zenon
<1>7. k # Len(Reading) => Reading[k + 1].at <= input_end
  BY <1>1, <1>3, <1>4, <1>5, <1>6
<1>8. k = Len(Reading) => End = Reading[k] /\ (IsString <=> input_pointer = input_end)
  BY <1>1, <1>2, <1>3, <1>4, <1>5
<1>9. input_pointer <= input_end /\ (input_pointer = input_end => IsString)
  BY <1>1, <1>2, <1>3, <1>4, <1>5
<1> QED
  BY <1>2, <1>7, <1>8, <1>9, Zenon

(* The second pass stays at or before the quote.                            *)
LEMMA Follower ==
    ASSUME Typed, Measured, Follows, ~Loose, pc \in {"decode", "parsed"}
    PROVE  input_pointer <= input_end
<1>1. CASE pc = "decode"
  BY <1>1, Place, Zenon
<1>2. CASE pc = "parsed"
  BY <1>2, Zenon DEF Follows
<1> QED
  BY <1>1, <1>2

(* At a character, the second pass writes it and goes to the next.          *)
LEMMA CharacterDecoded ==
    ASSUME Typed, pc = "decode", NEW k \in 1..(Len(Reading) - 1),
           input_pointer = Reading[k].at, output = Reading[k].means,
           Reading[k + 1].at <= input_end
    PROVE  /\ ~DecodeFails
           /\ CopyCharacter \/ DecodeEscape \/ DecodeUtf16 =>
                input_pointer' = Reading[k + 1].at /\ output' = Reading[k + 1].means
<1>1. input \in Inputs
  BY DEF Typed
<1>2. PICK x, y : x = Reading[k] /\ y = Reading[k + 1]
  OBVIOUS
<1>3. Character(input.bytes, x, y)
  BY <1>1, <1>2, ReadingIs, Zenon
<1>4. PICK p \in Nat : p = x.at /\ p = input_pointer
  <2>1. k \in 1..Len(Reading)
    BY <1>1, ReadingIs
  <2> QED
    BY <1>1, <1>2, <2>1, ReadingIs, Zenon
<1>5. x.code \in Nat
  <2>1. k \in 1..Len(Reading)
    BY <1>1, ReadingIs
  <2> QED
    BY <1>1, <1>2, <2>1, ReadingIs, Zenon
<1>6. /\ At(p) = input.bytes[p + 1] /\ At(p + 1) = input.bytes[p + 2]
      /\ At(input_pointer) = At(p) /\ Escaped = At(p + 1)
  <2>1. (p + 1) + 1 = p + 2
    OBVIOUS
  <2> QED
    BY <1>4, <2>1, Zenon DEF At, Escaped
<1>7. output = x.means
  BY <1>2
<1>8. CASE Plain(input.bytes, x, y)
  <2>1. y.at = p + 1 /\ At(p) # BACKSLASH /\ y.means = Append(x.means, At(p))
    BY <1>4, <1>6, <1>8, Zenon DEF Plain
  <2>2. ~DecodeFails /\ ~DecodeEscape /\ ~DecodeUtf16
    BY <1>6, <2>1, Zenon DEF DecodeFails, DecodeEscape, DecodeUtf16
  <2>3. ASSUME CopyCharacter PROVE input_pointer' = y.at /\ output' = y.means
    <3>1. output' = output \o <<At(p)>> /\ input_pointer' = input_pointer + 1
      BY <1>6, <2>3, Zenon DEF CopyCharacter, Write
    <3>2. PICK v \in 0..255 : v = At(p)
      <4>1. p \in 0..(Length - 1)
        BY <1>1, <1>2, <1>4, <2>1, CharacterShape, Buffer
      <4> QED
        BY <1>1, <4>1, Buffer
    <3>3. output \o <<v>> = Append(output, v)
      BY DEF Typed
    <3> QED
      BY <1>4, <1>7, <2>1, <3>1, <3>2, <3>3
  <2> QED
    BY <1>2, <2>2, <2>3, Zenon
<1>9. CASE Short(input.bytes, x, y)
  <2>1. /\ y.at = p + 2 /\ At(p) = BACKSLASH /\ <<At(p + 1), x.code>> \in ShortEscapes
        /\ y.means = Append(x.means, x.code)
    BY <1>4, <1>6, <1>9, Zenon DEF Short
  <2>2. PICK v : v = At(p + 1)
    OBVIOUS
  <2>3. PICK c \in Nat : c = x.code
    BY <1>5
  <2>4. v # 117 /\ v \in DOMAIN Escapes /\ Escapes[v] = c
    <3>1. <<v, c>> \in ShortEscapes
      BY <2>1, <2>2, <2>3
    <3> QED
      BY <3>1 DEF ShortEscapes, Escapes, QUOTE, BACKSLASH
  <2>5. ~DecodeFails /\ ~CopyCharacter /\ ~DecodeUtf16
    BY <1>6, <2>1, <2>2, <2>4 DEF DecodeFails, CopyCharacter, DecodeUtf16
  <2>6. ASSUME DecodeEscape PROVE input_pointer' = y.at /\ output' = y.means
    <3>1. output' = output \o <<c>> /\ input_pointer' = input_pointer + 2
      BY <1>6, <2>2, <2>4, <2>6, Zenon DEF DecodeEscape, Write
    <3>2. output \o <<c>> = Append(output, c)
      BY DEF Typed
    <3> QED
      BY <1>4, <1>7, <2>1, <2>3, <3>1, <3>2
  <2> QED
    BY <1>2, <2>5, <2>6, Zenon
<1>10. CASE Single(input.bytes, x, y) \/ Pair(input.bytes, x, y)
  <2>1. /\ At(p) = BACKSLASH /\ At(p + 1) = 117
        /\ utf16_literal(p) = [length |-> y.at - p, codepoint |-> x.code]
        /\ y.means = x.means \o Utf8(x.code)
    <3>1. x.at \in Nat /\ y.at <= input_end
      BY <1>2, <1>4
    <3>2. /\ At(x.at) = BACKSLASH /\ At(x.at + 1) = 117
          /\ utf16_literal(x.at) = [length |-> y.at - x.at, codepoint |-> x.code]
          /\ y.means = x.means \o Utf8(x.code)
      BY <1>5, <1>10, <3>1, LiteralOf
    <3> QED
      BY <1>4, <3>2, Zenon
  <2>2. y.at = p + 6 \/ y.at = p + 12
    BY <1>4, <1>10, Zenon DEF Single, Pair
  <2>3. utf16_literal(p) # FAILED
    BY <2>1, <2>2 DEF FAILED
  <2>4. 117 \notin DOMAIN Escapes
    BY DEF Escapes
  <2>5. ~DecodeFails /\ ~CopyCharacter /\ ~DecodeEscape
    BY <1>4, <1>6, <2>1, <2>3, <2>4 DEF DecodeFails, CopyCharacter, DecodeEscape
  <2>6. ASSUME DecodeUtf16 PROVE input_pointer' = y.at /\ output' = y.means
    <3>1. PICK literal : literal = utf16_literal(p)
      OBVIOUS
    <3>2. literal.length = y.at - p /\ literal.codepoint = x.code
      BY <2>1, <3>1
    <3>3. output' = output \o utf8(literal.codepoint) /\ input_pointer' = input_pointer + literal.length
      BY <1>4, <2>6, <3>1, Zenon DEF DecodeUtf16, Write
    <3>4. utf8(x.code) = Utf8(x.code)
      BY <1>5, Encoded
    <3>5. output' = y.means
      BY <1>7, <2>1, <3>2, <3>3, <3>4, Zenon
    <3>6. input_pointer' = y.at
      BY <1>4, <2>2, <3>2, <3>3
    <3> QED
      BY <3>5, <3>6
  <2> QED
    BY <1>2, <2>5, <2>6, Zenon
<1> QED
  BY <1>3, <1>8, <1>9, <1>10, Zenon DEF Character

(* Where the reading ends without a quote, the second pass fails.           *)
LEMMA WrongFails ==
    ASSUME Typed, pc = "decode", ~Loose, ~IsString, input_pointer = End.at, input_pointer < input_end
    PROVE  ~CopyCharacter /\ ~DecodeEscape /\ ~DecodeUtf16
<1>1. input \in Inputs /\ input_end < Length /\ Length \in Nat /\ input_end \in Nat
  BY Buffer DEF Typed
<1>2. PICK x : x = End
  OBVIOUS
<1>3. Illegal(input.bytes, x)
  BY <1>1, <1>2, ReadingIs, Zenon
<1>4. PICK p \in Nat : p = x.at /\ p = input_pointer
  BY <1>2, Buffer DEF Typed
<1>5. /\ At(p) = input.bytes[p + 1] /\ At(p + 1) = input.bytes[p + 2]
      /\ At(input_pointer) = At(p) /\ Escaped = At(p + 1) /\ Length = Len(input.bytes)
  <2>1. (p + 1) + 1 = p + 2
    OBVIOUS
  <2> QED
    BY <1>4, <2>1, Zenon DEF At, Escaped, Length
<1>6. x.at # Len(input.bytes) - 1
  BY <1>1, <1>4, <1>5
<1>7. CASE At(p) = BACKSLASH /\ At(p + 1) # 117 /\ \A e \in ShortEscapes : At(p + 1) # e[1]
  <2>1. PICK v : v = At(p + 1)
    OBVIOUS
  <2>2. v \notin DOMAIN Escapes
    <3>1. /\ v # <<98, 8>>[1] /\ v # <<102, 12>>[1] /\ v # <<110, 10>>[1] /\ v # <<114, 13>>[1]
          /\ v # <<116, 9>>[1] /\ v # <<QUOTE, QUOTE>>[1] /\ v # <<BACKSLASH, BACKSLASH>>[1]
          /\ v # <<47, 47>>[1]
      BY <1>7, <2>1 DEF ShortEscapes
    <3> QED
      BY <3>1 DEF Escapes, QUOTE, BACKSLASH
  <2> QED
    BY <1>5, <1>7, <2>1, <2>2 DEF CopyCharacter, DecodeEscape, DecodeUtf16
<1>8. CASE /\ Unit(input.bytes, p, x.code)
           /\ \/ x.code \in LowSurrogate
              \/ /\ x.code \in HighSurrogate
                 /\ ~ \E l \in LowSurrogate : Unit(input.bytes, p + 6, l)
  <2>1. At(p) = BACKSLASH /\ At(p + 1) = 117 /\ utf16_literal(p) = FAILED
    BY <1>1, <1>8, LiteralWrong
  <2>2. 117 \notin DOMAIN Escapes
    BY DEF Escapes
  <2> QED
    BY <1>4, <1>5, <2>1, <2>2, Zenon DEF CopyCharacter, DecodeEscape, DecodeUtf16
<1> QED
  BY <1>3, <1>4, <1>5, <1>6, <1>7, <1>8, Zenon DEF Illegal

(* The reading stays what it is.                                            *)
LEMMA Kept ==
    ASSUME input' = input
    PROVE  /\ Reading' = Reading /\ End' = End /\ Length' = Length
           /\ (IsString' <=> IsString) /\ (Loose' <=> Loose)
           /\ \A p : (Reached(p)' <=> Reached(p))
<1>1. Reading' = Reading /\ End' = End /\ Length' = Length
  BY Zenon DEF Reading, End, Length
<1>2. (IsString' <=> IsString) /\ (Loose' <=> Loose)
  BY <1>1, Zenon DEF IsString, Loose
<1>3. ASSUME NEW p PROVE Reached(p)' <=> Reached(p)
  <2>1. \A k : Within(p, k)' <=> Within(p, k)
    BY <1>1, Zenon DEF Within
  <2> QED
    BY <1>1, <1>2, <2>1, Zenon DEF Reached
<1> QED
  BY <1>1, <1>2, <1>3, Zenon

(* A string is measured to its quote, and does not fail.                    *)
LEMMA MeasuredStep == Typed /\ Measured /\ Follows /\ [Next]_vars => Measured'
<1> SUFFICES ASSUME Typed, Measured, Follows, [Next]_vars PROVE Measured'
  OBVIOUS
<1>1. input' = input
  BY Zenon DEF Next, ScanCharacter, Allocate, ScanFails, CopyCharacter, DecodeEscape, DecodeUtf16,
     DecodeFails, DecodeEnds, Write, vars
<1>2. /\ End' = End /\ (IsString' <=> IsString)
      /\ \A p : (Reached(p)' <=> Reached(p))
  BY <1>1, Kept
<1>3. CASE ScanCharacter
  <2>1. pc = "scan" /\ pc' = "scan"
    BY <1>3, Zenon DEF ScanCharacter, Scanning
  <2>2. Reached(input_end')
    BY <1>3, <2>1, ReachedStep DEF Measured
  <2>3. PICK n : n = input_end'
    OBVIOUS
  <2>4. Reached(input_end)'
    BY <1>1, <2>2 DEF Reached, Within, Reading, End, IsString
  <2> QED
    BY <2>1, <2>4 DEF Measured
<1>4. CASE Allocate
  <2>1. /\ pc = "scan" /\ input_end < Length /\ At(input_end) = QUOTE /\ input_end' = input_end
        /\ pc' = "decode" \/ (pc' = "failed" /\ short' = TRUE)
    BY <1>4, Zenon DEF Allocate
  <2>2. IF IsString THEN input_end = End.at ELSE input_end > End.at
    BY <2>1, Quoted DEF Measured
  <2> QED
    BY <1>2, <2>1, <2>2 DEF Measured
<1>5. CASE ScanFails
  <2>1. pc = "scan" /\ input_end >= Length /\ pc' = "failed"
    BY <1>5, Zenon DEF ScanFails
  <2>2. ~IsString
    BY <2>1, Unclosed DEF Measured
  <2> QED
    BY <1>2, <2>1, <2>2 DEF Measured
<1>6. CASE CopyCharacter \/ DecodeEscape \/ DecodeUtf16 \/ DecodeEnds
  <2>1. pc = "decode" /\ pc' \in {"decode", "parsed"} /\ input_end' = input_end
    BY <1>6, Zenon DEF CopyCharacter, DecodeEscape, DecodeUtf16, DecodeEnds, Decoding, Write
  <2> QED
    BY <1>2, <2>1 DEF Measured
<1>7. CASE DecodeFails
  <2>1. pc = "decode" /\ input_pointer < input_end /\ pc' = "failed"
    BY <1>7, Zenon DEF DecodeFails, Decoding
  <2>2. ASSUME IsString PROVE FALSE
    <3>1. ~Loose
      BY <2>2 DEF IsString, Closes, Loose, LacksDigits, QUOTE, BACKSLASH
    <3>2. PICK k \in 1..Len(Reading) :
             /\ input_pointer = Reading[k].at /\ output = Reading[k].means
             /\ k # Len(Reading) => Reading[k + 1].at <= input_end
             /\ k = Len(Reading) => (IsString <=> input_pointer = input_end)
      BY <2>1, <3>1, Place, Zenon
    <3>3. input_pointer # input_end
      BY <2>1, Buffer DEF Typed
    <3>4. k \in 1..(Len(Reading) - 1)
      BY <2>2, <3>2, <3>3, ReadingInside DEF Typed
    <3>5. ~DecodeFails
      BY <2>1, <2>2, <3>2, <3>3, <3>4, CharacterDecoded, Zenon
    <3> QED
      BY <1>7, <3>5
  <2> QED
    BY <1>2, <2>1, <2>2 DEF Measured
<1>8. CASE UNCHANGED vars
  <2>1. pc' = pc /\ input_end' = input_end /\ short' = short
    BY <1>8 DEF vars
  <2> QED
    BY <1>2, <2>1, Zenon DEF Measured
<1> QED
  BY <1>3, <1>4, <1>5, <1>6, <1>7, <1>8, Zenon DEF Next

(* The second pass goes along the reading.                                  *)
LEMMA FollowsStep == Typed /\ Measured /\ Follows /\ [Next]_vars => Follows'
<1> SUFFICES ASSUME Typed, Measured, Follows, [Next]_vars PROVE Follows'
  OBVIOUS
<1>1. input' = input
  BY Zenon DEF Next, ScanCharacter, Allocate, ScanFails, CopyCharacter, DecodeEscape, DecodeUtf16,
     DecodeFails, DecodeEnds, Write, vars
<1>2. Reading' = Reading /\ End' = End /\ (IsString' <=> IsString) /\ (Loose' <=> Loose)
  BY <1>1, Kept
<1>3. CASE ScanCharacter \/ ScanFails \/ DecodeFails
  <2>1. pc' \in {"scan", "failed"}
    BY <1>3, Zenon DEF ScanCharacter, Scanning, ScanFails, DecodeFails
  <2> QED
    BY <2>1 DEF Follows
<1>4. CASE Allocate
  <2>1. /\ pc' \in {"decode", "failed"} /\ input_pointer' = 1 /\ output' = <<>>
    BY <1>4, Zenon DEF Allocate, Typed
  <2>2. 1 \in 1..Len(Reading) /\ Reading[1].at = 1 /\ Reading[1].means = <<>>
    BY ReadingIs DEF Typed
  <2> QED
    BY <1>2, <2>1, <2>2 DEF Follows
<1>5. CASE CopyCharacter \/ DecodeEscape \/ DecodeUtf16
  <2>1. pc = "decode" /\ pc' = "decode" /\ input_pointer < input_end
    BY <1>5, Zenon DEF CopyCharacter, DecodeEscape, DecodeUtf16, Decoding, Write
  <2>2. ASSUME ~Loose
        PROVE  \E k \in 1..Len(Reading) : input_pointer' = Reading[k].at /\ output' = Reading[k].means
    <3>1. PICK k \in 1..Len(Reading) :
             /\ input_pointer = Reading[k].at /\ output = Reading[k].means
             /\ k # Len(Reading) => Reading[k + 1].at <= input_end
             /\ k = Len(Reading) => End = Reading[k] /\ (IsString <=> input_pointer = input_end)
      BY <2>1, <2>2, Place, Zenon
    <3>2. input_pointer # input_end
      BY <2>1, Buffer DEF Typed
    <3>3. k # Len(Reading)
      BY <1>5, <2>1, <2>2, <3>1, <3>2, WrongFails, Zenon
    <3>4. k \in 1..(Len(Reading) - 1) /\ k + 1 \in 1..Len(Reading)
      BY <3>3, ReadingInside DEF Typed
    <3>5. input_pointer' = Reading[k + 1].at /\ output' = Reading[k + 1].means
      BY <1>5, <2>1, <3>1, <3>3, <3>4, CharacterDecoded, Zenon
    <3> QED
      BY <3>4, <3>5, Zenon
  <2> QED
    BY <1>2, <2>1, <2>2 DEF Follows
<1>6. CASE DecodeEnds
  <2>1. /\ pc = "decode" /\ pc' = "parsed" /\ input_pointer >= input_end /\ output' = Append(output, 0)
        /\ input_pointer' = input_pointer /\ input_end' = input_end
    BY <1>6, Zenon DEF DecodeEnds
  <2>2. ASSUME ~Loose PROVE IsString /\ output = End.means /\ input_pointer <= input_end
    <3>1. PICK k \in 1..Len(Reading) :
             /\ input_pointer = Reading[k].at /\ output = Reading[k].means
             /\ k = Len(Reading) => End = Reading[k]
             /\ input_pointer <= input_end /\ (input_pointer = input_end => IsString)
      BY <2>1, <2>2, Place, Zenon
    <3>2. input_pointer = input_end /\ input_end \in Nat
      BY <2>1, <3>1, Buffer DEF Typed
    <3>3. k = Len(Reading)
      <4>1. input_end = End.at
        BY <2>1, <3>1, <3>2 DEF Measured
      <4>2. k # Len(Reading) => Reading[k].at < End.at
        BY ReadingInside, Zenon DEF Typed
      <4> QED
        BY <3>1, <3>2, <4>1, <4>2
    <3> QED
      BY <3>1, <3>2, <3>3, Zenon
  <2> QED
    BY <1>2, <2>1, <2>2 DEF Follows
<1>7. CASE UNCHANGED vars
  <2>1. pc' = pc /\ input_pointer' = input_pointer /\ input_end' = input_end /\ output' = output
    BY <1>7 DEF vars
  <2> QED
    BY <1>2, <2>1, Zenon DEF Follows
<1> QED
  BY <1>3, <1>4, <1>5, <1>6, <1>7, Zenon DEF Next

-----------------------------------------------------------------------------
(* The theorems. *)

(* The inductive invariant: types, lengths and boundaries.                   *)
THEOREM Invariance == Spec => []IInv
<1>1. Init => IInv
  <2> SUFFICES ASSUME Init PROVE IInv
    OBVIOUS
  <2>1. /\ input \in Inputs /\ input_pointer = 1 /\ input_end = 1 /\ skipped_bytes = 0
        /\ output = <<>> /\ room = 0 /\ pc = "scan" /\ short = FALSE
    BY Zenon DEF Init
  <2>2. Length \in Nat /\ Length >= 2 /\ At(0) = QUOTE
    BY <2>1, Buffer
  <2>3. Typed
    <3>1. short \in BOOLEAN
      BY <2>1, Zenon
    <3>2. input_pointer \in 1..Length /\ input_end \in 1..Length /\ skipped_bytes < input_end
      BY <2>1, <2>2
    <3>3. output \in Seq(0..255) /\ skipped_bytes \in Nat /\ room \in Nat
      BY <2>1
    <3>4. pc = "scan" /\ input_pointer = 1 /\ output = <<>> /\ input \in Inputs
      BY <2>1, Zenon
    <3> QED
      BY <3>1, <3>2, <3>3, <3>4 DEF Typed
  <2>4. Fitting
    <3>1. PICK c \in [Nat -> Nat] : \A p \in Nat : c[p] = 0
      <4>1. [p \in Nat |-> 0] \in [Nat -> Nat]
        OBVIOUS
      <4> QED
        BY <4>1
    <3>2. Counts(c)
      BY <2>1, <3>1 DEF Counts
    <3>3. Shorter(c)
      BY <2>1, <3>1 DEF Shorter
    <3> QED
      BY <3>2, <3>3, Zenon DEF Fitting
  <2>5. Measured
    <3>1. 1 \in 1..Len(Reading) /\ Reading[1].at = 1
      BY <2>1, ReadingIs
    <3>2. Reached(1)
      BY <3>1 DEF Reached
    <3> QED
      BY <2>1, <3>2 DEF Measured
  <2>6. Follows
    BY <2>1 DEF Follows
  <2> QED
    BY <2>3, <2>4, <2>5, <2>6 DEF IInv
<1>2. IInv /\ [Next]_vars => IInv'
  BY TypedStep, FittingStep, MeasuredStep, FollowsStep DEF IInv
<1> QED
  BY <1>1, <1>2, PTL DEF Spec

(* parse_string keeps its types: its pointers never leave the buffer, and    *)
(* what it writes are bytes (TypeOK).                                       *)
THEOREM TypeCorrect == Spec => []TypeOK
<1>1. IInv => TypeOK
  BY DEF IInv, Typed, TypeOK
<1> QED
  BY <1>1, Invariance, PTL

(* The output fits into what was allocated for it, and the second pass does *)
(* not read beyond the closing quote (InBounds).                            *)
THEOREM StaysInBounds == Spec => []InBounds
<1>1. IInv => InBounds
  <2> SUFFICES ASSUME IInv, pc \in {"decode", "parsed"}
               PROVE  /\ Len(output) + (IF pc = "parsed" THEN 0 ELSE 1) <= room
                      /\ input_pointer <= input_end + 1
                      /\ input_pointer = input_end + 1 => Loose
    BY DEF InBounds
  <2>1. Typed /\ Fitting /\ Measured /\ Follows
    BY DEF IInv
  <2>2. PICK c \in [Nat -> Nat] : Counts(c) /\ Shorter(c)
    BY <2>1, Zenon DEF Fitting
  <2>3. Len(output) \in Nat /\ input_end \in Nat /\ input_pointer <= input_end + 1
    BY <2>1, Buffer DEF Typed
  <2>4. Len(output) + (IF pc = "parsed" THEN 0 ELSE 1) <= room
    <3>1. CASE pc = "decode"
      <4>1. Len(output) + 1 <= room
        BY <2>1, <2>2, <3>1, RoomLeft
      <4> QED
        BY <3>1, <4>1
    <3>2. CASE pc = "parsed"
      BY <2>2, <2>3, <3>2 DEF Shorter
    <3> QED
      BY <3>1, <3>2
  <2>5. ~Loose => input_pointer <= input_end
    BY <2>1, Follower
  <2> QED
    BY <2>3, <2>4, <2>5
<1> QED
  BY <1>1, Invariance, PTL

(* A JSON string gives its characters in UTF-8, and what is none fails; only *)
(* a \u without its digits may give anything (Decodes).                     *)
THEOREM StringsDecode == Spec => []Decodes
<1>1. IInv => Decodes
  BY DEF IInv, Measured, Follows, Decodes
<1> QED
  BY <1>1, Invariance, PTL
=============================================================================
