------------------------------ MODULE JsonText ------------------------------
(***************************************************************************)
(* parse_string (cJSON.c): the pass that looks for the closing quote and    *)
(* measures the output, and the pass that decodes into it.  Characters are  *)
(* bytes, pointers offsets from the opening quote, and the buffer ends with  *)
(* a NUL.                                                                   *)
(***************************************************************************)
EXTENDS Integers, Sequences

CONSTANTS Inputs     \* [bytes, reading]: the buffer, and the JSON string it starts with

QUOTE == 34
BACKSLASH == 92
Digits == (48..57) \cup (65..70) \cup (97..102)
HighSurrogate == 55296..56319
LowSurrogate == 56320..57343

(* JSON's strings (RFC 8259, but for control characters, which nobody       *)
(* rejects) and the encodings of Unicode, in a buffer b by offsets.  The    *)
(* code unit c is written at p as \u and four hexadecimal digits.           *)
Letter(a, n) == n >= 10 /\ a \in {55 + n, 87 + n}
IsDigit(a, n) == Letter(a, n) \/ (n <= 9 /\ a = 48 + n)
Value(w, x, y, z) == w * 4096 + x * 256 + y * 16 + z
Unit(b, p, c) == /\ p + 6 < Len(b) /\ b[p + 1] = BACKSLASH /\ b[p + 2] = 117
                 /\ \E w \in 0..15 : /\ IsDigit(b[p + 3], w)
                    /\ \E x \in 0..15 : /\ IsDigit(b[p + 4], x)
                       /\ \E y \in 0..15 : /\ IsDigit(b[p + 5], y)
                          /\ \E z \in 0..15 : /\ IsDigit(b[p + 6], z)
                                             /\ c = Value(w, x, y, z)

ShortEscapes == {<<98, 8>>, <<102, 12>>, <<110, 10>>, <<114, 13>>, <<116, 9>>,
                 <<QUOTE, QUOTE>>, <<BACKSLASH, BACKSLASH>>, <<47, 47>>}

First(mark, c, n) == mark + c \div n
Rest(c, n) == 128 + ((c \div n) % 64)
Utf8(c) ==
    IF c < 128 THEN <<c>>
    ELSE IF c < 2048 THEN <<First(192, c, 64), Rest(c, 1)>>
    ELSE IF c < 65536 THEN <<First(224, c, 4096), Rest(c, 64), Rest(c, 1)>>
    ELSE <<First(240, c, 262144), Rest(c, 4096), Rest(c, 64), Rest(c, 1)>>

(* One character, from where x is to where y is: itself, an escape sequence, *)
(* a code unit, or two.                                                     *)
Plain(b, x, y) == /\ y.at = x.at + 1 /\ y.at < Len(b)
                  /\ b[x.at + 1] \notin {QUOTE, BACKSLASH}
                  /\ y.means = Append(x.means, b[x.at + 1])
Short(b, x, y) == /\ y.at = x.at + 2 /\ y.at < Len(b)
                  /\ b[x.at + 1] = BACKSLASH /\ <<b[x.at + 2], x.code>> \in ShortEscapes
                  /\ y.means = Append(x.means, x.code)
Single(b, x, y) == /\ y.at = x.at + 6 /\ Unit(b, x.at, x.code)
                   /\ x.code \notin HighSurrogate \cup LowSurrogate
                   /\ y.means = x.means \o Utf8(x.code)
PairOf(h, l) == 65536 + (h - 55296) * 1024 + (l - 56320)
Pair(b, x, y) == /\ y.at = x.at + 12
                 /\ \E h \in HighSurrogate : /\ Unit(b, x.at, h)
                    /\ \E l \in LowSurrogate : /\ Unit(b, x.at + 6, l)
                       /\ x.code = PairOf(h, l)
                 /\ y.means = x.means \o Utf8(x.code)
Character(b, x, y) == Plain(b, x, y) \/ Short(b, x, y) \/ Single(b, x, y) \/ Pair(b, x, y)

(* What there may be instead: the closing quote, a \u without four digits,   *)
(* or what is no JSON, the end of the buffer included.                      *)
Closes(b, x) == x.at < Len(b) - 1 /\ b[x.at + 1] = QUOTE
LacksDigits(b, x) == /\ x.at < Len(b) - 1 /\ b[x.at + 1] = BACKSLASH /\ b[x.at + 2] = 117
                     /\ \E k \in 3..6 : x.at + k >= Len(b) \/ b[x.at + k] \notin Digits
Illegal(b, x) == \/ x.at = Len(b) - 1
                 \/ /\ x.at < Len(b) - 1 /\ b[x.at + 1] = BACKSLASH /\ b[x.at + 2] # 117
                    /\ \A e \in ShortEscapes : b[x.at + 2] # e[1]
                 \/ x.code \in LowSurrogate /\ Unit(b, x.at, x.code)
                 \/ /\ x.code \in HighSurrogate /\ Unit(b, x.at, x.code)
                    /\ ~ \E c \in LowSurrogate : Unit(b, x.at + 6, c)

(* A reading follows the characters behind the opening quote as far as they *)
(* are JSON: where each is, its code, and what is before it in UTF-8.       *)
IsReading(b, r) ==
    /\ Len(r) > 0 /\ r[1].at = 1 /\ r[1].means = <<>>
    /\ \A k \in DOMAIN r, j \in DOMAIN r : j < k => r[j].at < r[k].at
    /\ \A k \in 1..(Len(r) - 1) : Character(b, r[k], r[k + 1])
    /\ Closes(b, r[Len(r)]) \/ LacksDigits(b, r[Len(r)]) \/ Illegal(b, r[Len(r)])

(* The buffer starts at the opening quote and ends with a NUL.              *)
ASSUME InputsAssumption ==
    \A i \in Inputs : /\ i.bytes \in Seq(0..255) /\ Len(i.bytes) >= 2
                      /\ i.bytes[1] = QUOTE /\ i.bytes[Len(i.bytes)] = 0
                      /\ i.reading \in Seq([at : Nat, code : Nat, means : Seq(0..255)])
                      /\ IsReading(i.bytes, i.reading)

VARIABLES input,           \* the code reads its bytes only
          input_pointer, input_end,
          skipped_bytes,
          output,          \* what has been written
          room,            \* the size of the allocation
          pc,              \* "scan", "decode", "parsed", "failed"
          short            \* the allocation failed (observed)

vars == <<input, input_pointer, input_end, skipped_bytes, output, room, pc, short>>

Length == Len(input.bytes)
At(p) == input.bytes[p + 1]
Bytes(from, n) == [k \in 1..n |-> At(from + k - 1)]

Init == /\ input \in Inputs
        /\ input_pointer = 1 /\ input_end = 1 /\ skipped_bytes = 0
        /\ output = <<>> /\ room = 0 /\ pc = "scan" /\ short = FALSE

-----------------------------------------------------------------------------
(* The first pass. *)

Scanning == pc = "scan" /\ input_end < Length /\ At(input_end) # QUOTE

(* Mutant: both bytes of an escape sequence are taken off. *)
SkippedTwo == skipped_bytes + 2

Skipped == skipped_bytes + 1

ScanCharacter == /\ Scanning
                 /\ IF At(input_end) = BACKSLASH
                    THEN input_end' = input_end + 2 /\ skipped_bytes' = Skipped
                    ELSE input_end' = input_end + 1 /\ UNCHANGED skipped_bytes
                 /\ UNCHANGED <<input, input_pointer, output, room, pc, short>>

(* The quote counts as a byte of the output, and one more is allocated.     *)
Allocate == /\ pc = "scan" /\ input_end < Length /\ At(input_end) = QUOTE
            /\ \/ pc' = "decode" /\ room' = input_end - skipped_bytes + 1 /\ UNCHANGED short
               \/ pc' = "failed" /\ short' = TRUE /\ UNCHANGED room
            /\ UNCHANGED <<input, input_pointer, input_end, skipped_bytes, output>>

(* A backslash is never the last byte: the NUL is. *)
ScanFails == /\ pc = "scan" /\ input_end >= Length
             /\ pc' = "failed"
             /\ UNCHANGED <<input, input_pointer, input_end, skipped_bytes, output, room, short>>

-----------------------------------------------------------------------------
(* parse_hex4; a character that is no digit makes the whole number 0. *)
Digit(c) == CASE c \in 48..57 -> c - 48
              [] c \in 65..70 -> c - 55
              [] c \in 97..102 -> c - 87
              [] OTHER -> -1

parse_hex4(p) ==
    LET d == [k \in 0..3 |-> Digit(At(p + k))]
    IN  IF \E k \in 0..3 : d[k] = -1 THEN 0
        ELSE d[0] * 4096 + d[1] * 256 + d[2] * 16 + d[3]

(* utf16_literal_to_utf8: the codepoint at p and the length of its sequence. *)
FAILED == [length |-> 0, codepoint |-> 0]

(* Mutants: the pair without its 0x10000; a single code taken for a pair. *)
PairCodePlain(first, second) == (first % 1024) * 1024 + (second % 1024)
LengthTwelve(first) == 12

PairCode(first, second) == 65536 + (first % 1024) * 1024 + (second % 1024)
LengthOf(first) == IF first \in HighSurrogate THEN 12 ELSE 6

utf16_literal(p) ==
    LET first == parse_hex4(p + 2)
        second == parse_hex4(p + 8)
        paired == /\ input_end - (p + 6) >= 6
                  /\ Bytes(p + 6, 2) = <<BACKSLASH, 117>>
                  /\ second \in LowSurrogate
    IN  IF \/ input_end - p < 6
           \/ first \in LowSurrogate
           \/ first \in HighSurrogate /\ ~paired
        THEN FAILED
        ELSE [length |-> LengthOf(first),
              codepoint |-> IF first \in HighSurrogate THEN PairCode(first, second) ELSE first]

(* ... and its encoding, from the last byte to the first, 6 bits at a time. *)
Shift == [n \in 0..3 |-> <<1, 64, 4096, 262144>>[n + 1]]
utf8(codepoint) ==
    LET n == IF codepoint < 128 THEN 1
             ELSE IF codepoint < 2048 THEN 2 ELSE IF codepoint < 65536 THEN 3 ELSE 4
        mark == <<0, 192, 224, 240>>[n]
    IN  [k \in 1..n |-> IF k = 1 THEN mark + codepoint \div Shift[n - 1]
                                 ELSE 128 + ((codepoint \div Shift[n - k]) % 64)]

Decoding == pc = "decode" /\ input_pointer < input_end

Write(bytes, length) == /\ output' = output \o bytes
                        /\ input_pointer' = input_pointer + length
                        /\ UNCHANGED <<input, input_end, skipped_bytes, room, pc, short>>

CopyCharacter == /\ Decoding /\ At(input_pointer) # BACKSLASH
                 /\ Write(<<At(input_pointer)>>, 1)

Escapes == [c \in {98, 102, 110, 114, 116, 34, 92, 47} |->
              CASE c = 98 -> 8 [] c = 102 -> 12 [] c = 110 -> 10 [] c = 114 -> 13 [] c = 116 -> 9
                [] OTHER -> c]
Escaped == At(input_pointer + 1)

DecodeEscape == /\ Decoding /\ At(input_pointer) = BACKSLASH /\ Escaped \in DOMAIN Escapes
                /\ Write(<<Escapes[Escaped]>>, 2)

DecodeUtf16 == /\ Decoding /\ At(input_pointer) = BACKSLASH /\ Escaped = 117
               /\ LET literal == utf16_literal(input_pointer)
                  IN  literal # FAILED /\ Write(utf8(literal.codepoint), literal.length)

DecodeFails == /\ Decoding /\ At(input_pointer) = BACKSLASH
               /\ \/ Escaped = 117 /\ utf16_literal(input_pointer) = FAILED
                  \/ Escaped \notin DOMAIN Escapes \cup {117}
               /\ pc' = "failed"
               /\ UNCHANGED <<input, input_pointer, input_end, skipped_bytes, output, room, short>>

(* The NUL at the end; the parser goes on behind input_end. *)
DecodeEnds == /\ pc = "decode" /\ input_pointer >= input_end
              /\ output' = Append(output, 0)
              /\ pc' = "parsed"
              /\ UNCHANGED <<input, input_pointer, input_end, skipped_bytes, room, short>>

Next == \/ ScanCharacter \/ Allocate \/ ScanFails
        \/ CopyCharacter \/ DecodeEscape \/ DecodeUtf16 \/ DecodeFails \/ DecodeEnds

Spec == Init /\ [][Next]_vars

-----------------------------------------------------------------------------
(* Properties *)

TypeOK == /\ input_pointer \in 1..Length /\ input_end \in 1..Length
          /\ skipped_bytes \in Nat /\ room \in Nat
          /\ output \in Seq(0..255)
          /\ pc \in {"scan", "decode", "parsed", "failed"} /\ short \in BOOLEAN

(* The JSON string, how far it goes, and what it is. *)
End == input.reading[Len(input.reading)]
IsString == Closes(input.bytes, End)
Loose == LacksDigits(input.bytes, End)

(* The output fits into what the first pass allocated, its NUL included,    *)
(* and the second pass does not read beyond the closing quote; it takes the *)
(* quote itself for a character only if a \u without its digits has         *)
(* swallowed the backslash before it.                                       *)
InBounds ==
    pc \in {"decode", "parsed"} =>
        /\ Len(output) + (IF pc = "parsed" THEN 0 ELSE 1) <= room
        /\ input_pointer <= input_end + 1
        /\ input_pointer = input_end + 1 => Loose

(* A JSON string gives its characters in UTF-8, and anything else fails,    *)
(* but for a \u without four hexadecimal digits, which may give anything.   *)
Decodes ==
    /\ pc = "parsed" => Loose \/ (IsString /\ output = Append(End.means, 0))
    /\ pc = "failed" => ~IsString \/ short
=============================================================================
