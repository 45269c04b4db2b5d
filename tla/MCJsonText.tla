----------------------------- MODULE MCJsonText -----------------------------
(* JsonText for TLC: strings of up to three pieces, and shorter ones cut off *)
(* anywhere.  The readings are put together from the pieces, whose code     *)
(* units are known.                                                         *)
EXTENDS JsonText, SequencesExt

CONSTANTS Bad        \* pieces that are no JSON

Hex(a, b, c, d) == <<BACKSLASH, 117, a, b, c, d>>
Escape(c) == <<BACKSLASH, c>>

(* A piece, and the UTF-16 code unit it stands for. *)
Pieces ==
    { <<<<122>>, 122>>, <<Escape(110), 10>>, <<Escape(QUOTE), QUOTE>>, <<Escape(BACKSLASH), BACKSLASH>>,
      <<Hex(48, 48, 55, 102), 127>>, <<Hex(48, 48, 56, 48), 128>>, <<Hex(48, 55, 70, 70), 2047>>,
      <<Hex(48, 56, 48, 48), 2048>>, <<Hex(102, 70, 102, 70), 65535>>,
      <<Hex(68, 56, 48, 48), 55296>>, <<Hex(68, 66, 70, 70), 56319>>,
      <<Hex(68, 67, 48, 48), 56320>>, <<Hex(100, 102, 102, 102), 57343>>,
      <<Escape(120), Bad>>, <<Hex(48, 49, 103, 50), Bad>>, <<<<BACKSLASH, 117, 49>>, Bad>>,
      <<<<BACKSLASH, 117, 49, 50, 51>>, Bad>> }
CutPieces == UNION {{<<SubSeq(p[1], 1, n), Bad>> : n \in 1..(Len(p[1]) - 1)} : p \in Pieces}

Body(ps) == FlattenSeq([k \in DOMAIN ps |-> ps[k][1]])
IsHigh(ps, k) == k \in DOMAIN ps /\ ps[k][2] \in HighSurrogate
IsLow(ps, k) == k \in DOMAIN ps /\ ps[k][2] \in LowSurrogate
Wrong(ps, k) == ps[k][2] = Bad \/ (IsHigh(ps, k) /\ ~IsLow(ps, k + 1)) \/ (IsLow(ps, k) /\ ~IsHigh(ps, k - 1))
Right(ps) == CHOOSE n \in 0..Len(ps) : /\ \A k \in 1..n : ~Wrong(ps, k)
                                       /\ n < Len(ps) => Wrong(ps, n + 1)

(* The code of the character that starts with piece k, and its UTF-8.       *)
CodeOf(ps, k) == IF IsHigh(ps, k) /\ IsLow(ps, k + 1)
                 THEN PairOf(ps[k][2], ps[k + 1][2])
                 ELSE IF k \in DOMAIN ps /\ ps[k][2] # Bad THEN ps[k][2] ELSE 0
Means(ps, n) == FlattenSeq([k \in 1..n |-> IF IsLow(ps, k) THEN <<>> ELSE Utf8(CodeOf(ps, k))])

ReadingOf(ps) ==
    LET from == SetToSortSeq({k \in 1..(Right(ps) + 1) : k > Right(ps) \/ ~IsLow(ps, k)}, <)
    IN  [j \in DOMAIN from |-> [at |-> 1 + Len(Body(SubSeq(ps, 1, from[j] - 1))),
                                code |-> CodeOf(ps, from[j]), means |-> Means(ps, from[j] - 1)]]

Text(ps, end) == [bytes |-> <<QUOTE>> \o Body(ps) \o end, reading |-> ReadingOf(ps)]

MCInputs == {Text(ps, <<QUOTE, 0>>) : ps \in UNION {[1..n -> Pieces] : n \in 0..3}}
              \cup {Text(ps, <<0>>) : ps \in UNION {[1..n -> Pieces] : n \in 0..2}}
              \cup {Text(Append(ps, c), <<0>>) : ps \in [1..1 -> Pieces], c \in CutPieces}
=============================================================================
