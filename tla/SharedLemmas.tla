---------------------------- MODULE SharedLemmas ----------------------------
(***************************************************************************)
(* Facts that the proofs about several components need: the least element   *)
(* of a set of natural numbers, and the concatenation of the nodes of an    *)
(* unrolled list (SequencesExt's FlattenSeq) for lists of at most two       *)
(* nodes.  A topic's list never has more (theorem SecondNodeCloses of       *)
(* EventListProofs).  FlattenSeq is defined by recursion; for so few nodes  *)
(* the function it recurs on can be named, and no induction is needed.      *)
(***************************************************************************)
EXTENDS SequencesExt, WellFoundedInduction, TLAPS

(* A set of natural numbers that is not empty has a least element.          *)
LEMMA Least == ASSUME NEW T \in SUBSET Nat, T # {} PROVE \E x \in T : \A y \in T : x <= y
<1> DEFINE Below == {p \in Nat \X Nat : p[1] < p[2]}
<1>1. IsWellFoundedOn(Below, Nat)
  BY NatLessThanWellFounded DEF OpToRel
<1>2. \A x, y \in Nat : y < x => <<y, x>> \in Below
  OBVIOUS
<1> HIDE DEF Below
<1>3. PICK x \in T : \A y \in T : ~(<<y, x>> \in Below)
  BY <1>1, WFMin, Zenon
<1>4. ASSUME NEW y \in T PROVE x <= y
  <2>1. x \in Nat /\ y \in Nat
    OBVIOUS
  <2>2. ~(y < x)
    BY <1>2, <1>3, <2>1, Zenon
  <2> QED
    BY <2>1, <2>2
<1> QED
  BY <1>4

-----------------------------------------------------------------------------

(* f is a function the recursion of FlattenSeq(s) may stand for. *)
Flattens(f, s) == f = [i \in 1..Len(s) |-> IF i = 1 THEN s[i] ELSE f[i - 1] \o s[i]]

(* If there is any such function, FlattenSeq obeys the equation. *)
LEMMA FlattenEquation ==
    ASSUME NEW s, Len(s) # 0, NEW g, Flattens(g, s)
    PROVE  \E f : /\ \A i \in 1..Len(s) : f[i] = IF i = 1 THEN s[i] ELSE f[i - 1] \o s[i]
                  /\ FlattenSeq(s) = f[Len(s)]
<1> DEFINE flat == CHOOSE f : Flattens(f, s)
<1>1. Flattens(flat, s)
  BY Zenon
<1>2. FlattenSeq(s) = flat[Len(s)]
  BY Zenon DEF FlattenSeq, Flattens
<1> HIDE DEF flat
<1>3. \A i \in 1..Len(s) : flat[i] = IF i = 1 THEN s[i] ELSE flat[i - 1] \o s[i]
  BY <1>1, Zenon DEF Flattens
<1> QED
  BY <1>2, <1>3

(* A list without nodes holds nothing. *)
LEMMA FlattenNone == FlattenSeq(<<>>) = <<>>
BY DEF FlattenSeq

(* A list of one node holds what the node holds. *)
LEMMA FlattenOne == ASSUME NEW s, Len(s) = 1 PROVE FlattenSeq(s) = s[1]
<1>1. Flattens([i \in {1} |-> s[1]], s)
  BY DEF Flattens
<1>2. PICK f : /\ \A i \in 1..Len(s) : f[i] = IF i = 1 THEN s[i] ELSE f[i - 1] \o s[i]
               /\ FlattenSeq(s) = f[Len(s)]
  BY <1>1, FlattenEquation
<1> QED
  BY <1>2

(* A list of two nodes holds the first node's events, then the second's.    *)
LEMMA FlattenTwo == ASSUME NEW s, Len(s) = 2 PROVE FlattenSeq(s) = s[1] \o s[2]
<1> DEFINE g == [i \in 1..2 |-> IF i = 1 THEN s[1] ELSE s[1] \o s[2]]
<1>1. Flattens(g, s)
  BY DEF Flattens
<1>2. Len(s) # 0
  OBVIOUS
<1> HIDE DEF g
<1>3. PICK f : /\ \A i \in 1..Len(s) : f[i] = IF i = 1 THEN s[i] ELSE f[i - 1] \o s[i]
               /\ FlattenSeq(s) = f[Len(s)]
  BY <1>1, <1>2, FlattenEquation, Zenon
<1>4. f[1] = s[1]
  BY <1>3
<1>5. f[2] = f[2 - 1] \o s[2]
  BY <1>3
<1>6. 2 - 1 = 1 /\ FlattenSeq(s) = f[2]
  BY <1>3
<1> QED
  BY <1>4, <1>5, <1>6, Zenon
-----------------------------------------------------------------------------
(* Where slot s of node n is in the concatenation. *)
FlatAt(nodes, n, s) == Len(FlattenSeq(SubSeq(nodes, 1, n - 1))) + s

(* In a list of at most two nodes, the positions of the slots are those of  *)
(* the concatenation, with the same events and in the same order.           *)
LEMMA FlatPositions ==
    ASSUME NEW T, NEW nodes \in Seq(Seq(T)), Len(nodes) \in 0..2
    PROVE  /\ \A n \in 1..Len(nodes) : \A s \in 1..Len(nodes[n]) :
                 /\ FlatAt(nodes, n, s) \in DOMAIN FlattenSeq(nodes)
                 /\ FlattenSeq(nodes)[FlatAt(nodes, n, s)] = nodes[n][s]
           /\ \A e \in DOMAIN FlattenSeq(nodes) :
                 \E n \in 1..Len(nodes) : \E s \in 1..Len(nodes[n]) : e = FlatAt(nodes, n, s)
           /\ \A n, b \in 1..Len(nodes) : \A s \in 1..Len(nodes[n]), c \in 1..Len(nodes[b]) :
                 FlatAt(nodes, n, s) < FlatAt(nodes, b, c) <=> n < b \/ (n = b /\ s < c)
<1>1. \A n \in 1..Len(nodes) : nodes[n] \in Seq(T)
  OBVIOUS
<1>2. \A s : FlatAt(nodes, 1, s) = 0 + s
  <2>1. SubSeq(nodes, 1, 0) = <<>>
    OBVIOUS
  <2>2. 1 - 1 = 0 /\ Len(<<>>) = 0
    OBVIOUS
  <2> QED
    BY <2>1, <2>2, FlattenNone, Zenon DEF FlatAt
<1>3. Len(nodes) = 2 => \A s : FlatAt(nodes, 2, s) = Len(nodes[1]) + s
  <2>1. 2 - 1 = 1
    OBVIOUS
  <2>2. Len(nodes) = 2 => Len(SubSeq(nodes, 1, 1)) = 1 /\ SubSeq(nodes, 1, 1)[1] = nodes[1]
    OBVIOUS
  <2>3. Len(nodes) = 2 => FlattenSeq(SubSeq(nodes, 1, 1)) = nodes[1]
    BY <2>2, FlattenOne
  <2> QED
    BY <2>1, <2>3, Zenon DEF FlatAt
<1>4. CASE Len(nodes) = 0
  <2>1. FlattenSeq(nodes) = <<>>
    <3>1. nodes = <<>>
      BY <1>4
    <3> QED
      BY <3>1, FlattenNone
  <2> QED
    BY <1>4, <2>1
<1>5. CASE Len(nodes) = 1
  <2>1. FlattenSeq(nodes) = nodes[1]
    BY <1>5, FlattenOne
  <2> QED
    BY <1>1, <1>2, <1>5, <2>1
<1>6. CASE Len(nodes) = 2
  <2>1. FlattenSeq(nodes) = nodes[1] \o nodes[2]
    BY <1>6, FlattenTwo
  <2> DEFINE a == nodes[1]
             b == nodes[2]
  <2>2. a \in Seq(T) /\ b \in Seq(T) /\ Len(a) \in Nat /\ Len(b) \in Nat
    BY <1>1, <1>6
  <2>3. /\ DOMAIN (a \o b) = 1..(Len(a) + Len(b))
        /\ \A k \in 1..Len(a) : (a \o b)[k] = a[k]
        /\ \A k \in 1..Len(b) : (a \o b)[Len(a) + k] = b[k]
    <3> HIDE DEF a, b
    <3> QED
      BY <2>2
  <2>4. nodes[1] = a /\ nodes[2] = b /\ FlattenSeq(nodes) = a \o b
    BY <2>1
  <2>5. \A s : FlatAt(nodes, 1, s) = 0 + s /\ FlatAt(nodes, 2, s) = Len(a) + s
    BY <1>2, <1>3, <1>6
  <2> HIDE DEF a, b
  <2>6. ASSUME NEW n \in 1..Len(nodes), NEW s \in 1..Len(nodes[n])
        PROVE  /\ FlatAt(nodes, n, s) \in DOMAIN FlattenSeq(nodes)
               /\ FlattenSeq(nodes)[FlatAt(nodes, n, s)] = nodes[n][s]
    <3>1. CASE n = 1
      BY <2>2, <2>3, <2>4, <2>5, <3>1
    <3>2. CASE n = 2
      BY <2>2, <2>3, <2>4, <2>5, <3>2
    <3> QED
      BY <1>6, <3>1, <3>2
  <2>7. ASSUME NEW e \in DOMAIN FlattenSeq(nodes)
        PROVE  \E n \in 1..Len(nodes) : \E s \in 1..Len(nodes[n]) : e = FlatAt(nodes, n, s)
    <3>1. e \in 1..(Len(a) + Len(b))
      BY <2>3, <2>4
    <3>2. CASE e <= Len(a)
      BY <1>6, <2>2, <2>4, <2>5, <3>1, <3>2
    <3>3. CASE e > Len(a)
      <4>1. e - Len(a) \in 1..Len(nodes[2]) /\ e = FlatAt(nodes, 2, e - Len(a))
        BY <2>2, <2>4, <2>5, <3>1, <3>3
      <4> QED
        BY <1>6, <4>1
    <3> QED
      BY <2>2, <3>1, <3>2, <3>3
  <2>8. ASSUME NEW n \in 1..Len(nodes), NEW m \in 1..Len(nodes),
               NEW s \in 1..Len(nodes[n]), NEW c \in 1..Len(nodes[m])
        PROVE  FlatAt(nodes, n, s) < FlatAt(nodes, m, c) <=> n < m \/ (n = m /\ s < c)
    BY <1>6, <2>2, <2>4, <2>5
  <2> QED
    BY <2>6, <2>7, <2>8
<1> QED
  BY <1>1, <1>4, <1>5, <1>6
=============================================================================
