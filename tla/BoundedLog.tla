----------------------------- MODULE BoundedLog -----------------------------
(* What the event list of a topic amounts to for its callers: a log that    *)
(* takes what it is given, in order, until it is full, and then refuses     *)
(* everything.  When memory runs out it may lose an event that it claims to *)
(* have taken; only then may it refuse before it is full.  Module EventList *)
(* is shown to implement it, and ConfigLoad fills its lists by it.          *)
EXTENDS Naturals, Sequences

CONSTANTS Event, Capacity    \* Capacity: a natural number

VARIABLES log,      \* the events taken, oldest first
          lost,     \* how many it has lost
          answer    \* 0: taken; anything else: refused

vars == <<log, lost, answer>>

Init == log = <<>> /\ lost = 0 /\ answer = 0

Take(e) == /\ Len(log) < Capacity
           /\ log' = Append(log, e)
           /\ answer' = 0
           /\ UNCHANGED lost

Lose == /\ Len(log) < Capacity
        /\ lost' = lost + 1
        /\ answer' = 0
        /\ UNCHANGED log

Refuse == /\ Len(log) = Capacity \/ lost > 0
          /\ answer' # 0
          /\ UNCHANGED <<log, lost>>

Next == Lose \/ Refuse \/ \E e \in Event : Take(e)

Spec == Init /\ [][Next]_vars
=============================================================================
