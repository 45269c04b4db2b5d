-------------------------- MODULE EventListProofs --------------------------
(***************************************************************************)
(* The safety invariants of module EventList for every set of events and   *)
(* every MAX_EVENTS and MAX_EVENTS_NODE, with and without failing          *)
(* allocations, and that it implements BoundedLog.                         *)
(***************************************************************************)
EXTENDS EventList, SharedLemmas, TLAPS

NoNode == events = <<>>
OneNode == Len(events) = 1 /\ Len(events[1]) \in 1..MAX_EVENTS_NODE
TwoNodes == Len(events) = 2 /\ Len(events[1]) = MAX_EVENTS_NODE /\ Len(events[2]) = 1

(* The three shapes the list can have, and what the counters say of each.   *)
IInv == /\ TypeOK
        /\ \/ NoNode /\ event_count = failed /\ failed \in 0..1
           \/ OneNode /\ event_count = failed + Len(events[1])
           \/ TwoNodes /\ event_count = failed + MAX_EVENTS_NODE + 1
        /\ CrashOnlyIfFirstLost

-----------------------------------------------------------------------------
(* put_hashes fills the array as soon as there is a second node, and never  *)
(* before: from then on find_duplicate reports a duplicate for any event.   *)
LEMMA SecondNodeHashes ==
    ASSUME TypeOK
    PROVE  /\ Len(events) \in 0..1 => Hashes = {}
           /\ TwoNodes => Hashes # {}
<1> USE EventListAssumption
<1>1. ASSUME Len(events) \in 0..1, NEW h \in Hashes PROVE FALSE
  <2>1. PICK n \in 0..1 : n = Len(events)
    BY <1>1
  <2>2. PICK i \in 1..(n - 1) : i = h[1]
    BY <2>1 DEF Hashes
  <2> QED
    BY <2>2
<1>2. ASSUME TwoNodes PROVE <<1, <<1, 1>>>> \in Hashes
  BY <1>2 DEF Hashes, Stored, TwoNodes
<1> QED
  BY <1>1, <1>2

(* Appending an event to the last node, or a node to the list. *)
LEMMA AppendShapes ==
    ASSUME TypeOK, NEW e \in Event
    PROVE  /\ <<<<e>>>> \in Seq(Seq(Event))
           /\ Len(<<<<e>>>>) = 1 /\ Len(<<<<e>>>>[1]) = 1
           /\ LET grown == [events EXCEPT ![Len(events)] = Append(@, e)]
              IN  events # <<>> => /\ grown \in Seq(Seq(Event))
                                   /\ Len(grown) = Len(events)
                                   /\ Len(grown[Len(events)]) = Len(LastNode) + 1
           /\ LET longer == Append(events, <<e>>)
              IN  /\ longer \in Seq(Seq(Event))
                  /\ Len(longer) = Len(events) + 1
                  /\ Len(longer[Len(events) + 1]) = 1
                  /\ \A j \in 1..Len(events) : longer[j] = events[j]
<1>1. <<e>> \in Seq(Event) /\ Len(<<e>>) = 1
  OBVIOUS
<1>2. events \in Seq(Seq(Event))
  BY DEF TypeOK
<1>3. ASSUME events # <<>>
      PROVE  LET grown == [events EXCEPT ![Len(events)] = Append(@, e)]
             IN  /\ grown \in Seq(Seq(Event))
                 /\ Len(grown) = Len(events)
                 /\ Len(grown[Len(events)]) = Len(LastNode) + 1
  <2> DEFINE grown == [events EXCEPT ![Len(events)] = Append(@, e)]
  <2>1. Len(events) \in 1..Len(events)
    BY <1>2, <1>3
  <2>2. /\ LastNode \in Seq(Event)
        /\ Append(LastNode, e) \in Seq(Event)
        /\ Len(Append(LastNode, e)) = Len(LastNode) + 1
    BY <1>2, <2>1 DEF LastNode
  <2>3. grown \in Seq(Seq(Event)) /\ Len(grown) = Len(events)
    BY <1>2, <2>1, <2>2 DEF LastNode
  <2>4. grown[Len(events)] = Append(LastNode, e)
    BY <1>2, <2>1 DEF LastNode
  <2> QED
    BY <2>2, <2>3, <2>4
<1> QED
  BY <1>1, <1>2, <1>3

LEMMA InitInv == Init => IInv
<1> SUFFICES ASSUME Init PROVE IInv
  OBVIOUS
<1>1. events \in Seq(Seq(Event)) /\ offered \in {<<>>} \cup {<<e>> : e \in Event}
  BY DEF Init
<1>2. event_count \in 0..MAX_EVENTS /\ ret \in {-1, 0, 1} /\ failed \in 0..MAX_EVENTS
  BY EventListAssumption DEF Init
<1>3. TypeOK
  BY <1>1, <1>2, Zenon DEF Init, TypeOK
<1> QED
  BY <1>3 DEF Init, IInv, NoNode, CrashOnlyIfFirstLost

(* Every way through ullist_event_add_end preserves the inductive invariant. *)
LEMMA InvStep == IInv /\ [Next]_vars => IInv'
<1> SUFFICES ASSUME IInv, [Next]_vars PROVE IInv'
  OBVIOUS
<1> USE EventListAssumption
<1>0. TypeOK
  BY DEF IInv
<1>1. ASSUME NEW e \in Event, CountAtLimit(e) PROVE IInv'
  BY <1>1 DEF IInv, TypeOK, CountAtLimit, Call, NoNode, OneNode, TwoNodes, CrashOnlyIfFirstLost
<1>2. ASSUME NEW e \in Event, FirstNode(e) PROVE IInv'
  <2>1. event_count = 0 /\ failed = 0 /\ ~crashed /\ ~crashed'
    BY <1>2, <1>0 DEF IInv, FirstNode, Call, NoNode, OneNode, TwoNodes, TypeOK
  <2>2. CASE events' = <<<<e>>>> /\ failed' = failed
    <3>1. OneNode' /\ event_count' = failed' + Len(events'[1])
      BY <1>2, <2>1, <2>2, <1>0, AppendShapes DEF FirstNode, OneNode
    <3>2. TypeOK'
      BY <1>2, <2>1, <2>2, <1>0, AppendShapes DEF FirstNode, TypeOK, Call, AtLimit
    <3> QED
      BY <2>1, <3>1, <3>2 DEF IInv, CrashOnlyIfFirstLost
  <2>3. CASE events' = <<>> /\ failed' = failed + 1
    BY <1>2, <2>1, <2>3, <1>0
       DEF FirstNode, IInv, TypeOK, Call, AtLimit, NoNode, CrashOnlyIfFirstLost
  <2> QED
    BY <1>2, <2>2, <2>3 DEF FirstNode
<1>3. ASSUME NEW e \in Event, FollowNull(e) PROVE IInv'
  <2>1. Len(events) = 0
    BY <1>3 DEF FollowNull
  <2> QED
    BY <1>3, <2>1
       DEF FollowNull, Call, IInv, TypeOK, NoNode, OneNode, TwoNodes, CrashOnlyIfFirstLost
<1>4. ASSUME NEW e \in Event, Duplicate(e) PROVE IInv'
  BY <1>4 DEF IInv, TypeOK, Duplicate, Call, NoNode, OneNode, TwoNodes, CrashOnlyIfFirstLost
(* The list is one node: had it two, find_duplicate would have answered.    *)
<1>5. ASSUME NEW e \in Event, Call(e), Listed, ~find_duplicate(e)
      PROVE  /\ OneNode /\ event_count = failed + Len(events[1]) /\ LastNode = events[1]
             /\ ~crashed /\ event_count \in 1..(MAX_EVENTS - 1)
  <2>1. ~TwoNodes /\ ~NoNode
    BY <1>5, <1>0, SecondNodeHashes DEF find_duplicate, Listed, NoNode
  <2> QED
    BY <1>5, <1>0, <2>1 DEF IInv, OneNode, LastNode, Call, Listed, AtLimit, TypeOK
<1>6. ASSUME NEW e \in Event, InLastNode(e) PROVE IInv'
  <2>1. /\ OneNode /\ event_count = failed + Len(events[1]) /\ LastNode = events[1]
        /\ ~crashed /\ event_count \in 1..(MAX_EVENTS - 1)
    BY <1>5, <1>6 DEF InLastNode
  <2>2. /\ events' \in Seq(Seq(Event)) /\ Len(events') = 1
        /\ Len(events'[1]) = Len(events[1]) + 1
    BY <1>6, <1>0, <2>1, AppendShapes DEF InLastNode, OneNode, Listed
  <2>3. OneNode' /\ event_count' = failed' + Len(events'[1])
    BY <1>6, <1>0, <2>1, <2>2 DEF InLastNode, OneNode, RoomInLast, TypeOK
  <2>4. TypeOK'
    BY <1>6, <1>0, <2>1, <2>2 DEF InLastNode, TypeOK, Call
  <2> QED
    BY <1>6, <2>1, <2>3, <2>4 DEF InLastNode, IInv, CrashOnlyIfFirstLost
<1>7. ASSUME NEW e \in Event, NewNode(e) PROVE IInv'
  <2>1. /\ OneNode /\ event_count = failed + Len(events[1]) /\ LastNode = events[1]
        /\ ~crashed /\ event_count \in 1..(MAX_EVENTS - 1)
    BY <1>5, <1>7 DEF NewNode
  <2>2. Len(events[1]) = MAX_EVENTS_NODE
    BY <1>7, <2>1 DEF NewNode, RoomInLast, OneNode
  <2>3. CASE events' = Append(events, <<e>>) /\ failed' = failed
    <3>1. /\ events' \in Seq(Seq(Event)) /\ Len(events') = 2
          /\ events'[1] = events[1] /\ Len(events'[2]) = 1
      BY <1>0, <2>1, <2>3, AppendShapes DEF OneNode
    <3>2. TwoNodes' /\ event_count' = failed' + MAX_EVENTS_NODE + 1
      BY <1>7, <1>0, <2>1, <2>2, <2>3, <3>1 DEF NewNode, TwoNodes, TypeOK
    <3>3. TypeOK'
      BY <1>7, <1>0, <2>1, <2>3, <3>1 DEF NewNode, TypeOK, Call
    <3> QED
      BY <1>7, <2>1, <3>2, <3>3 DEF NewNode, IInv, CrashOnlyIfFirstLost
  <2>4. CASE events' = events /\ failed' = failed + 1
    <3>1. TypeOK'
      BY <1>7, <1>0, <2>1, <2>2, <2>4 DEF NewNode, TypeOK, Call
    <3> QED
      BY <1>7, <1>0, <2>1, <2>4, <3>1
         DEF NewNode, IInv, OneNode, CrashOnlyIfFirstLost, TypeOK
  <2> QED
    BY <1>7, <2>3, <2>4 DEF NewNode
<1>8. CASE UNCHANGED vars
  BY <1>8 DEF vars, IInv, TypeOK, NoNode, OneNode, TwoNodes, CrashOnlyIfFirstLost
<1> QED
  BY <1>1, <1>2, <1>3, <1>4, <1>6, <1>7, <1>8 DEF Next, ullist_event_add_end

(* The invariant holds after any sequence of calls. *)
THEOREM Invariance == Spec => []IInv
BY InitInv, InvStep, PTL DEF Spec

-----------------------------------------------------------------------------
(* The list, the counter and the answer keep their types: the counter stays *)
(* within MAX_EVENTS.                                                       *)
THEOREM TypeCorrect == Spec => []TypeOK
<1>1. IInv => TypeOK
  BY DEF IInv
<1> QED
  BY <1>1, Invariance, PTL

(* FOR_EACH_EVENT reads only slots that were written. *)
THEOREM NodesArePacked == Spec => []Packed
<1>1. ASSUME IInv PROVE Packed
  <2>1. CASE NoNode
    BY <2>1 DEF Packed, NoNode
  <2>2. CASE OneNode
    BY <2>2 DEF Packed, OneNode
  <2>3. CASE TwoNodes
    BY <2>3, EventListAssumption DEF Packed, TwoNodes
  <2> QED
    BY <1>1, <2>1, <2>2, <2>3 DEF IInv
<1> QED
  BY <1>1, Invariance, PTL

(* The false duplicates close the list at the first event of its second     *)
(* node, so that ullist_event_add_end never builds a third.                 *)
ClosedBySecondNode == /\ Len(events) <= 2
                      /\ Len(events) = 2 => Len(events[2]) = 1

(* Whatever MAX_EVENTS is, a topic keeps at most MAX_EVENTS_NODE + 1 events: *)
(* what Alerts assumes of the lists it walks.                               *)
THEOREM SecondNodeCloses == Spec => []ClosedBySecondNode
<1>1. ASSUME IInv PROVE ClosedBySecondNode
  <2>1. CASE NoNode
    BY <2>1 DEF ClosedBySecondNode, NoNode
  <2>2. CASE OneNode
    BY <2>2 DEF ClosedBySecondNode, OneNode
  <2>3. CASE TwoNodes
    BY <2>3 DEF ClosedBySecondNode, TwoNodes
  <2> QED
    BY <1>1, <2>1, <2>2, <2>3 DEF IInv
<1> QED
  BY <1>1, Invariance, PTL

(* event_count exceeds the stored events by the failed allocations only. *)
THEOREM CountIsExplained == Spec => []CountExplained
<1>1. ASSUME IInv PROVE CountExplained
  <2>1. failed \in Nat
    BY <1>1, EventListAssumption DEF IInv, TypeOK
  <2>2. CASE NoNode /\ event_count = failed
    BY <2>1, <2>2 DEF CountExplained, NoNode
  <2>3. CASE OneNode /\ event_count = failed + Len(events[1])
    <3>1. events # <<>>
      BY <2>3 DEF OneNode
    <3>2. Len(events) - 1 = 0 /\ 0 * MAX_EVENTS_NODE = 0
      BY <2>3, EventListAssumption DEF OneNode
    <3>3. (Len(events) - 1) * MAX_EVENTS_NODE = 0
      BY <3>2
    <3>4. Len(events[Len(events)]) = Len(events[1]) /\ Len(events[1]) \in Nat
      BY <2>3 DEF OneNode
    <3> QED
      BY <2>1, <2>3, <3>1, <3>3, <3>4 DEF CountExplained, OneNode, LastNode
  <2>4. CASE TwoNodes /\ event_count = failed + MAX_EVENTS_NODE + 1
    <3>1. ASSUME events = <<>> PROVE FALSE
      BY <2>4, <3>1 DEF TwoNodes
    <3> QED
      BY <2>1, <2>4, <3>1, EventListAssumption DEF CountExplained, TwoNodes, LastNode
  <2> QED
    BY <1>1, <2>2, <2>3, <2>4 DEF IInv
<1> QED
  BY <1>1, Invariance, PTL

(* The null pointer is followed only after the first allocation failed. *)
THEOREM CrashCause == Spec => []CrashOnlyIfFirstLost
<1>1. IInv => CrashOnlyIfFirstLost
  BY DEF IInv
<1> QED
  BY <1>1, Invariance, PTL

-----------------------------------------------------------------------------
(* The refinement of BoundedLog. *)

(* What the log holds in each of the three shapes.                          *)
LEMMA LogOfShape ==
    ASSUME events \in Seq(Seq(Event))
    PROVE  LET log == FlattenSeq(events)
           IN  /\ NoNode => log = <<>>
               /\ OneNode => log = events[1]
               /\ TwoNodes => /\ log = events[1] \o events[2]
                              /\ Len(log) = MAX_EVENTS_NODE + 1
<1>1. NoNode => FlattenSeq(events) = <<>>
  BY FlattenNone DEF NoNode
<1>2. OneNode => FlattenSeq(events) = events[1]
  BY FlattenOne DEF OneNode
<1>3. ASSUME TwoNodes
      PROVE  /\ FlattenSeq(events) = events[1] \o events[2]
             /\ Len(FlattenSeq(events)) = MAX_EVENTS_NODE + 1
  <2>1. events[1] \in Seq(Event) /\ events[2] \in Seq(Event)
    BY <1>3 DEF TwoNodes
  <2>2. FlattenSeq(events) = events[1] \o events[2]
    BY <1>3, FlattenTwo DEF TwoNodes
  <2>3. Len(events[1] \o events[2]) = Len(events[1]) + Len(events[2])
    BY <2>1
  <2>4. Len(FlattenSeq(events)) = Len(events[1]) + Len(events[2])
    BY <2>2, <2>3
  <2> QED
    BY <1>3, <2>2, <2>4, EventListAssumption DEF TwoNodes
<1> QED
  BY <1>1, <1>2, <1>3

LEMMA InitLog == Init => Abstract!Init
BY FlattenNone DEF Init, Abstract!Init

(* Every way through ullist_event_add_end takes, loses or refuses an event, *)
(* or follows the null pointer and changes nothing of the log.              *)
LEMMA StepLog == IInv /\ IInv' /\ [Next]_vars => [Abstract!Next]_(Abstract!vars)
<1> SUFFICES ASSUME IInv, IInv', [Next]_vars PROVE [Abstract!Next]_(Abstract!vars)
  OBVIOUS
<1> DEFINE log == FlattenSeq(events)
<1> USE EventListAssumption
<1>0. /\ events \in Seq(Seq(Event)) /\ events' \in Seq(Seq(Event))
      /\ failed \in Nat /\ event_count \in 0..MAX_EVENTS
  BY DEF IInv, TypeOK
<1>1. /\ NoNode => log = <<>>
      /\ OneNode => log = events[1]
      /\ TwoNodes => log = events[1] \o events[2] /\ Len(log) = MAX_EVENTS_NODE + 1
  BY <1>0, LogOfShape
<1>2. /\ NoNode' => log' = <<>>
      /\ OneNode' => log' = events[1]'
      /\ TwoNodes' => log' = events[1]' \o events[2]'
  <2>1. /\ NoNode' => FlattenSeq(events') = <<>>
        /\ OneNode' => FlattenSeq(events') = events'[1]
        /\ TwoNodes' => FlattenSeq(events') = events'[1] \o events'[2]
    BY <1>0, FlattenNone, FlattenOne, FlattenTwo DEF NoNode, OneNode, TwoNodes
  <2> QED
    BY <2>1
<1> HIDE DEF log
<1>3. ASSUME NEW e \in Event, CountAtLimit(e) PROVE Abstract!Refuse
  <2>1. Len(log) = MAX_EVENTS_NODE + 1 \/ failed > 0
    <3>1. CASE NoNode
      BY <1>0, <1>3, <3>1, LimitPastNode
         DEF IInv, NoNode, OneNode, TwoNodes, CountAtLimit, AtLimit
    <3>2. CASE OneNode
      BY <1>0, <1>3, <3>2, LimitPastNode
         DEF IInv, NoNode, OneNode, TwoNodes, CountAtLimit, AtLimit
    <3> QED
      BY <1>1, <3>1, <3>2 DEF IInv
  <2>2. ret' # 0 /\ log' = log /\ failed' = failed
    BY <1>3 DEF CountAtLimit, log
  <2> QED
    BY <2>1, <2>2 DEF Abstract!Refuse, log
<1>4. ASSUME NEW e \in Event, FirstNode(e) PROVE Abstract!Take(e) \/ Abstract!Lose
  <2>1. log = <<>> /\ ret' = 0 /\ Len(log) < MAX_EVENTS_NODE + 1 /\ NoNode
    BY <1>0, <1>1, <1>4 DEF IInv, FirstNode, NoNode, OneNode, TwoNodes
  <2>2. CASE events' = <<<<e>>>> /\ failed' = failed
    <3>1. log' = <<e>> /\ <<e>> = Append(log, e)
      BY <1>2, <2>1, <2>2 DEF OneNode
    <3> QED
      BY <2>1, <2>2, <3>1 DEF Abstract!Take, log
  <2>3. CASE events' = <<>> /\ failed' = failed + 1
    <3>1. log' = log
      BY <1>2, <2>1, <2>3 DEF NoNode
    <3> QED
      BY <2>1, <2>3, <3>1 DEF Abstract!Lose, log
  <2> QED
    BY <1>4, <2>2, <2>3 DEF FirstNode
<1>5. ASSUME NEW e \in Event, FollowNull(e) PROVE UNCHANGED Abstract!vars
  BY <1>5 DEF FollowNull, Abstract!vars
<1>6. ASSUME NEW e \in Event, Duplicate(e) PROVE Abstract!Refuse
  <2>1. TwoNodes
    BY <1>0, <1>6, SecondNodeHashes
       DEF IInv, Duplicate, find_duplicate, NoNode, OneNode, TwoNodes
  <2>2. Len(log) = MAX_EVENTS_NODE + 1
    BY <1>1, <2>1
  <2>3. ret' # 0 /\ log' = log /\ failed' = failed
    BY <1>6 DEF Duplicate, log
  <2> QED
    BY <2>2, <2>3 DEF Abstract!Refuse, log
<1>7. ASSUME NEW e \in Event, Listed, ~find_duplicate(e)
      PROVE  OneNode /\ log = events[1] /\ LastNode = events[1] /\ events[1] \in Seq(Event)
  <2>1. ~TwoNodes /\ ~NoNode
    BY <1>7, SecondNodeHashes DEF find_duplicate, Listed, NoNode, IInv
  <2> QED
    BY <1>0, <1>1, <2>1 DEF IInv, OneNode, LastNode
<1>8. ASSUME NEW e \in Event, InLastNode(e) PROVE Abstract!Take(e)
  <2>1. OneNode /\ log = events[1] /\ LastNode = events[1] /\ events[1] \in Seq(Event)
    BY <1>7, <1>8 DEF InLastNode
  <2>2. OneNode' /\ events'[1] = Append(events[1], e)
    BY <1>0, <1>8, <2>1 DEF InLastNode, OneNode, RoomInLast
  <2>3. log' = Append(log, e)
    BY <1>2, <2>1, <2>2
  <2>4. Len(log) < MAX_EVENTS_NODE + 1 /\ ret' = 0 /\ failed' = failed
    BY <1>8, <2>1 DEF InLastNode, OneNode
  <2> QED
    BY <2>3, <2>4 DEF Abstract!Take, log
<1>9. ASSUME NEW e \in Event, NewNode(e) PROVE Abstract!Take(e) \/ Abstract!Lose
  <2>1. OneNode /\ log = events[1] /\ LastNode = events[1] /\ events[1] \in Seq(Event)
    BY <1>7, <1>9 DEF NewNode
  <2>2. Len(log) < MAX_EVENTS_NODE + 1 /\ ret' = 0
    BY <1>9, <2>1 DEF NewNode, OneNode
  <2>3. CASE events' = Append(events, <<e>>) /\ failed' = failed
    <3>1. Len(events[1]) = MAX_EVENTS_NODE
      BY <1>9, <2>1 DEF NewNode, RoomInLast, OneNode
    <3>2. Len(events') = 2 /\ events'[1] = events[1] /\ events'[2] = <<e>>
      <4>1. TypeOK
        BY DEF IInv
      <4> QED
        BY <1>0, <2>1, <2>3, <4>1, AppendShapes DEF OneNode
    <3>3. TwoNodes'
      BY <3>1, <3>2 DEF TwoNodes
    <3>4. events[1] \o <<e>> = Append(events[1], e)
      BY <2>1
    <3>5. log' = Append(log, e)
      BY <1>2, <2>1, <3>2, <3>3, <3>4
    <3> QED
      BY <2>2, <2>3, <3>5 DEF Abstract!Take, log
  <2>4. CASE events' = events /\ failed' = failed + 1
    BY <2>2, <2>4 DEF Abstract!Lose, log
  <2> QED
    BY <1>9, <2>3, <2>4 DEF NewNode
<1>10. CASE UNCHANGED vars
  BY <1>10 DEF vars, Abstract!vars
<1> QED
  BY <1>3, <1>4, <1>5, <1>6, <1>8, <1>9, <1>10
     DEF Next, ullist_event_add_end, Abstract!Next

(* ullist_event_add_end keeps, loses and refuses events as BoundedLog does. *)
THEOREM Refinement == Spec => ImplementsBoundedLog
BY InitLog, StepLog, Invariance, PTL DEF Spec, Abstract!Spec, ImplementsBoundedLog
=============================================================================
