----------------------------- MODULE EventList ------------------------------
(***************************************************************************)
(* The event list of one struct topic (task_utils.c): an unrolled list of  *)
(* nodes, each an array of at most MAX_EVENTS_NODE events, and the counter *)
(* event_count, filled by ullist_event_add_end while the configuration is  *)
(* read.  A list is the sequence of its nodes, a node the sequence of the  *)
(* events in use; the null pointer is the empty list.                      *)
(*                                                                         *)
(* An event stands for its fields and for its event_hash: the hashes of    *)
(* equal events are equal, and no operation here looks further.            *)
(***************************************************************************)
EXTENDS Integers, SequencesExt

CONSTANTS Event,            \* the events the configuration can name
          MAX_EVENTS, MAX_EVENTS_NODE,
          AllocMayFail      \* whether malloc can return NULL

ASSUME EventListAssumption == /\ MAX_EVENTS \in Nat
                              /\ MAX_EVENTS_NODE \in Nat \ {0}
                              /\ AllocMayFail \in BOOLEAN

(* The limit on the counter lies beyond the first node: if it did not, the  *)
(* list would refuse its events before the duplicate test does.             *)
ASSUME LimitPastNode == MAX_EVENTS_NODE < MAX_EVENTS

VARIABLES events,        \* t->events
          event_count,   \* t->event_count
          ret,           \* what the last ullist_event_add_end returned
          offered,       \* the event it was given; <<>> before the first call
          failed,        \* mallocs that returned NULL (observed, not read)
          crashed        \* a null pointer was followed

vars == <<events, event_count, ret, offered, failed, crashed>>

Init == /\ events = <<>> /\ event_count = 0
        /\ ret = 0 /\ offered = <<>>
        /\ failed = 0 /\ crashed = FALSE

LastNode == events[Len(events)]
Stored == {s \in (1..Len(events)) \X (1..MAX_EVENTS_NODE) : s[2] <= Len(events[s[1]])}

(* The slots ullist_event_add_end fills in its array hashes: for each node  *)
(* i but the last, put_hashes adds every event from node i to the end.      *)
Hashes == {h \in (1..(Len(events) - 1)) \X Stored : h[1] <= h[2][1]}

(* The comparison guards an empty statement: the first pass of the loop     *)
(* returns 1, whatever the hashes are.                                      *)
find_duplicate(e) == Hashes # {}

Call(e) == ~crashed /\ offered' = <<e>>

(* Mutant: the limit read as the last count allowed. *)
AtLimitOneLater == event_count > MAX_EVENTS

AtLimit == event_count >= MAX_EVENTS

(* ullist_event_add_end, one action for each way through it. *)
CountAtLimit(e) == /\ Call(e)
                   /\ AtLimit
                   /\ ret' = -1
                   /\ UNCHANGED <<events, event_count, failed, crashed>>

FirstNode(e) == /\ Call(e)
                /\ ~AtLimit /\ event_count = 0
                /\ \/ events' = <<<<e>>>> /\ UNCHANGED failed
                   \/ AllocMayFail /\ events' = <<>> /\ failed' = failed + 1
                /\ event_count' = 1
                /\ ret' = 0
                /\ UNCHANGED crashed

FollowNull(e) == /\ Call(e)
                 /\ ~AtLimit /\ event_count > 0 /\ events = <<>>
                 /\ crashed' = TRUE
                 /\ UNCHANGED <<events, event_count, ret, failed>>

Listed == ~AtLimit /\ event_count > 0 /\ events # <<>>

Duplicate(e) == /\ Call(e) /\ Listed
                /\ find_duplicate(e)
                /\ ret' = 1
                /\ UNCHANGED <<events, event_count, failed, crashed>>

(* Mutant: the bound read as the last index. *)
RoomInLastOneMore == Len(LastNode) <= MAX_EVENTS_NODE

RoomInLast == Len(LastNode) < MAX_EVENTS_NODE

(* Mutant: the caller's counter bumped only for a new node. *)
InLastNodeUncounted(e) == /\ Call(e) /\ Listed
                          /\ ~find_duplicate(e) /\ RoomInLast
                          /\ events' = [events EXCEPT ![Len(events)] = Append(@, e)]
                          /\ ret' = 0
                          /\ UNCHANGED <<event_count, failed, crashed>>

InLastNode(e) == /\ Call(e) /\ Listed
                 /\ ~find_duplicate(e) /\ RoomInLast
                 /\ events' = [events EXCEPT ![Len(events)] = Append(@, e)]
                 /\ event_count' = event_count + 1
                 /\ ret' = 0
                 /\ UNCHANGED <<failed, crashed>>

(* Mutants: the new node put in front; the old nodes dropped, as when the   *)
(* result of create_events_node is stored in t->events.                     *)
NewNodeInFront(e) == /\ Call(e) /\ Listed
                     /\ ~find_duplicate(e) /\ ~RoomInLast
                     /\ events' = <<<<e>>>> \o events
                     /\ event_count' = event_count + 1
                     /\ ret' = 0
                     /\ UNCHANGED <<failed, crashed>>

NewNodeAlone(e) == /\ Call(e) /\ Listed
                   /\ ~find_duplicate(e) /\ ~RoomInLast
                   /\ \/ events' = <<<<e>>>> /\ UNCHANGED failed
                      \/ AllocMayFail /\ events' = <<>> /\ UNCHANGED failed
                   /\ event_count' = event_count + 1
                   /\ ret' = 0
                   /\ UNCHANGED crashed

NewNode(e) == /\ Call(e) /\ Listed
              /\ ~find_duplicate(e) /\ ~RoomInLast
              /\ \/ events' = Append(events, <<e>>) /\ UNCHANGED failed
                 \/ AllocMayFail /\ UNCHANGED events /\ failed' = failed + 1
              /\ event_count' = event_count + 1
              /\ ret' = 0
              /\ UNCHANGED crashed

ullist_event_add_end(e) == \/ CountAtLimit(e) \/ FirstNode(e) \/ FollowNull(e)
                           \/ Duplicate(e) \/ InLastNode(e) \/ NewNode(e)

Next == \E e \in Event : ullist_event_add_end(e)

Spec == Init /\ [][Next]_vars

-----------------------------------------------------------------------------
(* Properties *)

TypeOK == /\ events \in Seq(Seq(Event))
          /\ event_count \in 0..MAX_EVENTS
          /\ ret \in {-1, 0, 1}
          /\ offered \in {<<>>} \cup {<<e>> : e \in Event}
          /\ failed \in 0..MAX_EVENTS
          /\ crashed \in BOOLEAN

(* No node is empty or overfull, and only the last has room: FOR_EACH_EVENT *)
(* walks count slots of each node, and every one of them was written.       *)
Packed == \A j \in 1..Len(events) : /\ Len(events[j]) \in 1..MAX_EVENTS_NODE
                                    /\ j < Len(events) => Len(events[j]) = MAX_EVENTS_NODE

(* The counter exceeds what the list holds by the allocations that failed,  *)
(* and by nothing else: print_events and the limit test read the counter,   *)
(* FOR_EACH_EVENT the nodes.                                                *)
CountExplained ==
    event_count = failed + (IF events = <<>> THEN 0
                            ELSE (Len(events) - 1) * MAX_EVENTS_NODE + Len(LastNode))

(* The walk to the last node follows a null pointer only if the allocation  *)
(* for the very first event failed and was counted all the same.            *)
CrashOnlyIfFirstLost == crashed => failed = 1 /\ events = <<>>

(* The list is, for its callers, a log of MAX_EVENTS_NODE + 1 events:       *)
(* ullist_event_add_end keeps what it took, in order, loses an event only   *)
(* to a failed allocation, refuses nothing before that many are in (or one  *)
(* was lost), and everything then.                                          *)
Abstract == INSTANCE BoundedLog WITH log <- FlattenSeq(events), lost <- failed, answer <- ret,
                                     Capacity <- MAX_EVENTS_NODE + 1

ImplementsBoundedLog == Abstract!Spec

(* ullist_event_add_end logs "Duplicate event found" only of an event that  *)
(* the topic already has.                                                   *)
DuplicateIsDuplicate ==
    ret = 1 => \E s \in Stored : offered = <<events[s[1]][s[2]]>>

(* A topic never holds the same event twice. *)
NoDuplicateStored ==
    \A r, s \in Stored : events[r[1]][r[2]] = events[s[1]][s[2]] => r = s
=============================================================================
