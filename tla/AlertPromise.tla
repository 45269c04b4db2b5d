---------------------------- MODULE AlertPromise ----------------------------
(* What the alerts of one message promise: an event of the message's topic  *)
(* is mailed at most once for each member of "data", in the order of the    *)
(* members and then of the events, and only if the member satisfies it.     *)
(* Module Alerts is shown to implement it.                                  *)
EXTENDS Integers, Sequences

CONSTANT NoMessage

VARIABLES topics,     \* the configured topics: [name, events], fixed
          message,    \* the message being handled: [topic, data], or NoMessage
          mailed      \* the alerts mailed for it: [member, event] positions

vars == <<topics, message, mailed>>

(* Where the member's value may lie, by comparator: -1 below the reference, *)
(* 0 at it, 1 above it.                                                     *)
Sides == {<<"<", -1>>, <<">", 1>>, <<"==", 0>>, <<"!=", -1>>, <<"!=", 1>>,
          <<"=<", -1>>, <<"=<", 0>>, <<"<=", -1>>, <<"<=", 0>>,
          <<"=>", 0>>, <<"=>", 1>>, <<">=", 0>>, <<">=", 1>>}

SideOf(value, ref) == IF value < ref THEN -1 ELSE IF value = ref THEN 0 ELSE 1

(* Text has no order: only "==" and "!=" mean something. *)
Satisfies(member, event) ==
    /\ member.name = event.param
    /\ \/ /\ member.type = "number" /\ event.type = "numeric"
          /\ <<event.comp, SideOf(member.value, event.ref)>> \in Sides
       \/ /\ member.type = "string" /\ event.type = "alphanumeric"
          /\ event.comp = "==" /\ member.value = event.ref
       \/ /\ member.type = "string" /\ event.type = "alphanumeric"
          /\ event.comp = "!=" /\ member.value # event.ref

(* The first of the topics with the message's name is the one that counts.  *)
IsTopicOf(t, m) == /\ topics[t].name = m.topic
                   /\ \A u \in 1..(t - 1) : topics[u].name # m.topic

Due(a) == \E t \in DOMAIN topics :
              /\ IsTopicOf(t, message)
              /\ a.member \in DOMAIN message.data
              /\ a.event \in DOMAIN topics[t].events
              /\ Satisfies(message.data[a.member], topics[t].events[a.event])

Precedes(a, b) == a.member < b.member \/ (a.member = b.member /\ a.event < b.event)

Init == message = NoMessage /\ mailed = <<>>

Receive == /\ message = NoMessage
           /\ message' # NoMessage
           /\ UNCHANGED <<topics, mailed>>

Mail == /\ message # NoMessage
        /\ Len(mailed') = Len(mailed) + 1
        /\ SubSeq(mailed', 1, Len(mailed)) = mailed
        /\ Due(mailed'[Len(mailed')])
        /\ \A i \in DOMAIN mailed : Precedes(mailed[i], mailed'[Len(mailed')])
        /\ UNCHANGED <<topics, message>>

Finish == /\ message # NoMessage
          /\ message' = NoMessage /\ mailed' = <<>>
          /\ UNCHANGED topics

Next == Receive \/ Mail \/ Finish

Spec == Init /\ [][Next]_vars
=============================================================================
