------------------------------- MODULE Alerts -------------------------------
(***************************************************************************)
(* One message after another through on_message (main_utils.c): the row in *)
(* the database, the members of "data", and for each member the mail       *)
(* accounts, the topic's events and the mails (task_utils.c, uci_utils.c,  *)
(* curl_utils.c).  The callbacks of one client never overlap; the file     *)
(* user_groups can be edited at any moment, and is read again for every    *)
(* member.                                                                 *)
(*                                                                         *)
(* Strings are opaque but for equality; the doubles are integers.          *)
(***************************************************************************)
EXTENDS Integers, SequencesExt

CONSTANTS TopicLists,   \* the lists data->tpc may be: sequences of [name, events]
          Messages,     \* the messages the broker may send: [topic, data]
          Files,        \* what user_groups may hold: sections [type, name, port], or Broken
          NoData,       \* cJSON found no "data"
          NoName,       \* the name of an array's member: the null pointer
          Broken,       \* a user_groups that uci_load does not load
          NoMessage

NoPort == -1            \* a section without the option

IsList(s) == /\ Len(s) \in Nat
             /\ s = [k \in 1..Len(s) |-> s[k]]

(* A topic's list consists of nodes that are not empty (EventList's Packed),  *)
(* and of at most two of them (EventListProofs' SecondNodeCloses); "data" has *)
(* its members in a row; ports come from atoi.  NoMessage stands for no       *)
(* message.                                                                 *)
ASSUME AlertsAssumption ==
    /\ \A l \in TopicLists :
          /\ IsList(l)
          /\ \A t \in DOMAIN l :
                /\ IsList(l[t].events) /\ Len(l[t].events) <= 2
                /\ \A n \in DOMAIN l[t].events : /\ IsList(l[t].events[n])
                                                 /\ Len(l[t].events[n]) > 0
    /\ \A m \in Messages : m.data = NoData \/ IsList(m.data)
    /\ \A f \in Files \ {Broken} : IsList(f) /\ \A k \in DOMAIN f : f[k].port \in Int
    /\ NoMessage \notin Messages

(* The operands of compare_numeric are numbers: cJSON's valuedouble and what  *)
(* atof made of the reference.                                                *)
ASSUME NumbersAssumption ==
    /\ \A m \in Messages : m.data # NoData =>
          \A k \in DOMAIN m.data : m.data[k].type = "number" => m.data[k].value \in Int
    /\ \A l \in TopicLists : \A t \in DOMAIN l : \A n \in DOMAIN l[t].events :
          \A k \in DOMAIN l[t].events[n] :
             l[t].events[n][k].type = "numeric" => l[t].events[n][k].ref \in Int

VARIABLES tpc,          \* data->tpc; events: a sequence of nodes, as in EventList
          db,           \* data->db: "open", or "lost" once closed behind it
          file,         \* user_groups
          pc,           \* where the callback is
          msg,          \* the message, until the next one
          topic,        \* the topic confirm_data found
          i,            \* cursor of cJSON_ArrayForEach
          pkg, sct,     \* user_groups as loaded, and the cursor of its sections
          eml,          \* the accounts send_event has read: [name, port]
          node, slot,   \* cursors of FOR_EACH_EVENT
          mails,        \* the calls of send_mail for this message (observed)
          seen          \* for each member so far, the sections loaded and those for
                        \* which there was no memory: [sections, lost] (observed)

vars == <<tpc, db, file, pc, msg, topic, i, pkg, sct, eml, node, slot, mails, seen>>

loading == <<pkg, sct>>
cursors == <<topic, i, loading, eml, node, slot, seen>>

Results == {"no_recipients", "no_handle", "sent", "failed"}

-----------------------------------------------------------------------------
(* The comparisons of task_utils.c. *)

convert_comparator(c) == CASE c = "<" -> "LESS"
                           [] c = ">" -> "MORE"
                           [] c = "==" -> "EQUAL"
                           [] c = "!=" -> "NOT_EQUAL"
                           [] c \in {"=<", "<="} -> "LESS_EQUAL"
                           [] c \in {"=>", ">="} -> "MORE_EQUAL"
                           [] OTHER -> "none"

(* Mutant: the operands the wrong way round. *)
compare_numeric_swapped(comparator, value, ref) ==
    LET op == convert_comparator(comparator)
    IN  \/ op \in {"LESS", "LESS_EQUAL", "NOT_EQUAL"} /\ ref < value
        \/ op \in {"MORE", "MORE_EQUAL", "NOT_EQUAL"} /\ ref > value
        \/ op \in {"EQUAL", "LESS_EQUAL", "MORE_EQUAL"} /\ value = ref

compare_numeric(comparator, value, ref) ==
    LET op == convert_comparator(comparator)
    IN  \/ op \in {"LESS", "LESS_EQUAL", "NOT_EQUAL"} /\ value < ref
        \/ op \in {"MORE", "MORE_EQUAL", "NOT_EQUAL"} /\ value > ref
        \/ op \in {"EQUAL", "LESS_EQUAL", "MORE_EQUAL"} /\ value = ref

compare_alphanumeric(comparator, value, ref) ==
    LET op == convert_comparator(comparator)
    IN  \/ op = "EQUAL" /\ value = ref
        \/ op = "NOT_EQUAL" /\ value # ref

-----------------------------------------------------------------------------
Init == /\ tpc \in TopicLists
        /\ db = "open" /\ file \in Files
        /\ pc = "idle" /\ msg = NoMessage
        /\ topic = 1 /\ i = 1 /\ node = 1 /\ slot = 1
        /\ pkg = <<>> /\ sct = 1 /\ eml = <<>>
        /\ mails = <<>> /\ seen = <<>>

At(p) == pc = p
Running == pc \notin {"crashed", "dead"}

Receive(m) == /\ At("idle")
              /\ pc' = "store" /\ msg' = m
              /\ mails' = <<>> /\ seen' = <<>>
              /\ UNCHANGED <<tpc, db, file, topic, i, loading, eml, node, slot>>

(* add_msg_sqlite; it returns 0 whether or not the row was inserted. *)
Stored == /\ At("store") /\ db = "open"
          /\ pc' = "parse"
          /\ UNCHANGED <<tpc, db, file, msg, cursors, mails>>

(* The statement cannot be prepared: the connection is closed, and on_message *)
(* returns.  On a connection closed before, sqlite3_prepare_v2 is undefined,  *)
(* and so is the second sqlite3_close.                                        *)
NotStored == /\ At("store")
             /\ db' = "lost"
             /\ pc' = "idle"
             /\ UNCHANGED <<tpc, file, msg, cursors, mails>>

StoreCrashes == /\ At("store") /\ db = "lost"
                /\ pc' = "crashed"
                /\ UNCHANGED <<tpc, db, file, msg, cursors, mails>>

find_topic(t) == /\ tpc[t].name = msg.topic
                 /\ \A u \in 1..(t - 1) : tpc[u].name # msg.topic

(* cJSON_Parse and confirm_data. *)
Confirmed == /\ At("parse") /\ msg.data # NoData
             /\ \E t \in DOMAIN tpc : find_topic(t) /\ topic' = t
             /\ pc' = "member" /\ i' = 1
             /\ UNCHANGED <<tpc, db, file, msg, loading, eml, node, slot, mails, seen>>

NotConfirmed == /\ At("parse")
                /\ msg.data = NoData \/ \A t \in DOMAIN tpc : tpc[t].name # msg.topic
                /\ pc' = "delete"
                /\ UNCHANGED <<tpc, db, file, msg, cursors, mails>>

NextMember == /\ At("member")
              /\ pc' = IF i > Len(msg.data) THEN "delete" ELSE "accounts"
              /\ UNCHANGED <<tpc, db, file, msg, cursors, mails>>

-----------------------------------------------------------------------------
(* send_event *)

(* utils_get_available_emails.  If uci_load fails, the caller tests for the *)
(* wrong error, and goes on with a freed context and a package pointer      *)
(* nobody set: any sections may be there.                                   *)
LoadAccounts == /\ At("accounts")
                /\ pkg' \in IF file = Broken THEN Files \ {Broken} ELSE {file}
                /\ sct' = 1
                /\ seen' = Append(seen, [sections |-> pkg', lost |-> {}])
                /\ pc' = "section"
                /\ UNCHANGED <<tpc, db, file, msg, topic, i, eml, node, slot, mails>>

(* uci_alloc_context fails: there are no accounts. *)
NoContext == /\ At("accounts")
             /\ pkg' = <<>> /\ sct' = 1
             /\ seen' = Append(seen, [sections |-> <<>>, lost |-> {}])
             /\ pc' = "section"
             /\ UNCHANGED <<tpc, db, file, msg, topic, i, eml, node, slot, mails>>

LoadCrashes == /\ At("accounts") /\ file = Broken
               /\ pc' = "crashed"
               /\ UNCHANGED <<tpc, db, file, msg, cursors, mails>>

Section == pkg[sct]
AtSection == At("section") /\ sct <= Len(pkg)

(* Mutant: the test of the port is left out. *)
IsAccountAnyPort == Section.type = "email" /\ Section.name # ""

(* create_email_from_section. *)
IsAccount == Section.type = "email" /\ Section.name # "" /\ Section.port >= 0
create_email_node == [name |-> Section.name, port |-> Section.port]

(* Mutant: in front of the others. *)
llist_add_email_front == <<create_email_node>> \o eml

llist_add_email_end == Append(eml, create_email_node)

AddAccount == /\ AtSection /\ IsAccount
              /\ eml' = llist_add_email_end
              /\ sct' = sct + 1
              /\ UNCHANGED <<tpc, db, file, pc, msg, topic, i, pkg, node, slot, mails, seen>>

(* malloc fails: the account is left out. *)
NoAccount == /\ AtSection /\ IsAccount
             /\ seen' = [seen EXCEPT ![i].lost = @ \cup {sct}]
             /\ sct' = sct + 1
             /\ UNCHANGED <<tpc, db, file, pc, msg, topic, i, pkg, eml, node, slot, mails>>

SkipSection == /\ AtSection /\ ~IsAccount
               /\ sct' = sct + 1
               /\ UNCHANGED <<tpc, db, file, pc, msg, topic, i, pkg, eml, node, slot, mails, seen>>

(* uci_free_context; the walk over the events begins. *)
SectionsEnd == /\ At("section") /\ sct > Len(pkg)
               /\ pkg' = <<>> /\ sct' = 1
               /\ node' = 1 /\ slot' = 1
               /\ pc' = "event"
               /\ UNCHANGED <<tpc, db, file, msg, topic, i, eml, mails, seen>>

Nodes == tpc[topic].events
Member == msg.data[i]
Curr == Nodes[node][slot]
MoreEvents == node <= Len(Nodes)

(* Mutants: the walk ends with the first node; count taken as the last slot. *)
AdvanceInFirstNode == IF slot < Len(Nodes[node])
                      THEN slot' = slot + 1 /\ UNCHANGED node
                      ELSE slot' = 1 /\ node' = Len(Nodes) + 1

AdvancePastCount == IF slot <= Len(Nodes[node])
                    THEN slot' = slot + 1 /\ UNCHANGED node
                    ELSE slot' = 1 /\ node' = node + 1

(* FOR_EACH_EVENT: the next slot in use, or the next node. *)
Advance == IF slot < Len(Nodes[node])
           THEN slot' = slot + 1 /\ UNCHANGED node
           ELSE slot' = 1 /\ node' = node + 1

find_email(k) == /\ eml[k].name = Curr.sender
                 /\ \A j \in 1..(k - 1) : eml[j].name # Curr.sender

Applies == Member.name = Curr.param /\ \E k \in DOMAIN eml : find_email(k)
Triggered == \/ /\ Curr.type = "numeric" /\ Member.type = "number"
                /\ compare_numeric(Curr.comp, Member.value, Curr.ref)
             \/ /\ Curr.type = "alphanumeric" /\ Member.type = "string"
                /\ compare_alphanumeric(Curr.comp, Member.value, Curr.ref)

(* strcmp of a parameter name with the null pointer. *)
NameCrashes == /\ At("event") /\ MoreEvents /\ Member.name = NoName
               /\ pc' = "crashed"
               /\ UNCHANGED <<tpc, db, file, msg, cursors, mails>>

SkipEvent == /\ At("event") /\ MoreEvents /\ Member.name # NoName
             /\ ~(Applies /\ Triggered)
             /\ Advance
             /\ UNCHANGED <<tpc, db, file, pc, msg, topic, i, loading, eml, seen, mails>>

PickEvent == /\ At("event") /\ MoreEvents /\ Member.name # NoName
             /\ Applies /\ Triggered
             /\ pc' = "mail"
             /\ UNCHANGED <<tpc, db, file, msg, cursors, mails>>

(* send_mail.  "Sent a message" is logged after the failure of a transfer   *)
(* too.                                                                     *)
SendMail(r) == /\ At("mail")
               /\ r = "no_recipients" <=> Curr.recipient_count < 1
               /\ \E k \in DOMAIN eml :
                     /\ find_email(k)
                     /\ mails' = Append(mails, [member |-> i, node |-> node, slot |-> slot,
                                                port |-> eml[k].port, result |-> r,
                                                logged |-> r \in {"sent", "failed"}])
               /\ Advance
               /\ pc' = "event"
               /\ UNCHANGED <<tpc, db, file, msg, topic, i, loading, eml, seen>>

(* Mutant: the cursor of cJSON_ArrayForEach stays. *)
EndMemberStays == /\ At("event") /\ ~MoreEvents
                  /\ eml' = <<>>
                  /\ pc' = "member"
                  /\ UNCHANGED <<tpc, db, file, msg, topic, i, loading, node, slot, mails>>
                  /\ seen' = SubSeq(seen, 1, i - 1)

EndMember == /\ At("event") /\ ~MoreEvents
             /\ eml' = <<>> /\ i' = i + 1
             /\ pc' = "member"
             /\ UNCHANGED <<tpc, db, file, msg, topic, loading, node, slot, seen, mails>>

Delete == /\ At("delete")
          /\ pc' = "idle"
          /\ UNCHANGED <<tpc, db, file, msg, cursors, mails>>

-----------------------------------------------------------------------------
(* Somebody edits user_groups. *)
Edit == /\ Running
        /\ file' \in Files \ {file}
        /\ UNCHANGED <<tpc, db, pc, msg, cursors, mails>>

(* main_loop stops the thread by force, in the middle of a message. *)
Cancelled == /\ Running /\ ~At("idle")
             /\ pc' = "dead"
             /\ UNCHANGED <<tpc, db, file, msg, cursors, mails>>

Handle == \/ Stored \/ NotStored \/ StoreCrashes \/ Confirmed \/ NotConfirmed \/ NextMember
          \/ LoadAccounts \/ NoContext \/ LoadCrashes \/ AddAccount \/ NoAccount \/ SkipSection
          \/ SectionsEnd \/ NameCrashes \/ SkipEvent \/ PickEvent
          \/ EndMember \/ Delete

Mail == \E r \in Results : SendMail(r)

Next == Handle \/ Mail \/ Edit \/ Cancelled \/ \E m \in Messages : Receive(m)

Spec == Init /\ [][Next]_vars

(* The callback runs on; nothing is assumed of an SMTP server, for which    *)
(* send_mail waits without a limit.                                         *)
FairSpec == Spec /\ WF_vars(Handle)

-----------------------------------------------------------------------------
(* Properties *)

TypeOK == /\ tpc \in TopicLists
          /\ db \in {"open", "lost"} /\ file \in Files
          /\ pc \in {"idle", "store", "parse", "member", "accounts", "section", "event", "mail",
                     "delete", "crashed", "dead"}
          /\ msg \in Messages \cup {NoMessage}
          /\ topic \in Nat /\ i \in Nat /\ node \in Nat /\ slot \in Nat
          /\ pkg \in {<<>>} \cup (Files \ {Broken}) /\ sct \in Nat
          /\ \A k \in DOMAIN eml : eml[k].port \in Nat
          /\ mails \in Seq([member : Nat, node : Nat, slot : Nat, port : Nat,
                            result : Results, logged : BOOLEAN])
          /\ \A k \in DOMAIN seen : seen[k].lost \subseteq DOMAIN seen[k].sections

(* In a walk over the members and the events the cursors stay on an event:  *)
(* FOR_EACH_EVENT never reads past a node's count, nor cJSON_ArrayForEach    *)
(* past the last member.                                                    *)
CursorsInside == pc \in {"section", "event", "mail"} =>
                    /\ i \in DOMAIN msg.data
                    /\ Len(seen) = i
                    /\ MoreEvents /\ pc # "section" => slot \in 1..Len(Nodes[node])
                    /\ pc = "mail" => MoreEvents

(* A message is handled to its end as long as no SMTP server keeps a mail   *)
(* waiting for ever.                                                        *)
HandledIfMailAnswers ==
    []<>(pc # "mail") => (pc = "store" ~> pc \in {"idle", "crashed", "dead"})

(* send_mail logs "Sent a message" of a mail that was sent. *)
SentMeansSent == \A k \in DOMAIN mails : mails[k].logged => mails[k].result = "sent"

-----------------------------------------------------------------------------
(* The list without its nodes, for the abstract module. *)
FlatTopics == [t \in DOMAIN tpc |-> [name |-> tpc[t].name, events |-> FlattenSeq(tpc[t].events)]]
Flat(n, s) == Len(FlattenSeq(SubSeq(Nodes, 1, n - 1))) + s
FlatMails == [k \in DOMAIN mails |-> [member |-> mails[k].member,
                                     event |-> Flat(mails[k].node, mails[k].slot)]]
PortMails == {[member |-> mails[k].member, event |-> Flat(mails[k].node, mails[k].slot),
               port |-> mails[k].port] : k \in DOMAIN mails}
Open == pc # "idle"

Promise == INSTANCE AlertPromise WITH
              topics <- FlatTopics,
              message <- IF Open THEN msg ELSE NoMessage,
              mailed <- IF Open THEN FlatMails ELSE <<>>

(* on_message mails an event at most once for a member of "data", in order, *)
(* and only if the member satisfies it: the walks over the members and over *)
(* the nodes, the comparators and the types come to that.                   *)
KeepsPromise == Promise!Spec

(* Section k of a user_groups read as [sections, lost] gives an account of  *)
(* that name: an email section with a name and a port, for which there was  *)
(* memory.                                                                  *)
Gives(loaded, k, name) == /\ loaded.sections[k].type = "email"
                          /\ loaded.sections[k].name = name /\ name # ""
                          /\ loaded.sections[k].port >= 0
                          /\ k \notin loaded.lost

(* The server of an account: that of the first section that gives it.       *)
Server(loaded, name) ==
    {loaded.sections[k].port : k \in
        {k \in DOMAIN loaded.sections : /\ Gives(loaded, k, name)
                                       /\ \A j \in 1..(k - 1) : ~Gives(loaded, j, name)}}

(* The mails a message asks for, at the members it was walked through, if   *)
(* member m sees the accounts of accounts[m].                               *)
Asked(accounts) ==
    UNION {UNION {{[member |-> m, event |-> e, port |-> p] :
                      p \in Server(accounts[m], FlatTopics[topic].events[e].sender)} :
              e \in {e \in DOMAIN FlatTopics[topic].events :
                       Promise!Satisfies(msg.data[m], FlatTopics[topic].events[e])}} :
           m \in DOMAIN accounts}

(* When the members have been walked through, exactly the events they ask   *)
(* for have been mailed, each by the first account of its sender's name in  *)
(* the user_groups read for that member: none is skipped, and an account    *)
(* missing for one member is missing for no other.                          *)
Complete == pc = "delete" => PortMails = Asked(seen)

(* A message that crashes the process does so between two members.  Whether *)
(* the closed connection, a user_groups that does not load or a member      *)
(* without a name is the cause, the members before have been mailed in      *)
(* full, by the accounts read for each, and the one it crashed at not at    *)
(* all: no alert of an earlier member is lost with the process, and no      *)
(* member is alerted in part.                                               *)
CrashBetweenMembers ==
    pc = "crashed" => PortMails = {a \in Asked(seen) : a.member < i}

(* "sends an email if event occurs": when on_message has returned, the      *)
(* events the message asks for, given the one user_groups there is, have    *)
(* been mailed.                                                             *)
EventIsMailed ==
    pc = "idle" /\ msg # NoMessage /\ msg.data # NoData =>
        \A t \in DOMAIN tpc : find_topic(t) =>
            \A m \in DOMAIN msg.data : \A e \in DOMAIN FlatTopics[t].events :
                Promise!Satisfies(msg.data[m], FlatTopics[t].events[e])
                    => \E k \in DOMAIN mails : mails[k].member = m
=============================================================================
