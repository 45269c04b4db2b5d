---------------------------- MODULE AlertsProofs ----------------------------
(***************************************************************************)
(* The invariants of module Alerts for all topic lists, messages and       *)
(* contents of user_groups that AlertsAssumption admits.                   *)
(***************************************************************************)
EXTENDS Alerts, TLAPS

InMember == pc \in {"accounts", "section", "event", "mail"}
InWalk == pc \in {"section", "event", "mail"}

Names == UNION {{f[k].name : k \in DOMAIN f} : f \in Files \ {Broken}}
Account == [name : Names, port : Nat]
Reading == [sections : {<<>>} \cup (Files \ {Broken}), lost : SUBSET Nat]

Typed == /\ TypeOK
         /\ eml \in Seq(Account) /\ seen \in Seq(Reading)
         /\ i > 0 /\ node > 0 /\ slot > 0 /\ sct > 0

(* The message there is, and the topic found for it.                        *)
Found == /\ pc \notin {"idle", "crashed", "dead"} => msg \in Messages
         /\ pc = "member" \/ InMember => topic \in DOMAIN tpc /\ msg.data # NoData
         /\ InMember => i <= Len(msg.data)

(* One reading of user_groups for each member walked through or begun, the  *)
(* last one that under way.                                                 *)
Readings == /\ pc \in {"store", "parse"} => seen = <<>>
            /\ pc \in {"member", "accounts"} => Len(seen) = i - 1
            /\ InWalk => Len(seen) = i
            /\ pc = "section" => seen[i].sections = pkg

(* The cursors are on an event, or behind the last node.                    *)
OnEvent == /\ pc \in {"event", "mail"} /\ MoreEvents => slot <= Len(Nodes[node])
           /\ pc = "mail" => MoreEvents

IInv == Typed /\ Found /\ Readings /\ OnEvent

-----------------------------------------------------------------------------
(* A list of nodes, of members or of sections has its positions from 1 to   *)
(* its length.                                                              *)
LEMMA ListDomain == ASSUME NEW s, IsList(s)
                    PROVE  Len(s) \in Nat /\ DOMAIN s = 1..Len(s)
BY DEF IsList

(* What the assumption says of the lists the invariant mentions.            *)
LEMMA Lists ==
    ASSUME IInv
    PROVE  /\ DOMAIN tpc = 1..Len(tpc) /\ Len(tpc) \in Nat
           /\ topic \in DOMAIN tpc =>
                 /\ Len(Nodes) \in 0..2 /\ DOMAIN Nodes = 1..Len(Nodes)
                 /\ \A n \in 1..Len(Nodes) : /\ Len(Nodes[n]) \in Nat \ {0}
                                             /\ DOMAIN Nodes[n] = 1..Len(Nodes[n])
           /\ msg \in Messages /\ msg.data # NoData =>
                 Len(msg.data) \in Nat /\ DOMAIN msg.data = 1..Len(msg.data)
           /\ Len(pkg) \in Nat /\ DOMAIN pkg = 1..Len(pkg)
           /\ \A k \in DOMAIN pkg : pkg[k].port \in Int /\ pkg[k].name \in Names
<1>1. tpc \in TopicLists /\ pkg \in {<<>>} \cup (Files \ {Broken})
  BY DEF IInv, Typed, TypeOK
<1>2. DOMAIN tpc = 1..Len(tpc) /\ Len(tpc) \in Nat
  BY <1>1, AlertsAssumption, ListDomain
<1>3. ASSUME topic \in DOMAIN tpc
      PROVE  /\ Len(Nodes) \in 0..2 /\ DOMAIN Nodes = 1..Len(Nodes)
             /\ \A n \in 1..Len(Nodes) : /\ Len(Nodes[n]) \in Nat \ {0}
                                         /\ DOMAIN Nodes[n] = 1..Len(Nodes[n])
  <2>1. /\ IsList(Nodes) /\ Len(Nodes) <= 2
        /\ \A n \in DOMAIN Nodes : IsList(Nodes[n]) /\ Len(Nodes[n]) > 0
    BY <1>1, <1>3, AlertsAssumption DEF Nodes
  <2>2. Len(Nodes) \in Nat /\ DOMAIN Nodes = 1..Len(Nodes)
    BY <2>1, ListDomain, Zenon
  <2>3. ASSUME NEW n \in 1..Len(Nodes)
        PROVE  Len(Nodes[n]) \in Nat \ {0} /\ DOMAIN Nodes[n] = 1..Len(Nodes[n])
    <3>1. IsList(Nodes[n]) /\ Len(Nodes[n]) > 0
      BY <2>1, <2>2
    <3>2. Len(Nodes[n]) \in Nat /\ DOMAIN Nodes[n] = 1..Len(Nodes[n])
      BY <3>1, ListDomain
    <3> QED
      BY <3>1, <3>2
  <2> QED
    BY <2>1, <2>2, <2>3
<1>4. ASSUME msg \in Messages, msg.data # NoData
      PROVE  Len(msg.data) \in Nat /\ DOMAIN msg.data = 1..Len(msg.data)
  BY <1>4, AlertsAssumption, ListDomain
<1>5. /\ Len(pkg) \in Nat /\ DOMAIN pkg = 1..Len(pkg)
      /\ \A k \in DOMAIN pkg : pkg[k].port \in Int /\ pkg[k].name \in Names
  <2>1. CASE pkg = <<>>
    BY <2>1
  <2>2. CASE pkg \in Files \ {Broken}
    BY <2>2, AlertsAssumption, ListDomain DEF Names
  <2> QED
    BY <1>1, <2>1, <2>2
<1> QED
  BY <1>2, <1>3, <1>4, <1>5

(* A reading begun is appended to those before it, and nothing is lost of it. *)
LEMMA ReadingBegins ==
    ASSUME Typed, NEW p \in {<<>>} \cup (Files \ {Broken})
    PROVE  LET more == Append(seen, [sections |-> p, lost |-> {}])
           IN  /\ more \in Seq(Reading) /\ Len(more) = Len(seen) + 1
               /\ more[Len(seen) + 1].sections = p
               /\ \A k \in DOMAIN more : more[k].lost \subseteq DOMAIN more[k].sections
<1> DEFINE r == [sections |-> p, lost |-> {}]
           more == Append(seen, r)
<1>1. seen \in Seq(Reading) /\ Len(seen) \in Nat
  BY DEF Typed
<1>2. r \in Reading /\ r.sections = p /\ r.lost = {}
  BY DEF Reading
<1> HIDE DEF r
<1>3. /\ more \in Seq(Reading) /\ Len(more) = Len(seen) + 1 /\ more[Len(seen) + 1] = r
      /\ \A k \in 1..Len(seen) : more[k] = seen[k]
      /\ DOMAIN more = 1..(Len(seen) + 1) /\ DOMAIN seen = 1..Len(seen)
  BY <1>1, <1>2
<1>4. ASSUME NEW k \in DOMAIN more PROVE more[k].lost \subseteq DOMAIN more[k].sections
  <2>1. CASE k \in 1..Len(seen)
    BY <1>3, <2>1 DEF Typed, TypeOK
  <2>2. CASE k = Len(seen) + 1
    BY <1>2, <1>3, <2>2
  <2> QED
    BY <1>1, <1>3, <2>1, <2>2
<1> QED
  BY <1>2, <1>3, <1>4 DEF r

(* FOR_EACH_EVENT goes to the next slot in use or to the next node.         *)
LEMMA AdvanceOnEvent ==
    ASSUME IInv, topic \in DOMAIN tpc, MoreEvents, pc \in {"event", "mail"}, Advance
    PROVE  /\ node' \in Nat /\ slot' \in Nat /\ node' > 0 /\ slot' > 0
           /\ node' <= Len(Nodes) => slot' <= Len(Nodes[node'])
<1>1. /\ node \in 1..Len(Nodes) /\ slot \in Nat \ {0}
  BY DEF IInv, Typed, TypeOK, MoreEvents
<1>2. /\ Len(Nodes) \in Nat /\ \A n \in 1..Len(Nodes) : Len(Nodes[n]) \in Nat \ {0}
  BY Lists
<1>3. CASE slot < Len(Nodes[node])
  BY <1>1, <1>2, <1>3 DEF Advance
<1>4. CASE ~(slot < Len(Nodes[node]))
  BY <1>1, <1>2, <1>4 DEF Advance
<1> QED
  BY <1>3, <1>4

-----------------------------------------------------------------------------
LEMMA InitInv == Init => IInv
<1> SUFFICES ASSUME Init PROVE IInv
  OBVIOUS
<1>1. TypeOK
  BY DEF Init, TypeOK
<1>2. Typed
  BY <1>1 DEF Init, Typed
<1> QED
  BY <1>2 DEF Init, IInv, Found, Readings, OnEvent, InMember, InWalk

(* Every action preserves the inductive invariant. *)
LEMMA InvStep == IInv /\ [Next]_vars => IInv'
<1> SUFFICES ASSUME IInv, [Next]_vars PROVE IInv'
  OBVIOUS
<1>0. Typed /\ TypeOK /\ Found /\ Readings /\ OnEvent
  BY DEF IInv, Typed
<1> USE DEF At, Running, cursors, loading, InMember, InWalk
<1>1. ASSUME Stored PROVE IInv'
  BY <1>0, <1>1, Lists
     DEF Stored, IInv, Typed, TypeOK, Found, Readings, OnEvent, MoreEvents, Nodes
<1>2. ASSUME NotStored PROVE IInv'
  BY <1>0, <1>2, Lists
     DEF NotStored, IInv, Typed, TypeOK, Found, Readings, OnEvent, MoreEvents, Nodes
<1>3. ASSUME StoreCrashes PROVE IInv'
  BY <1>0, <1>3, Lists
     DEF StoreCrashes, IInv, Typed, TypeOK, Found, Readings, OnEvent, MoreEvents, Nodes
<1>4. ASSUME Confirmed PROVE IInv'
  BY <1>0, <1>4, Lists
     DEF Confirmed, IInv, Typed, TypeOK, Found, Readings, OnEvent, MoreEvents, Nodes
<1>5. ASSUME NotConfirmed PROVE IInv'
  BY <1>0, <1>5, Lists
     DEF NotConfirmed, IInv, Typed, TypeOK, Found, Readings, OnEvent, MoreEvents, Nodes
<1>6. ASSUME NextMember PROVE IInv'
  BY <1>0, <1>6, Lists
     DEF NextMember, IInv, Typed, TypeOK, Found, Readings, OnEvent, MoreEvents, Nodes
<1>7. ASSUME LoadAccounts PROVE IInv'
  <2>1. pkg' \in {<<>>} \cup (Files \ {Broken})
    BY <1>0, <1>7 DEF LoadAccounts, TypeOK
  <2>2. /\ seen' \in Seq(Reading) /\ Len(seen') = i /\ seen'[i].sections = pkg'
        /\ \A k \in DOMAIN seen' : seen'[k].lost \subseteq DOMAIN seen'[k].sections
    BY <1>0, <1>7, <2>1, ReadingBegins DEF LoadAccounts, Readings, Typed, TypeOK
  <2> QED
    BY <1>0, <1>7, <2>1, <2>2
       DEF LoadAccounts, IInv, Typed, TypeOK, Found, Readings, OnEvent, MoreEvents, Nodes
<1>8. ASSUME NoContext PROVE IInv'
  <2>1. /\ seen' \in Seq(Reading) /\ Len(seen') = i /\ seen'[i].sections = pkg'
        /\ \A k \in DOMAIN seen' : seen'[k].lost \subseteq DOMAIN seen'[k].sections
    BY <1>0, <1>8, ReadingBegins DEF NoContext, Readings, Typed, TypeOK
  <2> QED
    BY <1>0, <1>8, <2>1
       DEF NoContext, IInv, Typed, TypeOK, Found, Readings, OnEvent, MoreEvents, Nodes
<1>9. ASSUME LoadCrashes PROVE IInv'
  BY <1>0, <1>9, Lists
     DEF LoadCrashes, IInv, Typed, TypeOK, Found, Readings, OnEvent, MoreEvents, Nodes
<1>10. ASSUME AddAccount PROVE IInv'
  <2>0. Section.port >= 0
    BY <1>10, Zenon DEF AddAccount, IsAccount
  <2>1. sct \in DOMAIN pkg /\ Section.port \in Nat /\ Section.name \in Names
    BY <1>0, <1>10, <2>0, Lists DEF AddAccount, AtSection, Section, Typed, TypeOK
  <2>2. create_email_node \in Account
    BY <2>1 DEF create_email_node, Account
  <2>3. eml' \in Seq(Account) /\ \A k \in DOMAIN eml' : eml'[k].port \in Nat
    <3>1. eml' \in Seq(Account)
      BY <1>0, <1>10, <2>2 DEF AddAccount, llist_add_email_end, Typed
    <3>2. \A k \in DOMAIN eml' : eml'[k] \in Account
      BY <3>1
    <3> QED
      BY <3>1, <3>2 DEF Account
  <2>4. sct' \in Nat /\ sct' > 0
    BY <1>0, <1>10 DEF AddAccount, Typed, TypeOK
  <2> QED
    BY <1>0, <1>10, <2>3, <2>4
       DEF AddAccount, AtSection, IInv, Typed, TypeOK, Found, Readings, OnEvent, MoreEvents, Nodes, Member
<1>11. ASSUME NoAccount PROVE IInv'
  <2>1. sct \in DOMAIN pkg /\ seen[i].sections = pkg /\ i \in 1..Len(seen) /\ pc = "section"
    BY <1>0, <1>11, Lists DEF NoAccount, AtSection, Readings, Typed, TypeOK
  <2>2. seen[i] \in Reading /\ sct \in Nat
    BY <1>0, <2>1 DEF Typed, TypeOK
  <2> DEFINE r == [seen[i] EXCEPT !.lost = @ \cup {sct}]
  <2>3. r \in Reading /\ r.sections = pkg /\ r.lost = seen[i].lost \cup {sct}
    BY <2>1, <2>2 DEF Reading
  <2>4. /\ seen' \in Seq(Reading) /\ Len(seen') = Len(seen) /\ seen'[i] = r
        /\ \A k \in 1..Len(seen) : k # i => seen'[k] = seen[k]
        /\ DOMAIN seen' = 1..Len(seen) /\ DOMAIN seen = 1..Len(seen)
    <3>1. seen' = [seen EXCEPT ![i] = r]
      BY <1>11 DEF NoAccount
    <3> HIDE DEF r
    <3> QED
      BY <1>0, <2>1, <2>3, <3>1 DEF Typed
  <2>5. ASSUME NEW k \in DOMAIN seen' PROVE seen'[k].lost \subseteq DOMAIN seen'[k].sections
    <3>1. seen[k].lost \subseteq DOMAIN seen[k].sections
      BY <1>0, <2>4, <2>5 DEF Typed, TypeOK
    <3> QED
      BY <2>1, <2>3, <2>4, <3>1
  <2>6. seen'[i].sections = pkg /\ sct' \in Nat /\ sct' > 0
    BY <1>0, <1>11, <2>3, <2>4 DEF NoAccount, Typed, TypeOK
  <2> QED
    BY <1>0, <1>11, <2>1, <2>4, <2>5, <2>6
       DEF NoAccount, AtSection, IInv, Typed, TypeOK, Found, Readings, OnEvent, MoreEvents, Nodes, Member
<1>12. ASSUME SkipSection PROVE IInv'
  BY <1>0, <1>12
     DEF SkipSection, AtSection, IInv, Typed, TypeOK, Found, Readings, OnEvent, MoreEvents, Nodes, Member
<1>13. ASSUME SectionsEnd PROVE IInv'
  BY <1>0, <1>13, Lists
     DEF SectionsEnd, IInv, Typed, TypeOK, Found, Readings, OnEvent, MoreEvents, Nodes
<1>14. ASSUME NameCrashes PROVE IInv'
  <2>1. topic \in DOMAIN tpc /\ node \in 1..Len(Nodes) /\ pc = "event"
    BY <1>0, <1>14 DEF NameCrashes, Found, Typed, TypeOK, MoreEvents
  <2>2. Nodes # <<>>
    BY <2>1
  <2> QED
    BY <1>0, <1>14, <2>1, <2>2
       DEF NameCrashes, IInv, Typed, TypeOK, Found, Readings, OnEvent, MoreEvents, Nodes, Member
<1>15. ASSUME SkipEvent PROVE IInv'
  <2>1. topic \in DOMAIN tpc /\ MoreEvents /\ Advance /\ pc = "event"
    BY <1>0, <1>15 DEF SkipEvent, Found
  <2>2. /\ node' \in Nat /\ slot' \in Nat /\ node' > 0 /\ slot' > 0
        /\ node' <= Len(Nodes) => slot' <= Len(Nodes[node'])
    BY <2>1, AdvanceOnEvent
  <2> QED
    BY <1>0, <1>15, <2>1, <2>2
       DEF SkipEvent, IInv, Typed, TypeOK, Found, Readings, OnEvent, MoreEvents, Nodes
<1>16. ASSUME PickEvent PROVE IInv'
  BY <1>0, <1>16, Lists
     DEF PickEvent, IInv, Typed, TypeOK, Found, Readings, OnEvent, MoreEvents, Nodes
<1>17. ASSUME EndMember PROVE IInv'
  BY <1>0, <1>17, Lists
     DEF EndMember, IInv, Typed, TypeOK, Found, Readings, OnEvent, MoreEvents, Nodes
<1>18. ASSUME Delete PROVE IInv'
  BY <1>0, <1>18, Lists
     DEF Delete, IInv, Typed, TypeOK, Found, Readings, OnEvent, MoreEvents, Nodes
<1>19. ASSUME Edit PROVE IInv'
  BY <1>0, <1>19, Lists
     DEF Edit, IInv, Typed, TypeOK, Found, Readings, OnEvent, MoreEvents, Nodes
<1>20. ASSUME Cancelled PROVE IInv'
  BY <1>0, <1>20, Lists
     DEF Cancelled, IInv, Typed, TypeOK, Found, Readings, OnEvent, MoreEvents, Nodes
<1>21. ASSUME NEW r \in Results, SendMail(r) PROVE IInv'
  <2>1. topic \in DOMAIN tpc /\ MoreEvents /\ Advance /\ pc = "mail"
    BY <1>0, <1>21 DEF SendMail, Found, OnEvent
  <2>2. /\ node' \in Nat /\ slot' \in Nat /\ node' > 0 /\ slot' > 0
        /\ node' <= Len(Nodes) => slot' <= Len(Nodes[node'])
    BY <2>1, AdvanceOnEvent
  <2>3. mails' \in Seq([member : Nat, node : Nat, slot : Nat, port : Nat,
                        result : Results, logged : BOOLEAN])
    BY <1>0, <1>21 DEF SendMail, TypeOK
  <2> QED
    BY <1>0, <1>21, <2>1, <2>2, <2>3
       DEF SendMail, IInv, Typed, TypeOK, Found, Readings, OnEvent, MoreEvents, Nodes
<1>22. ASSUME NEW m \in Messages, Receive(m) PROVE IInv'
  BY <1>0, <1>22, Lists
     DEF Receive, IInv, Typed, TypeOK, Found, Readings, OnEvent, MoreEvents, Nodes
<1>23. CASE UNCHANGED vars
  BY <1>0, <1>23
     DEF vars, IInv, Typed, TypeOK, Found, Readings, OnEvent, MoreEvents, Nodes, Member
<1> QED
  BY <1>1, <1>2, <1>3, <1>4, <1>5, <1>6, <1>7, <1>8, <1>9, <1>10, <1>11, <1>12, <1>13, <1>14, <1>15, <1>16, <1>17, <1>18, <1>19, <1>20, <1>21, <1>22, <1>23 DEF Next, Handle, Mail

(* The invariant holds of the handling of any number of messages.           *)
THEOREM Invariance == Spec => []IInv
BY InitInv, InvStep, PTL DEF Spec

-----------------------------------------------------------------------------
(* The cursors, the accounts and the mails keep their types.                *)
THEOREM TypeCorrect == Spec => []TypeOK
<1>1. IInv => TypeOK
  BY DEF IInv, Typed
<1> QED
  BY <1>1, Invariance, PTL

(* The walks over members and events read only what is there, and           *)
(* user_groups is read once for each member.                                *)
THEOREM CursorsStayInside == Spec => []CursorsInside
<1>1. ASSUME IInv PROVE CursorsInside
  <2>1. i \in Nat /\ i > 0 /\ slot \in Nat /\ slot > 0
    BY <1>1 DEF IInv, Typed, TypeOK
  <2>2. ASSUME InWalk PROVE i \in DOMAIN msg.data /\ Len(seen) = i
    BY <1>1, <2>1, <2>2, Lists DEF IInv, Found, Readings, InWalk, InMember
  <2>3. ASSUME pc \in {"event", "mail"}, MoreEvents PROVE slot \in 1..Len(Nodes[node])
    <3>1. topic \in DOMAIN tpc /\ node \in 1..Len(Nodes)
      BY <1>1, <2>3 DEF IInv, Typed, TypeOK, Found, InMember, MoreEvents
    <3> QED
      BY <1>1, <2>1, <2>3, <3>1, Lists DEF IInv, OnEvent
  <2>4. pc = "mail" => MoreEvents
    BY <1>1 DEF IInv, OnEvent
  <2> QED
    BY <2>2, <2>3, <2>4 DEF CursorsInside, InWalk
<1> QED
  BY <1>1, Invariance, PTL
=============================================================================
