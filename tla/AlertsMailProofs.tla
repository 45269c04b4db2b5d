-------------------------- MODULE AlertsMailProofs --------------------------
(***************************************************************************)
(* What the mails of a message are, for all topic lists, messages and      *)
(* contents of user_groups: exactly those that are asked for (Complete),   *)
(* in the order AlertPromise lays down (KeepsPromise).                     *)
(*                                                                         *)
(* Three invariants build on each other: IInv of AlertsProofs; Accounts,   *)
(* of the list that the reading of user_groups leaves; and Mails, of the   *)
(* mails sent by the walks so far.                                         *)
(***************************************************************************)
EXTENDS AlertsProofs, SharedLemmas

(* What find_email finds for a name, and the section that gives it.         *)
FirstNamed(list, j, name) == /\ list[j].name = name
                             /\ \A k \in 1..(j - 1) : list[k].name # name
FirstGives(loaded, k, name) == /\ Gives(loaded, k, name)
                               /\ \A j \in 1..(k - 1) : ~Gives(loaded, j, name)

(* The first n sections of a reading give a name no account, and the list   *)
(* has none; or both have one, with the same port.                          *)
Agree(list, loaded, n, name) ==
    \/ /\ \A j \in 1..Len(list) : list[j].name # name
       /\ \A k \in 1..n : ~Gives(loaded, k, name)
    \/ \E j \in 1..Len(list), k \in 1..n :
          /\ FirstNamed(list, j, name) /\ FirstGives(loaded, k, name)
          /\ list[j].port = loaded.sections[k].port

(* There are no accounts outside of send_event; in the reading the list     *)
(* agrees with the sections passed, and afterwards with all of them.        *)
Accounts ==
    /\ pc \in {"idle", "store", "parse", "member", "accounts", "delete"} => eml = <<>>
    /\ pc = "section" => /\ sct <= Len(pkg) + 1
                         /\ \A k \in seen[i].lost : k < sct
                         /\ \A name : Agree(eml, seen[i], sct - 1, name)
    /\ pc \in {"event", "mail"} => \A name : Agree(eml, seen[i], Len(seen[i].sections), name)

-----------------------------------------------------------------------------
(* A section that gives a name its account, read into the list.             *)
LEMMA AgreeAdd ==
    ASSUME NEW list \in Seq(Account), NEW a \in Account, NEW loaded, NEW n \in Nat, NEW name,
           Gives(loaded, n + 1, name) <=> a.name = name,
           a.port = loaded.sections[n + 1].port,
           Agree(list, loaded, n, name)
    PROVE  Agree(Append(list, a), loaded, n + 1, name)
<1> DEFINE more == Append(list, a)
<1>1. /\ Len(more) = Len(list) + 1 /\ Len(list) \in Nat /\ more[Len(list) + 1] = a
      /\ \A j \in 1..Len(list) : more[j] = list[j]
  OBVIOUS
<1> SUFFICES Agree(more, loaded, n + 1, name)
  OBVIOUS
<1> HIDE DEF more
<1>2. CASE /\ \A j \in 1..Len(list) : list[j].name # name
           /\ \A k \in 1..n : ~Gives(loaded, k, name)
  <2>1. CASE a.name = name
    <3>1. FirstNamed(more, Len(list) + 1, name)
      BY <1>1, <1>2, <2>1 DEF FirstNamed
    <3>2. FirstGives(loaded, n + 1, name)
      BY <1>2, <2>1 DEF FirstGives
    <3> QED
      BY <1>1, <3>1, <3>2 DEF Agree
  <2>2. CASE a.name # name
    <3>1. \A j \in 1..Len(more) : more[j].name # name
      BY <1>1, <1>2, <2>2
    <3>2. \A k \in 1..(n + 1) : ~Gives(loaded, k, name)
      BY <1>2, <2>2
    <3> QED
      BY <3>1, <3>2 DEF Agree
  <2> QED
    BY <2>1, <2>2
<1>3. CASE \E j \in 1..Len(list), k \in 1..n :
              /\ FirstNamed(list, j, name) /\ FirstGives(loaded, k, name)
              /\ list[j].port = loaded.sections[k].port
  <2>1. PICK j \in 1..Len(list), k \in 1..n :
              /\ FirstNamed(list, j, name) /\ FirstGives(loaded, k, name)
              /\ list[j].port = loaded.sections[k].port
    BY <1>3
  <2>2. FirstNamed(more, j, name)
    BY <1>1, <2>1 DEF FirstNamed
  <2>3. j \in 1..Len(more) /\ k \in 1..(n + 1) /\ more[j].port = loaded.sections[k].port
    BY <1>1, <2>1
  <2> QED
    BY <2>1, <2>2, <2>3 DEF Agree
<1> QED
  BY <1>2, <1>3 DEF Agree

(* A section that gives no account leaves the list as it is; what was lost  *)
(* of it changes nothing for the sections before.                           *)
LEMMA AgreeSkip ==
    ASSUME NEW list, NEW loaded, NEW later, NEW n \in Nat, NEW name,
           later.sections = loaded.sections,
           \A k \in 1..n : Gives(later, k, name) <=> Gives(loaded, k, name),
           ~Gives(later, n + 1, name),
           Agree(list, loaded, n, name)
    PROVE  Agree(list, later, n + 1, name)
<1>1. CASE /\ \A j \in 1..Len(list) : list[j].name # name
           /\ \A k \in 1..n : ~Gives(loaded, k, name)
  <2>1. \A k \in 1..(n + 1) : ~Gives(later, k, name)
    BY <1>1
  <2> QED
    BY <1>1, <2>1 DEF Agree
<1>2. CASE \E j \in 1..Len(list), k \in 1..n :
              /\ FirstNamed(list, j, name) /\ FirstGives(loaded, k, name)
              /\ list[j].port = loaded.sections[k].port
  <2>1. PICK j \in 1..Len(list), k \in 1..n :
              /\ FirstNamed(list, j, name) /\ FirstGives(loaded, k, name)
              /\ list[j].port = loaded.sections[k].port
    BY <1>2
  <2>2. FirstGives(later, k, name) /\ k \in 1..(n + 1)
    BY <2>1 DEF FirstGives
  <2> QED
    BY <2>1, <2>2 DEF Agree
<1> QED
  BY <1>1, <1>2 DEF Agree

(* IsAccount is what makes a section give an account of its name, if there  *)
(* is memory.                                                               *)
LEMMA AccountGives ==
    ASSUME NEW loaded, loaded.sections = pkg, NEW name
    PROVE  /\ IsAccount /\ sct \notin loaded.lost =>
                 (Gives(loaded, sct, name) <=> Section.name = name)
           /\ ~IsAccount => ~Gives(loaded, sct, name)
           /\ sct \in loaded.lost => ~Gives(loaded, sct, name)
BY Zenon DEF Gives, IsAccount, Section

-----------------------------------------------------------------------------
LEMMA InitAccounts == Init => Accounts
BY DEF Init, Accounts

(* The reading keeps the list in agreement with the sections passed.        *)
LEMMA AccountsStep == IInv /\ IInv' /\ Accounts /\ [Next]_vars => Accounts'
<1> SUFFICES ASSUME IInv, IInv', Accounts, [Next]_vars PROVE Accounts'
  OBVIOUS
<1> USE DEF At, Running, cursors, loading
<1> DEFINE Quiet == {"idle", "store", "parse", "member", "accounts", "delete"}
<1>0. /\ pc = "section" => /\ i \in 1..Len(seen) /\ seen[i].sections = pkg
                           /\ sct \in Nat \ {0} /\ seen[i] \in Reading
      /\ Len(pkg) \in Nat /\ DOMAIN pkg = 1..Len(pkg)
      /\ eml \in Seq(Account) /\ seen \in Seq(Reading) /\ i \in Nat \ {0}
  <2>1. /\ eml \in Seq(Account) /\ seen \in Seq(Reading) /\ i \in Nat \ {0} /\ sct \in Nat \ {0}
    BY DEF IInv, Typed, TypeOK
  <2>2. pc = "section" => Len(seen) = i /\ seen[i].sections = pkg
    BY DEF IInv, Readings, InWalk
  <2> QED
    BY <2>1, <2>2, Lists
(* Outside of send_event there is nothing to keep but the empty list.       *)
<1>1. ASSUME pc \in Quiet, pc' \in Quiet, eml' = eml PROVE Accounts'
  BY <1>1 DEF Accounts
<1>2. ASSUME pc' \in {"crashed", "dead"} PROVE Accounts'
  BY <1>2 DEF Accounts
(* The reading and the list stay as they are.                               *)
<1>3. ASSUME UNCHANGED <<i, eml, seen, pkg, sct>>,
             pc' = pc \/ (pc \in {"event", "mail"} /\ pc' \in {"event", "mail"})
      PROVE  Accounts'
  <2>1. CASE pc' = pc
    BY <1>3, <2>1, Zenon DEF Accounts
  <2>2. CASE pc \in {"event", "mail"} /\ pc' \in {"event", "mail"}
    BY <1>3, <2>2 DEF Accounts
  <2> QED
    BY <1>3, <2>1, <2>2
(* A reading begins: no section is passed, and the list is empty.           *)
<1>4. ASSUME LoadAccounts \/ NoContext PROVE Accounts'
  <2>1. /\ pc = "accounts" /\ pc' = "section" /\ eml' = eml /\ i' = i /\ sct' = 1
        /\ seen' = Append(seen, [sections |-> pkg', lost |-> {}])
    BY <1>4 DEF LoadAccounts, NoContext
  <2>2. Len(seen) = i - 1 /\ eml = <<>>
    BY <2>1 DEF IInv, Readings, Accounts
  <2>3. seen'[i'].lost = {}
    <3>1. seen'[i'] = [sections |-> pkg', lost |-> {}]
      BY <1>0, <2>1, <2>2
    <3> QED
      BY <3>1
  <2>4. Len(pkg') \in Nat
    <3>1. pkg' \in {<<>>} \cup (Files \ {Broken})
      BY DEF IInv, Typed, TypeOK
    <3> QED
      BY <3>1, AlertsAssumption DEF IsList
  <2>5. \A name : Agree(eml', seen'[i'], sct' - 1, name)
    BY <2>1, <2>2 DEF Agree
  <2>6. sct' <= Len(pkg') + 1 /\ \A k \in seen'[i'].lost : k < sct'
    <3>1. sct' <= Len(pkg') + 1
      BY <2>1, <2>4
    <3> QED
      BY <2>3, <3>1, Zenon
  <2>7. pc' \notin Quiet /\ pc' \notin {"event", "mail"}
    BY <2>1
  <2> QED
    BY <2>5, <2>6, <2>7, Zenon DEF Accounts
(* A section is passed.                                                     *)
<1>5. ASSUME AtSection, UNCHANGED <<pc, i, pkg>>, sct' = sct + 1,
             seen'[i].lost \subseteq seen[i].lost \cup {sct},
             \A name : Agree(eml', seen'[i], sct, name)
      PROVE  Accounts'
  <2>1. pc = "section" /\ pc' = "section" /\ sct' <= Len(pkg') + 1
    BY <1>0, <1>5 DEF AtSection
  <2>2. \A k \in seen[i].lost : k < sct
    BY <2>1 DEF Accounts
  <2>3. \A k \in seen'[i'].lost : k < sct'
    BY <1>0, <1>5, <2>1, <2>2 DEF Reading
  <2>4. sct' - 1 = sct
    BY <1>0, <1>5, <2>1
  <2>5. \A name : Agree(eml', seen'[i'], sct' - 1, name)
    BY <1>5, <2>4, Zenon
  <2> QED
    BY <2>1, <2>3, <2>5 DEF Accounts
<1>6. ASSUME AddAccount PROVE Accounts'
  <2>1. /\ pc = "section" /\ sct <= Len(pkg) /\ IsAccount /\ AtSection
        /\ UNCHANGED <<pc, i, pkg, seen>> /\ sct' = sct + 1
        /\ eml' = Append(eml, create_email_node)
    BY <1>6 DEF AddAccount, AtSection, llist_add_email_end
  <2>2. sct \notin seen[i].lost
    BY <1>0, <2>1 DEF Accounts
  <2>3. /\ create_email_node.name = Section.name
        /\ create_email_node.port = seen[i].sections[sct].port
    BY <1>0, <2>1 DEF create_email_node, Section
  <2>4. create_email_node \in Account
    <3>1. create_email_node = eml'[Len(eml) + 1] /\ Len(eml) + 1 \in 1..Len(eml')
      BY <1>0, <2>1
    <3>2. eml' \in Seq(Account)
      BY DEF IInv, Typed
    <3> QED
      BY <3>1, <3>2
  <2>5. ASSUME NEW name PROVE Agree(eml', seen'[i], sct, name)
    <3>1. Gives(seen[i], sct, name) <=> create_email_node.name = name
      BY <1>0, <2>1, <2>2, <2>3, AccountGives
    <3>2. Agree(eml, seen[i], sct - 1, name)
      BY <2>1 DEF Accounts
    <3>3. sct - 1 \in Nat /\ (sct - 1) + 1 = sct
      BY <1>0, <2>1
    <3>4. Agree(Append(eml, create_email_node), seen[i], (sct - 1) + 1, name)
      BY <1>0, <2>3, <2>4, <3>1, <3>2, <3>3, AgreeAdd
    <3> QED
      BY <2>1, <3>3, <3>4
  <2>6. seen'[i].lost \subseteq seen[i].lost \cup {sct}
    BY <2>1
  <2> QED
    BY <1>5, <2>1, <2>5, <2>6
(* The section is passed, and gives no account.                             *)
<1>7. ASSUME AtSection, UNCHANGED <<pc, i, pkg, eml>>, sct' = sct + 1,
             seen'[i].sections = seen[i].sections,
             seen'[i].lost = seen[i].lost \/ seen'[i].lost = seen[i].lost \cup {sct},
             \A name : ~Gives(seen'[i], sct, name)
      PROVE  Accounts'
  <2>1. pc = "section" /\ sct - 1 \in Nat /\ (sct - 1) + 1 = sct
    BY <1>0, <1>7 DEF AtSection
  <2>2. ASSUME NEW name, NEW k \in 1..(sct - 1)
        PROVE  Gives(seen'[i], k, name) <=> Gives(seen[i], k, name)
    <3>1. k # sct
      BY <2>1
    <3>2. k \in seen'[i].lost <=> k \in seen[i].lost
      BY <1>7, <3>1
    <3> QED
      BY <1>7, <3>2, Zenon DEF Gives
  <2>3. ASSUME NEW name PROVE Agree(eml', seen'[i], sct, name)
    <3>1. Agree(eml, seen[i], sct - 1, name)
      BY <2>1 DEF Accounts
    <3>2. ~Gives(seen'[i], (sct - 1) + 1, name)
      BY <1>7, <2>1
    <3>3. Agree(eml, seen'[i], (sct - 1) + 1, name)
      BY <1>7, <2>1, <2>2, <3>1, <3>2, AgreeSkip
    <3> QED
      BY <1>7, <2>1, <3>3
  <2>4. seen'[i].lost \subseteq seen[i].lost \cup {sct}
    BY <1>7
  <2> QED
    BY <1>5, <1>7, <2>3, <2>4
<1>8. ASSUME NoAccount PROVE Accounts'
  <2>1. /\ pc = "section" /\ UNCHANGED <<pc, i, pkg, eml>> /\ sct' = sct + 1 /\ AtSection
        /\ seen' = [seen EXCEPT ![i].lost = @ \cup {sct}]
    BY <1>8 DEF NoAccount, AtSection
  <2>2. /\ seen'[i].sections = seen[i].sections
        /\ seen'[i].lost = seen[i].lost \cup {sct}
    BY <1>0, <2>1 DEF Reading
  <2>3. ASSUME NEW name PROVE ~Gives(seen'[i], sct, name)
    <3>1. sct \in seen'[i].lost
      BY <2>2
    <3> QED
      BY <3>1, Zenon DEF Gives
  <2> QED
    BY <1>7, <2>1, <2>2, <2>3
<1>9. ASSUME SkipSection PROVE Accounts'
  <2>1. /\ pc = "section" /\ UNCHANGED <<pc, i, pkg, eml, seen>> /\ sct' = sct + 1
        /\ AtSection /\ ~IsAccount
    BY <1>9 DEF SkipSection, AtSection
  <2>2. ASSUME NEW name PROVE ~Gives(seen'[i], sct, name)
    <3>1. ~Gives(seen[i], sct, name)
      BY <1>0, <2>1, AccountGives
    <3> QED
      BY <2>1, <3>1
  <2> QED
    BY <1>7, <2>1, <2>2
(* All sections are passed.                                                 *)
<1>10. ASSUME SectionsEnd PROVE Accounts'
  <2>1. pc = "section" /\ pc' = "event" /\ UNCHANGED <<i, eml, seen>> /\ sct > Len(pkg)
    BY <1>10 DEF SectionsEnd
  <2>2. sct - 1 = Len(seen[i].sections)
    BY <1>0, <2>1 DEF Accounts
  <2>3. \A name : Agree(eml', seen'[i'], Len(seen'[i'].sections), name)
    BY <2>1, <2>2 DEF Accounts
  <2> QED
    BY <2>1, <2>3 DEF Accounts
<1>11. ASSUME EndMember PROVE Accounts'
  BY <1>11 DEF EndMember, Accounts
<1>12. ASSUME SkipEvent \/ PickEvent \/ \E r \in Results : SendMail(r) PROVE Accounts'
  <2>1. /\ UNCHANGED <<i, eml, seen, pkg, sct>>
        /\ pc \in {"event", "mail"} /\ pc' \in {"event", "mail"}
    BY <1>12 DEF SkipEvent, PickEvent, SendMail
  <2> QED
    BY <1>3, <2>1
<1>13. ASSUME Edit \/ UNCHANGED vars PROVE Accounts'
  <2>1. UNCHANGED <<i, eml, seen, pkg, sct, pc>>
    BY <1>13 DEF Edit, vars
  <2> QED
    BY <1>3, <2>1
<1>14. ASSUME StoreCrashes \/ LoadCrashes \/ NameCrashes \/ Cancelled PROVE Accounts'
  BY <1>2, <1>14 DEF StoreCrashes, LoadCrashes, NameCrashes, Cancelled
<1>15. ASSUME \/ Stored \/ NotStored \/ Confirmed \/ NotConfirmed \/ NextMember \/ Delete
              \/ \E m \in Messages : Receive(m)
       PROVE  Accounts'
  <2>1. pc \in Quiet /\ pc' \in Quiet /\ eml' = eml
    BY <1>15 DEF Stored, NotStored, Confirmed, NotConfirmed, NextMember, Delete, Receive
  <2> QED
    BY <1>1, <2>1
<1> QED
  BY <1>4, <1>6, <1>8, <1>9, <1>10, <1>11, <1>12, <1>13, <1>14, <1>15, Zenon
     DEF Next, Handle, Mail

-----------------------------------------------------------------------------
(* The walks. *)

(* The ports found in the list for a name are those of its server.          *)
LEMMA ServerFound ==
    ASSUME NEW list, NEW loaded, NEW name, Len(list) \in Nat,
           Len(loaded.sections) \in Nat, DOMAIN loaded.sections = 1..Len(loaded.sections),
           Agree(list, loaded, Len(loaded.sections), name)
    PROVE  /\ \A j \in 1..Len(list) : FirstNamed(list, j, name) =>
                                         Server(loaded, name) = {list[j].port}
           /\ (\A j \in 1..Len(list) : ~FirstNamed(list, j, name)) => Server(loaded, name) = {}
<1> DEFINE n == Len(loaded.sections)
<1>1. Server(loaded, name) = {loaded.sections[k].port : k \in {k \in 1..n : FirstGives(loaded, k, name)}}
  BY DEF Server, FirstGives
<1>2. CASE /\ \A j \in 1..Len(list) : list[j].name # name
           /\ \A k \in 1..n : ~Gives(loaded, k, name)
  BY <1>1, <1>2 DEF FirstNamed, FirstGives
<1>3. CASE \E j \in 1..Len(list), k \in 1..n :
              /\ FirstNamed(list, j, name) /\ FirstGives(loaded, k, name)
              /\ list[j].port = loaded.sections[k].port
  <2>1. PICK j \in 1..Len(list), k \in 1..n :
              /\ FirstNamed(list, j, name) /\ FirstGives(loaded, k, name)
              /\ list[j].port = loaded.sections[k].port
    BY <1>3
  <2>2. ASSUME NEW l \in 1..n, FirstGives(loaded, l, name) PROVE l = k
    BY <2>1, <2>2 DEF FirstGives
  <2>3. ASSUME NEW l \in 1..Len(list), FirstNamed(list, l, name) PROVE l = j
    BY <2>1, <2>3 DEF FirstNamed
  <2>4. Server(loaded, name) = {list[j].port}
    BY <1>1, <2>1, <2>2
  <2> QED
    BY <2>1, <2>3, <2>4
<1> QED
  BY <1>2, <1>3 DEF Agree

Position(nodes, n, s) == n \in 1..Len(nodes) /\ s \in 1..Len(nodes[n])

(* Member m and position (n, s) come before member a and position (b, c).   *)
Before(m, n, s, a, b, c) == m < a \/ (m = a /\ (n < b \/ (n = b /\ s < c)))

(* Member m of data asks for a mail of the event at (n, s), by a server at  *)
(* port p.                                                                  *)
Asks(data, nodes, read, m, n, s, p) ==
    /\ Promise!Satisfies(data[m], nodes[n][s])
    /\ p \in Server(read[m], nodes[n][s].sender)

(* The mails sent are those asked for before member a and position (b, c).  *)
UpTo(data, nodes, read, sent, a, b, c) ==
    /\ \A k \in 1..Len(sent) :
          /\ sent[k].member \in 1..Len(read) /\ Position(nodes, sent[k].node, sent[k].slot)
          /\ Before(sent[k].member, sent[k].node, sent[k].slot, a, b, c)
          /\ Asks(data, nodes, read, sent[k].member, sent[k].node, sent[k].slot, sent[k].port)
    /\ \A m \in 1..Len(read), n \in 1..Len(nodes) : \A s \in 1..Len(nodes[n]) : \A p :
          Before(m, n, s, a, b, c) /\ Asks(data, nodes, read, m, n, s, p) =>
             \E k \in 1..Len(sent) : /\ sent[k].member = m /\ sent[k].node = n
                                     /\ sent[k].slot = s /\ sent[k].port = p

(* The lists the walks go through. *)
Walked(nodes, read, sent, a) ==
    /\ Len(nodes) \in Nat /\ Len(read) \in Nat /\ Len(sent) \in Nat /\ a \in Nat
    /\ \A n \in 1..Len(nodes) : Len(nodes[n]) \in Nat \ {0}

(* Before the first member nothing is asked for.                            *)
LEMMA UpToNothing ==
    ASSUME NEW data, NEW nodes
    PROVE  UpTo(data, nodes, <<>>, <<>>, 1, 1, 1)
BY DEF UpTo

(* A new reading, or a change of the last, does not touch the members       *)
(* before.                                                                  *)
LEMMA UpToRead ==
    ASSUME NEW data, NEW nodes, NEW read, NEW read2, NEW sent, NEW a,
           Walked(nodes, read, sent, a), Len(read2) \in Nat,
           Len(read) >= a - 1, Len(read2) >= a - 1,
           \A m \in 1..(a - 1) : read2[m] = read[m],
           UpTo(data, nodes, read, sent, a, 1, 1)
    PROVE  UpTo(data, nodes, read2, sent, a, 1, 1)
<1>1. ASSUME NEW m \in Nat, NEW n \in 1..Len(nodes), NEW s \in 1..Len(nodes[n]), m > 0
      PROVE  Before(m, n, s, a, 1, 1) <=> m \in 1..(a - 1)
  BY <1>1 DEF Before, Walked
<1>2. ASSUME NEW m \in 1..(a - 1), NEW n, NEW s, NEW p
      PROVE  Asks(data, nodes, read2, m, n, s, p) <=> Asks(data, nodes, read, m, n, s, p)
  BY DEF Asks
<1>3. ASSUME NEW k \in 1..Len(sent)
      PROVE  /\ sent[k].member \in 1..Len(read2) /\ Position(nodes, sent[k].node, sent[k].slot)
             /\ Before(sent[k].member, sent[k].node, sent[k].slot, a, 1, 1)
             /\ Asks(data, nodes, read2, sent[k].member, sent[k].node, sent[k].slot, sent[k].port)
  <2>1. /\ sent[k].member \in 1..Len(read) /\ Position(nodes, sent[k].node, sent[k].slot)
        /\ Before(sent[k].member, sent[k].node, sent[k].slot, a, 1, 1)
        /\ Asks(data, nodes, read, sent[k].member, sent[k].node, sent[k].slot, sent[k].port)
    BY <1>3 DEF UpTo
  <2>2. /\ sent[k].member \in Nat /\ sent[k].member > 0
        /\ sent[k].node \in 1..Len(nodes) /\ sent[k].slot \in 1..Len(nodes[sent[k].node])
    BY <2>1 DEF Position, Walked
  <2>3. sent[k].member \in 1..(a - 1)
    BY <1>1, <2>1, <2>2, Zenon
  <2> QED
    BY <1>2, <2>1, <2>3 DEF Walked
<1>4. ASSUME NEW m \in 1..Len(read2), NEW n \in 1..Len(nodes), NEW s \in 1..Len(nodes[n]), NEW p,
             Before(m, n, s, a, 1, 1), Asks(data, nodes, read2, m, n, s, p)
      PROVE  \E k \in 1..Len(sent) : /\ sent[k].member = m /\ sent[k].node = n
                                     /\ sent[k].slot = s /\ sent[k].port = p
  <2>1. m \in 1..(a - 1)
    BY <1>1, <1>4
  <2>2. m \in 1..Len(read) /\ Asks(data, nodes, read, m, n, s, p)
    BY <1>2, <1>4, <2>1 DEF Walked
  <2> QED
    BY <1>4, <2>2 DEF UpTo
<1> QED
  BY <1>3, <1>4 DEF UpTo

(* The walk over the nodes has come to the end of the list.                 *)
LEMMA UpToMember ==
    ASSUME NEW data, NEW nodes, NEW read, NEW sent, NEW a, NEW b \in Nat, NEW c \in Nat,
           Walked(nodes, read, sent, a), b > Len(nodes),
           UpTo(data, nodes, read, sent, a, b, c)
    PROVE  UpTo(data, nodes, read, sent, a + 1, 1, 1)
<1>1. ASSUME NEW m \in Nat, NEW n \in 1..Len(nodes), NEW s \in 1..Len(nodes[n])
      PROVE  Before(m, n, s, a + 1, 1, 1) <=> Before(m, n, s, a, b, c)
  BY DEF Before, Walked
<1>2. \A k \in 1..Len(sent) :
          /\ sent[k].member \in Nat /\ sent[k].node \in 1..Len(nodes)
          /\ sent[k].slot \in 1..Len(nodes[sent[k].node])
  BY DEF UpTo, Position, Walked
<1>3. \A m \in 1..Len(read) : m \in Nat
  BY DEF Walked
<1>4. ASSUME NEW k \in 1..Len(sent)
      PROVE  Before(sent[k].member, sent[k].node, sent[k].slot, a + 1, 1, 1)
  BY <1>1, <1>2, Zenon DEF UpTo
<1>5. ASSUME NEW m \in 1..Len(read), NEW n \in 1..Len(nodes), NEW s \in 1..Len(nodes[n])
      PROVE  Before(m, n, s, a + 1, 1, 1) <=> Before(m, n, s, a, b, c)
  BY <1>1, <1>3
<1>6. ASSUME NEW m \in 1..Len(read), NEW n \in 1..Len(nodes), NEW s \in 1..Len(nodes[n]), NEW p,
             Before(m, n, s, a + 1, 1, 1), Asks(data, nodes, read, m, n, s, p)
      PROVE  \E k \in 1..Len(sent) : /\ sent[k].member = m /\ sent[k].node = n
                                     /\ sent[k].slot = s /\ sent[k].port = p
  <2>1. Before(m, n, s, a, b, c)
    BY <1>5, <1>6
  <2> QED
    BY <1>6, <2>1 DEF UpTo
<1> QED
  BY <1>4, <1>6 DEF UpTo

(* FOR_EACH_EVENT goes from (b, c) to the position that comes next.         *)
Follows(nodes, b, c, d, e) == \/ c < Len(nodes[b]) /\ e = c + 1 /\ d = b
                              \/ ~(c < Len(nodes[b])) /\ e = 1 /\ d = b + 1

LEMMA BeforeFollowing ==
    ASSUME NEW nodes, NEW a \in Nat, NEW b, NEW c, NEW d, NEW e, Position(nodes, b, c),
           Len(nodes) \in Nat, \A n \in 1..Len(nodes) : Len(nodes[n]) \in Nat \ {0},
           Follows(nodes, b, c, d, e),
           NEW m \in Nat, NEW n \in 1..Len(nodes), NEW s \in 1..Len(nodes[n])
    PROVE  Before(m, n, s, a, d, e) <=> Before(m, n, s, a, b, c) \/ (m = a /\ n = b /\ s = c)
<1>1. b \in Nat /\ c \in 1..Len(nodes[b]) /\ Len(nodes[b]) \in Nat /\ n \in Nat /\ s \in Nat
  BY DEF Position
<1>2. n = b => s <= Len(nodes[b])
  BY <1>1
<1> QED
  BY <1>1, <1>2 DEF Before, Follows

(* The event at (b, c) asks for no mail.                                    *)
LEMMA UpToSkip ==
    ASSUME NEW data, NEW nodes, NEW read, NEW sent, NEW a, NEW b, NEW c, NEW d, NEW e,
           Walked(nodes, read, sent, a), Position(nodes, b, c), Follows(nodes, b, c, d, e),
           \A p : ~Asks(data, nodes, read, a, b, c, p),
           UpTo(data, nodes, read, sent, a, b, c)
    PROVE  UpTo(data, nodes, read, sent, a, d, e)
<1>1. ASSUME NEW m \in Nat, NEW n \in 1..Len(nodes), NEW s \in 1..Len(nodes[n])
      PROVE  Before(m, n, s, a, d, e) <=> Before(m, n, s, a, b, c) \/ (m = a /\ n = b /\ s = c)
  BY BeforeFollowing DEF Walked
<1>2. \A k \in 1..Len(sent) :
          /\ sent[k].member \in Nat /\ sent[k].node \in 1..Len(nodes)
          /\ sent[k].slot \in 1..Len(nodes[sent[k].node])
  BY DEF UpTo, Position, Walked
<1>3. \A m \in 1..Len(read) : m \in Nat
  BY DEF Walked
<1> QED
  BY <1>1, <1>2, <1>3 DEF UpTo

(* The event at (b, c) asks for one mail, and it is sent.                   *)
LEMMA UpToSend ==
    ASSUME NEW data, NEW nodes, NEW read, NEW sent, NEW a, NEW b, NEW c, NEW d, NEW e,
           Walked(nodes, read, sent, a), Position(nodes, b, c), Follows(nodes, b, c, d, e),
           a \in 1..Len(read),
           NEW x, x.member = a, x.node = b, x.slot = c,
           \A p : Asks(data, nodes, read, a, b, c, p) <=> p = x.port,
           NEW more, Len(more) = Len(sent) + 1, more[Len(sent) + 1] = x,
           \A k \in 1..Len(sent) : more[k] = sent[k],
           UpTo(data, nodes, read, sent, a, b, c)
    PROVE  UpTo(data, nodes, read, more, a, d, e)
<1>1. ASSUME NEW m \in Nat, NEW n \in 1..Len(nodes), NEW s \in 1..Len(nodes[n])
      PROVE  Before(m, n, s, a, d, e) <=> Before(m, n, s, a, b, c) \/ (m = a /\ n = b /\ s = c)
  BY BeforeFollowing DEF Walked
<1>2. Len(sent) \in Nat /\ \A m \in 1..Len(read) : m \in Nat
  BY DEF Walked
<1>3. ASSUME NEW k \in 1..Len(more)
      PROVE  /\ more[k].member \in 1..Len(read) /\ Position(nodes, more[k].node, more[k].slot)
             /\ Before(more[k].member, more[k].node, more[k].slot, a, d, e)
             /\ Asks(data, nodes, read, more[k].member, more[k].node, more[k].slot, more[k].port)
  <2>1. CASE k \in 1..Len(sent)
    BY <1>1, <1>2, <2>1 DEF UpTo, Position
  <2>2. CASE k = Len(sent) + 1
    BY <1>1, <1>2, <2>2 DEF Position
  <2> QED
    BY <1>2, <2>1, <2>2
<1>4. ASSUME NEW m \in 1..Len(read), NEW n \in 1..Len(nodes), NEW s \in 1..Len(nodes[n]), NEW p,
             Before(m, n, s, a, d, e), Asks(data, nodes, read, m, n, s, p)
      PROVE  \E k \in 1..Len(more) : /\ more[k].member = m /\ more[k].node = n
                                     /\ more[k].slot = s /\ more[k].port = p
  <2>1. CASE Before(m, n, s, a, b, c)
    <3>1. PICK k \in 1..Len(sent) : /\ sent[k].member = m /\ sent[k].node = n
                                    /\ sent[k].slot = s /\ sent[k].port = p
      BY <1>4, <2>1 DEF UpTo
    <3> QED
      BY <1>2, <3>1
  <2>2. CASE m = a /\ n = b /\ s = c
    BY <1>2, <1>4, <2>2
  <2> QED
    BY <1>1, <1>2, <1>4, <2>1, <2>2
<1> QED
  BY <1>3, <1>4 DEF UpTo

(* The code's comparators and AlertPromise's sides of the reference agree:  *)
(* on numbers for all eight comparators, on texts for "==" and "!=".        *)
LEMMA NumericSides ==
    ASSUME NEW c, NEW v \in Int, NEW r \in Int
    PROVE  compare_numeric(c, v, r) <=> <<c, Promise!SideOf(v, r)>> \in Promise!Sides
<1>1. CASE v < r
  <2>1. Promise!SideOf(v, r) = -1
    BY <1>1 DEF Promise!SideOf
  <2>2. <<c, -1>> \in Promise!Sides <=> c \in {"<", "!=", "=<", "<="}
    BY DEF Promise!Sides
  <2>3. compare_numeric(c, v, r) <=> c \in {"<", "!=", "=<", "<="}
    BY <1>1 DEF compare_numeric, convert_comparator
  <2> QED
    BY <2>1, <2>2, <2>3
<1>2. CASE v = r
  <2>1. Promise!SideOf(v, r) = 0
    BY <1>2 DEF Promise!SideOf
  <2>2. <<c, 0>> \in Promise!Sides <=> c \in {"==", "=<", "<=", "=>", ">="}
    BY DEF Promise!Sides
  <2>3. compare_numeric(c, v, r) <=> c \in {"==", "=<", "<=", "=>", ">="}
    BY <1>2 DEF compare_numeric, convert_comparator
  <2> QED
    BY <2>1, <2>2, <2>3
<1>3. CASE v > r
  <2>1. Promise!SideOf(v, r) = 1
    BY <1>3 DEF Promise!SideOf
  <2>2. <<c, 1>> \in Promise!Sides <=> c \in {">", "!=", "=>", ">="}
    BY DEF Promise!Sides
  <2>3. compare_numeric(c, v, r) <=> c \in {">", "!=", "=>", ">="}
    BY <1>3 DEF compare_numeric, convert_comparator
  <2> QED
    BY <2>1, <2>2, <2>3
<1> QED
  BY <1>1, <1>2, <1>3

LEMMA TextSides ==
    ASSUME NEW c, NEW v, NEW r
    PROVE  compare_alphanumeric(c, v, r) <=> \/ c = "==" /\ v = r
                                             \/ c = "!=" /\ v # r
BY DEF compare_alphanumeric, convert_comparator

(* send_event mails the events that AlertPromise says a member satisfies.   *)
LEMMA TriggeredSatisfies ==
    ASSUME Member.type = "number" => Member.value \in Int,
           Curr.type = "numeric" => Curr.ref \in Int
    PROVE  Member.name = Curr.param /\ Triggered <=> Promise!Satisfies(Member, Curr)
<1>1. Curr.type = "numeric" /\ Member.type = "number" =>
         (compare_numeric(Curr.comp, Member.value, Curr.ref)
             <=> <<Curr.comp, Promise!SideOf(Member.value, Curr.ref)>> \in Promise!Sides)
  BY NumericSides
<1>2. compare_alphanumeric(Curr.comp, Member.value, Curr.ref)
         <=> \/ Curr.comp = "==" /\ Member.value = Curr.ref
             \/ Curr.comp = "!=" /\ Member.value # Curr.ref
  BY TextSides
<1> QED
  BY <1>1, <1>2, Zenon DEF Triggered, Promise!Satisfies

-----------------------------------------------------------------------------
(* What has been mailed, from the first member to the cursor.               *)
MailsUpTo(b, c) == UpTo(msg.data, Nodes, seen, mails, i, b, c)

Mails ==
    /\ pc \in {"store", "parse"} => mails = <<>>
    /\ pc = "member" \/ InMember => find_topic(topic)
    /\ pc \in {"member", "accounts", "section"} => MailsUpTo(1, 1)
    /\ pc \in {"event", "mail"} => MailsUpTo(node, slot)
    /\ pc = "mail" => Applies /\ Triggered
    /\ pc = "event" /\ Member.name = NoName => node = 1 /\ slot = 1
    /\ pc = "mail" => Member.name # NoName
    /\ pc = "crashed" => \/ mails = <<>> /\ seen = <<>>
                         \/ /\ topic \in DOMAIN tpc /\ msg.data # NoData
                            /\ i - 1 <= Len(seen) /\ MailsUpTo(1, 1)
    /\ pc = "delete" => \/ mails = <<>> /\ seen = <<>>
                        \/ /\ topic \in DOMAIN tpc /\ msg.data # NoData /\ find_topic(topic)
                           /\ Len(seen) = i - 1 /\ MailsUpTo(1, 1)

LEMMA InitMails == Init => Mails
BY DEF Init, Mails, InMember

(* The event under the cursor asks for the one mail that SendMail sends if  *)
(* PickEvent picks it, and for none if it does not.                         *)
LEMMA AtEvent ==
    ASSUME IInv, Accounts, pc \in {"event", "mail"}, MoreEvents
    PROVE  /\ Position(Nodes, node, slot) /\ i \in 1..Len(seen)
           /\ \A p : Asks(msg.data, Nodes, seen, i, node, slot, p)
                        <=> /\ Member.name = Curr.param /\ Triggered
                            /\ \E k \in DOMAIN eml : find_email(k) /\ p = eml[k].port
<1>1. /\ topic \in DOMAIN tpc /\ tpc \in TopicLists /\ msg \in Messages /\ msg.data # NoData
      /\ i \in Nat \ {0} /\ i <= Len(msg.data) /\ Len(seen) = i /\ seen[i] \in Reading
      /\ node \in Nat \ {0} /\ slot \in Nat \ {0} /\ slot <= Len(Nodes[node])
      /\ eml \in Seq(Account)
  BY DEF IInv, Typed, TypeOK, Found, Readings, OnEvent, InWalk, InMember
<1>2. /\ node \in DOMAIN Nodes /\ slot \in DOMAIN Nodes[node] /\ i \in DOMAIN msg.data
      /\ Position(Nodes, node, slot)
  BY <1>1, Lists DEF MoreEvents, Position
<1>3. Member.type = "number" => Member.value \in Int
  BY <1>1, <1>2, NumbersAssumption DEF Member
<1>4. Curr.type = "numeric" => Curr.ref \in Int
  BY <1>1, <1>2, NumbersAssumption DEF Curr, Nodes
<1>5. Member.name = Curr.param /\ Triggered <=> Promise!Satisfies(Member, Curr)
  BY <1>3, <1>4, TriggeredSatisfies
<1>6. /\ Len(seen[i].sections) \in Nat
      /\ DOMAIN seen[i].sections = 1..Len(seen[i].sections)
  <2>1. CASE seen[i].sections = <<>>
    BY <2>1
  <2>2. CASE seen[i].sections \in Files \ {Broken}
    BY <2>2, AlertsAssumption, ListDomain
  <2> QED
    BY <1>1, <2>1, <2>2 DEF Reading
<1>7. Agree(eml, seen[i], Len(seen[i].sections), Curr.sender)
  BY DEF Accounts
<1>8. Len(eml) \in Nat /\ DOMAIN eml = 1..Len(eml)
  BY <1>1
<1>9. /\ \A k \in 1..Len(eml) : FirstNamed(eml, k, Curr.sender) =>
                                   Server(seen[i], Curr.sender) = {eml[k].port}
      /\ (\A k \in 1..Len(eml) : ~FirstNamed(eml, k, Curr.sender)) =>
            Server(seen[i], Curr.sender) = {}
  BY <1>6, <1>7, <1>8, ServerFound
<1>10. \A k : find_email(k) <=> FirstNamed(eml, k, Curr.sender)
  BY DEF find_email, FirstNamed
<1>11. ASSUME NEW p
       PROVE  p \in Server(seen[i], Curr.sender)
                 <=> \E k \in DOMAIN eml : find_email(k) /\ p = eml[k].port
  <2>1. CASE \E k \in 1..Len(eml) : FirstNamed(eml, k, Curr.sender)
    BY <1>8, <1>9, <1>10, <2>1
  <2>2. CASE \A k \in 1..Len(eml) : ~FirstNamed(eml, k, Curr.sender)
    BY <1>8, <1>9, <1>10, <2>2
  <2> QED
    BY <2>1, <2>2
<1>12. \A p : Asks(msg.data, Nodes, seen, i, node, slot, p)
                 <=> Promise!Satisfies(Member, Curr) /\ p \in Server(seen[i], Curr.sender)
  BY DEF Asks, Member, Curr
<1> QED
  BY <1>1, <1>2, <1>5, <1>11, <1>12

(* Every step keeps the mails up to the cursor.                             *)
LEMMA MailsStep == IInv /\ IInv' /\ Accounts /\ Mails /\ [Next]_vars => Mails'
<1> SUFFICES ASSUME IInv, IInv', Accounts, Mails, [Next]_vars PROVE Mails'
  OBVIOUS
<1> USE DEF At, Running, cursors, loading, InMember, MailsUpTo
<1>0. /\ Len(seen) \in Nat /\ Len(seen') \in Nat /\ Len(mails) \in Nat /\ i \in Nat \ {0}
      /\ node \in Nat \ {0} /\ slot \in Nat \ {0}
      /\ pc \in {"member", "accounts"} => Len(seen) = i - 1
      /\ pc \in {"section", "event", "mail"} => Len(seen) = i
      /\ pc \in {"store", "parse"} => seen = <<>>
      /\ pc \in {"member", "accounts", "section", "event", "mail"} =>
            topic \in DOMAIN tpc /\ msg.data # NoData
  BY DEF IInv, Typed, TypeOK, Readings, Found, InWalk
<1>1. ASSUME pc \in {"member", "accounts", "section", "event", "mail"}
      PROVE  Walked(Nodes, seen, mails, i)
  BY <1>0, <1>1, Lists DEF Walked
(* No mail of a message is kept once its handling is over.                  *)
<1>2. ASSUME pc' \in {"idle", "dead"} PROVE Mails'
  BY <1>2 DEF Mails
<1>3. ASSUME NotStored \/ Delete \/ Cancelled PROVE Mails'
  BY <1>2, <1>3 DEF NotStored, Delete, Cancelled
(* A crash leaves the mails of the members before the cursor.               *)
<1>19. ASSUME StoreCrashes PROVE Mails'
  BY <1>0, <1>19 DEF StoreCrashes, Mails
<1>20. ASSUME LoadCrashes \/ NameCrashes PROVE Mails'
  <2>1. /\ UNCHANGED <<tpc, msg, topic, i, seen, mails>> /\ pc' = "crashed"
        /\ topic \in DOMAIN tpc /\ msg.data # NoData /\ i - 1 <= Len(seen)
    BY <1>0, <1>20 DEF LoadCrashes, NameCrashes
  <2>2. MailsUpTo(1, 1)
    <3>1. LoadCrashes => pc = "accounts"
      BY DEF LoadCrashes
    <3>2. NameCrashes => pc = "event" /\ Member.name = NoName
      BY DEF NameCrashes
    <3> QED
      BY <1>20, <3>1, <3>2 DEF Mails
  <2> QED
    BY <2>1, <2>2 DEF Mails, Nodes
<1>4. ASSUME Stored \/ \E m \in Messages : Receive(m) PROVE Mails'
  BY <1>4 DEF Stored, Receive, Mails
<1>5. ASSUME Confirmed PROVE Mails'
  <2>1. /\ pc' = "member" /\ i' = 1 /\ seen' = <<>> /\ mails' = <<>>
        /\ UNCHANGED <<tpc, msg>> /\ find_topic(topic)'
    BY <1>0, <1>5 DEF Confirmed, Mails, find_topic
  <2>2. UpTo(msg'.data, Nodes', seen', mails', i', 1, 1)
    BY <2>1, UpToNothing
  <2> QED
    BY <2>1, <2>2 DEF Mails
<1>6. ASSUME NotConfirmed PROVE Mails'
  BY <1>0, <1>6 DEF NotConfirmed, Mails
(* The cursor and what is behind it stay as they are.                       *)
<1>7. ASSUME UNCHANGED <<tpc, msg, topic, i, seen, mails>>,
             pc' \in {"member", "accounts", "section", "event", "mail"},
             pc' \in {"event", "mail"} => UNCHANGED <<node, slot>> /\ pc \in {"event", "mail"},
             pc' \notin {"event", "mail"} => pc \in {"member", "accounts", "section"},
             pc' = "mail" => (Applies /\ Triggered /\ Member.name # NoName)'
      PROVE  Mails'
  <2>1. find_topic(topic)' /\ Nodes' = Nodes /\ Member' = Member
    BY <1>7 DEF Mails, find_topic, Nodes, Member
  <2>2. CASE pc' \in {"event", "mail"}
    BY <1>7, <2>1, <2>2 DEF Mails
  <2>3. CASE pc' \in {"member", "accounts", "section"}
    BY <1>7, <2>1, <2>3 DEF Mails
  <2> QED
    BY <1>7, <2>2, <2>3
<1>8. ASSUME NextMember PROVE Mails'
  <2>1. UNCHANGED <<tpc, msg, topic, i, seen, mails>> /\ pc = "member"
    BY <1>8 DEF NextMember
  <2>2. CASE pc' = "accounts"
    BY <1>7, <2>1, <2>2
  <2>3. CASE pc' = "delete"
    BY <1>0, <2>1, <2>3 DEF Mails, find_topic, Nodes
  <2> QED
    BY <1>8, <2>2, <2>3 DEF NextMember
<1>9. ASSUME AddAccount \/ SkipSection PROVE Mails'
  <2>1. UNCHANGED <<tpc, msg, topic, i, seen, mails, pc>> /\ pc = "section"
    BY <1>9 DEF AddAccount, SkipSection, AtSection
  <2> QED
    BY <1>7, <2>1
(* The readings of the members behind the cursor stay as they are.          *)
<1>10. ASSUME UNCHANGED <<tpc, msg, topic, i, mails>>, pc \in {"accounts", "section"},
              pc' = "section", Len(seen') = i, \A m \in 1..(i - 1) : seen'[m] = seen[m]
       PROVE  Mails'
  <2>1. find_topic(topic)' /\ Nodes' = Nodes
    BY <1>10 DEF Mails, find_topic, Nodes
  <2>2. UpTo(msg.data, Nodes, seen, mails, i, 1, 1)
    BY <1>10 DEF Mails
  <2>3. Len(seen) >= i - 1 /\ Len(seen') >= i - 1
    BY <1>0, <1>10
  <2>4. Walked(Nodes, seen, mails, i)
    BY <1>1, <1>10
  <2>5. UpTo(msg.data, Nodes, seen', mails, i, 1, 1)
    BY <1>0, <1>10, <2>2, <2>3, <2>4, UpToRead
  <2> QED
    BY <1>10, <2>1, <2>5 DEF Mails
<1>11. ASSUME LoadAccounts \/ NoContext PROVE Mails'
  <2>1. /\ UNCHANGED <<tpc, msg, topic, i, mails>> /\ pc = "accounts" /\ pc' = "section"
        /\ seen' = Append(seen, [sections |-> pkg', lost |-> {}])
    BY <1>11 DEF LoadAccounts, NoContext
  <2>2. Len(seen') = i /\ \A m \in 1..(i - 1) : seen'[m] = seen[m]
    <3>1. seen \in Seq(Reading)
      BY DEF IInv, Typed
    <3> QED
      BY <1>0, <2>1, <3>1
  <2> QED
    BY <1>10, <2>1, <2>2
<1>12. ASSUME NoAccount PROVE Mails'
  <2>1. /\ UNCHANGED <<tpc, msg, topic, i, mails, pc>> /\ pc = "section"
        /\ seen' = [seen EXCEPT ![i].lost = @ \cup {sct}]
    BY <1>12 DEF NoAccount, AtSection
  <2>2. Len(seen') = i /\ \A m \in 1..(i - 1) : seen'[m] = seen[m]
    <3>1. seen \in Seq(Reading)
      BY DEF IInv, Typed
    <3> QED
      BY <1>0, <2>1, <3>1
  <2> QED
    BY <1>10, <2>1, <2>2
<1>13. ASSUME SectionsEnd PROVE Mails'
  <2>1. /\ UNCHANGED <<tpc, msg, topic, i, seen, mails>> /\ pc = "section" /\ pc' = "event"
        /\ node' = 1 /\ slot' = 1
    BY <1>13 DEF SectionsEnd
  <2> QED
    BY <2>1 DEF Mails, find_topic, Nodes
<1>14. ASSUME SkipEvent PROVE Mails'
  <2>1. /\ UNCHANGED <<tpc, msg, topic, i, seen, mails, pc>> /\ pc = "event" /\ MoreEvents
        /\ Advance /\ ~(Applies /\ Triggered) /\ Member.name # NoName
    BY <1>14 DEF SkipEvent
  <2>2. /\ Position(Nodes, node, slot)
        /\ \A p : ~Asks(msg.data, Nodes, seen, i, node, slot, p)
    BY <2>1, AtEvent DEF Applies
  <2>3. Follows(Nodes, node, slot, node', slot')
    BY <2>1 DEF Follows, Advance
  <2>4. UpTo(msg.data, Nodes, seen, mails, i, node', slot')
    <3>1. Walked(Nodes, seen, mails, i) /\ UpTo(msg.data, Nodes, seen, mails, i, node, slot)
      BY <1>1, <2>1 DEF Mails
    <3> QED
      BY <2>2, <2>3, <3>1, UpToSkip
  <2> QED
    BY <2>1, <2>4 DEF Mails, find_topic, Nodes, Member
<1>15. ASSUME PickEvent PROVE Mails'
  <2>1. /\ UNCHANGED <<tpc, msg, topic, i, seen, mails, node, slot, eml>>
        /\ pc = "event" /\ pc' = "mail" /\ Applies /\ Triggered /\ Member.name # NoName
    BY <1>15 DEF PickEvent
  <2>2. (Applies /\ Triggered /\ Member.name # NoName)'
    BY <2>1 DEF Applies, Triggered, find_email, Curr, Member, Nodes
  <2> QED
    BY <1>7, <2>1, <2>2
<1>16. ASSUME NEW r \in Results, SendMail(r) PROVE Mails'
  <2>1. /\ UNCHANGED <<tpc, msg, topic, i, seen>> /\ pc = "mail" /\ pc' = "event" /\ Advance
    BY <1>16 DEF SendMail
  <2>2. MoreEvents /\ Applies /\ Triggered
    BY <2>1 DEF IInv, OnEvent, Mails
  <2>3. /\ Position(Nodes, node, slot) /\ i \in 1..Len(seen)
        /\ \A p : Asks(msg.data, Nodes, seen, i, node, slot, p)
                        <=> /\ Member.name = Curr.param /\ Triggered
                            /\ \E k \in DOMAIN eml : find_email(k) /\ p = eml[k].port
    BY <2>1, <2>2, AtEvent
  <2>4. Follows(Nodes, node, slot, node', slot')
    BY <2>1 DEF Follows, Advance
  <2>5. PICK k \in DOMAIN eml :
           /\ find_email(k)
           /\ mails' = Append(mails, [member |-> i, node |-> node, slot |-> slot,
                                      port |-> eml[k].port, result |-> r,
                                      logged |-> r \in {"sent", "failed"}])
    BY <1>16 DEF SendMail
  <2> DEFINE x == [member |-> i, node |-> node, slot |-> slot, port |-> eml[k].port,
                   result |-> r, logged |-> r \in {"sent", "failed"}]
  <2>6. x.member = i /\ x.node = node /\ x.slot = slot /\ x.port = eml[k].port /\ mails' = Append(mails, x)
    BY <2>5
  <2> HIDE DEF x
  <2>7. /\ Len(mails') = Len(mails) + 1 /\ mails'[Len(mails) + 1] = x
        /\ \A j \in 1..Len(mails) : mails'[j] = mails[j]
    <3>1. mails' \in Seq([member : Nat, node : Nat, slot : Nat, port : Nat,
                          result : Results, logged : BOOLEAN])
      BY DEF IInv, Typed, TypeOK
    <3>2. mails \in Seq([member : Nat, node : Nat, slot : Nat, port : Nat,
                         result : Results, logged : BOOLEAN])
      BY DEF IInv, Typed, TypeOK
    <3> QED
      BY <2>6, <3>1, <3>2
  <2>8. ASSUME NEW l \in DOMAIN eml, find_email(l) PROVE l = k
    <3>1. eml \in Seq(Account)
      BY DEF IInv, Typed
    <3>2. k \in Nat /\ l \in Nat /\ DOMAIN eml = 1..Len(eml)
      BY <3>1
    <3> QED
      BY <2>5, <2>8, <3>2 DEF find_email
  <2>9. \A p : Asks(msg.data, Nodes, seen, i, node, slot, p) <=> p = x.port
    BY <2>2, <2>3, <2>5, <2>6, <2>8 DEF Applies
  <2>10. UpTo(msg.data, Nodes, seen, mails', i, node', slot')
    <3>1. Walked(Nodes, seen, mails, i) /\ UpTo(msg.data, Nodes, seen, mails, i, node, slot)
      BY <1>1, <2>1 DEF Mails
    <3>2. /\ Position(Nodes, node, slot) /\ i \in 1..Len(seen)
          /\ x.member = i /\ x.node = node /\ x.slot = slot
      BY <2>3, <2>6
    <3> QED
      BY <2>4, <2>7, <2>9, <3>1, <3>2, UpToSend, SMTT(60)
  <2>11. Member.name # NoName
    BY <2>1 DEF Mails
  <2> QED
    BY <2>1, <2>10, <2>11 DEF Mails, find_topic, Nodes, Member
<1>17. ASSUME EndMember PROVE Mails'
  <2>1. /\ UNCHANGED <<tpc, msg, topic, seen, mails>> /\ pc = "event" /\ pc' = "member"
        /\ i' = i + 1 /\ node > Len(Nodes)
    <3>1. Len(Nodes) \in Nat
      BY <1>0, <1>17, Lists DEF EndMember
    <3> QED
      BY <1>0, <1>17, <3>1 DEF EndMember, MoreEvents
  <2>2. UpTo(msg.data, Nodes, seen, mails, i + 1, 1, 1)
    <3>1. Walked(Nodes, seen, mails, i) /\ UpTo(msg.data, Nodes, seen, mails, i, node, slot)
      BY <1>1, <2>1 DEF Mails
    <3> QED
      BY <1>0, <2>1, <3>1, UpToMember
  <2> QED
    BY <2>1, <2>2 DEF Mails, find_topic, Nodes
<1>18. ASSUME Edit \/ UNCHANGED vars PROVE Mails'
  <2>1. UNCHANGED <<tpc, msg, topic, i, seen, mails, node, slot, eml, pc>>
    BY <1>18 DEF Edit, vars
  <2>2. /\ Applies' <=> Applies
        /\ Triggered' <=> Triggered
        /\ find_topic(topic)' <=> find_topic(topic)
        /\ Nodes' = Nodes /\ Member' = Member
    BY <2>1 DEF Applies, Triggered, find_email, find_topic, Curr, Member, Nodes
  <2> QED
    BY <2>1, <2>2 DEF Mails
<1> QED
  BY <1>3, <1>19, <1>20, <1>4, <1>5, <1>6, <1>8, <1>9, <1>11, <1>12, <1>13, <1>14, <1>15, <1>16, <1>17, <1>18,
     Zenon DEF Next, Handle, Mail

(* The two together, on top of IInv.                                        *)
LEMMA MailInvariance == Spec => [](IInv /\ Accounts /\ Mails)
<1>1. Init => IInv /\ Accounts /\ Mails
  BY InitInv, InitAccounts, InitMails
<1>2. IInv /\ Accounts /\ Mails /\ [Next]_vars => IInv' /\ Accounts' /\ Mails'
  BY InvStep, AccountsStep, MailsStep
<1> QED
  BY <1>1, <1>2, PTL DEF Spec

-----------------------------------------------------------------------------
(* The events without their nodes. *)

(* The positions of the topic's nodes are those of the list without nodes.  *)
LEMMA FlatNodes ==
    ASSUME IInv, topic \in DOMAIN tpc
    PROVE  /\ FlatTopics[topic].events = FlattenSeq(Nodes)
           /\ \A n, s : Position(Nodes, n, s) =>
                 /\ Flat(n, s) \in DOMAIN FlattenSeq(Nodes)
                 /\ FlattenSeq(Nodes)[Flat(n, s)] = Nodes[n][s]
           /\ \A e \in DOMAIN FlattenSeq(Nodes) :
                 \E n, s : Position(Nodes, n, s) /\ e = Flat(n, s)
           /\ \A n, s, b, c : Position(Nodes, n, s) /\ Position(Nodes, b, c) =>
                 (Flat(n, s) < Flat(b, c) <=> n < b \/ (n = b /\ s < c))
<1> DEFINE T == UNION {{Nodes[n][s] : s \in 1..Len(Nodes[n])} : n \in 1..Len(Nodes)}
<1>1. /\ Len(Nodes) \in 0..2 /\ IsList(Nodes)
      /\ \A n \in 1..Len(Nodes) : IsList(Nodes[n])
  <2>1. tpc \in TopicLists
    BY DEF IInv, Typed, TypeOK
  <2>2. IsList(Nodes) /\ \A n \in DOMAIN Nodes : IsList(Nodes[n])
    BY <2>1, AlertsAssumption DEF Nodes
  <2> QED
    BY <2>2, Lists
<1>2. ASSUME NEW n \in 1..Len(Nodes) PROVE Nodes[n] \in Seq(T)
  <2>1. IsList(Nodes[n]) /\ \A s \in 1..Len(Nodes[n]) : Nodes[n][s] \in T
    BY <1>1
  <2> HIDE DEF T
  <2> QED
    BY <2>1 DEF IsList
<1> HIDE DEF T
<1>3. Nodes \in Seq(Seq(T))
  BY <1>1, <1>2 DEF IsList
<1>4. \A n, s : Flat(n, s) = FlatAt(Nodes, n, s)
  BY DEF Flat, FlatAt
<1>5. FlatTopics[topic].events = FlattenSeq(Nodes)
  BY DEF FlatTopics, Nodes
<1>6. \A n \in 1..Len(Nodes) : \A s \in 1..Len(Nodes[n]) :
         /\ FlatAt(Nodes, n, s) \in DOMAIN FlattenSeq(Nodes)
         /\ FlattenSeq(Nodes)[FlatAt(Nodes, n, s)] = Nodes[n][s]
  BY <1>1, <1>3, FlatPositions
<1>7. \A e \in DOMAIN FlattenSeq(Nodes) :
         \E n \in 1..Len(Nodes) : \E s \in 1..Len(Nodes[n]) : e = FlatAt(Nodes, n, s)
  BY <1>1, <1>3, FlatPositions
<1>8. \A n, b \in 1..Len(Nodes) : \A s \in 1..Len(Nodes[n]), c \in 1..Len(Nodes[b]) :
         FlatAt(Nodes, n, s) < FlatAt(Nodes, b, c) <=> n < b \/ (n = b /\ s < c)
  BY <1>1, <1>3, FlatPositions
<1> QED
  BY <1>4, <1>5, <1>6, <1>7, <1>8, Zenon DEF Position

(* The mails of the members before the cursor are exactly those asked for   *)
(* at them, at the servers of the first accounts that could be made from    *)
(* the user_groups read for each.                                           *)
LEMMA MailedBefore ==
    ASSUME IInv, topic \in DOMAIN tpc, MailsUpTo(1, 1), i - 1 <= Len(seen)
    PROVE  PortMails = {a \in Asked(seen) : a.member < i}
<1> DEFINE flat == FlattenSeq(Nodes)
           Mailed(m, e, p) == \E k \in DOMAIN mails :
                                 /\ mails[k].member = m /\ mails[k].port = p
                                 /\ Flat(mails[k].node, mails[k].slot) = e
           Wanted(m, e, p) == /\ m \in DOMAIN seen /\ m < i /\ e \in DOMAIN flat
                              /\ Promise!Satisfies(msg.data[m], flat[e])
                              /\ p \in Server(seen[m], flat[e].sender)
<1>1. /\ DOMAIN mails = 1..Len(mails) /\ DOMAIN seen = 1..Len(seen) /\ i \in Nat
  BY DEF IInv, Typed, TypeOK
<1>2. ASSUME NEW m, NEW e, NEW p, Mailed(m, e, p) PROVE Wanted(m, e, p)
  <2>1. PICK k \in 1..Len(mails) : /\ mails[k].member = m /\ mails[k].port = p
                                   /\ Flat(mails[k].node, mails[k].slot) = e
    BY <1>1, <1>2
  <2>2. /\ m \in 1..Len(seen) /\ Position(Nodes, mails[k].node, mails[k].slot)
        /\ Asks(msg.data, Nodes, seen, m, mails[k].node, mails[k].slot, p)
        /\ Before(m, mails[k].node, mails[k].slot, i, 1, 1)
    BY <2>1 DEF MailsUpTo, UpTo
  <2>3. e \in DOMAIN flat /\ flat[e] = Nodes[mails[k].node][mails[k].slot]
    BY <2>1, <2>2, FlatNodes, Zenon
  <2>4. m < i
    BY <2>2 DEF Before, Position
  <2> QED
    BY <1>1, <2>2, <2>3, <2>4, Zenon DEF Asks
<1>3. ASSUME NEW m, NEW e, NEW p, Wanted(m, e, p) PROVE Mailed(m, e, p)
  <2>1. PICK n, s : Position(Nodes, n, s) /\ e = Flat(n, s)
    BY <1>3, FlatNodes, Zenon
  <2>2. flat[e] = Nodes[n][s]
    BY <2>1, FlatNodes, Zenon
  <2>3. Asks(msg.data, Nodes, seen, m, n, s, p)
    BY <1>3, <2>2, Zenon DEF Asks
  <2>4. m \in 1..Len(seen) /\ Before(m, n, s, i, 1, 1)
    BY <1>1, <1>3 DEF Before
  <2>5. \E k \in 1..Len(mails) : /\ mails[k].member = m /\ mails[k].node = n
                                 /\ mails[k].slot = s /\ mails[k].port = p
    BY <2>1, <2>3, <2>4 DEF MailsUpTo, UpTo, Position
  <2> QED
    BY <1>1, <2>1, <2>5, Zenon
<1>4. ASSUME NEW x
      PROVE  x \in {a \in Asked(seen) : a.member < i} <=>
                \E m, e, p : Wanted(m, e, p) /\ x = [member |-> m, event |-> e, port |-> p]
  <2>1. FlatTopics[topic].events = flat
    BY FlatNodes
  <2> HIDE DEF flat
  <2> QED
    BY <2>1 DEF Asked
<1>5. ASSUME NEW x
      PROVE  x \in PortMails <=>
                \E m, e, p : Mailed(m, e, p) /\ x = [member |-> m, event |-> e, port |-> p]
  <2>1. ASSUME x \in PortMails
        PROVE  \E m, e, p : Mailed(m, e, p) /\ x = [member |-> m, event |-> e, port |-> p]
    <3>1. PICK k \in DOMAIN mails :
             x = [member |-> mails[k].member,
                  event |-> Flat(mails[k].node, mails[k].slot), port |-> mails[k].port]
      BY <2>1, Zenon DEF PortMails
    <3>2. Mailed(mails[k].member, Flat(mails[k].node, mails[k].slot), mails[k].port)
      BY Zenon
    <3> HIDE DEF Mailed
    <3> QED
      BY <3>1, <3>2, Zenon
  <2>2. ASSUME NEW m, NEW e, NEW p, Mailed(m, e, p),
               x = [member |-> m, event |-> e, port |-> p]
        PROVE  x \in PortMails
    BY <2>2, Zenon DEF PortMails
  <2> HIDE DEF Mailed
  <2> QED
    BY <2>1, <2>2, Zenon
<1> HIDE DEF Mailed, Wanted
<1>6. \A m, e, p : Mailed(m, e, p) <=> Wanted(m, e, p)
  BY <1>2, <1>3, Zenon
<1>7. \A x : x \in PortMails <=> x \in {a \in Asked(seen) : a.member < i}
  BY <1>4, <1>5, <1>6, Zenon
<1> QED
  BY <1>7, Zenon

LEMMA NothingMailed ==
    ASSUME mails = <<>>, seen = <<>>
    PROVE  PortMails = {} /\ Asked(seen) = {}
<1>1. DOMAIN mails = {} /\ DOMAIN seen = {}
  OBVIOUS
<1> QED
  BY <1>1, Zenon DEF PortMails, Asked

(* When the members have been walked through, the mails sent are exactly    *)
(* those asked for (Complete).                                              *)
THEOREM AllMailed == Spec => []Complete
<1>1. ASSUME IInv, Mails, pc = "delete" PROVE PortMails = Asked(seen)
  <2>1. CASE mails = <<>> /\ seen = <<>>
    BY <2>1, NothingMailed
  <2>2. CASE /\ topic \in DOMAIN tpc /\ msg.data # NoData
             /\ Len(seen) = i - 1 /\ MailsUpTo(1, 1)
    <3>1. DOMAIN seen = 1..Len(seen) /\ i \in Nat
      BY <1>1 DEF IInv, Typed, TypeOK
    <3>2. \A m \in DOMAIN seen : m < i
      BY <2>2, <3>1
    <3>3. \A a \in Asked(seen) : a.member < i
      <4> SUFFICES ASSUME NEW a \in Asked(seen) PROVE a.member \in DOMAIN seen
        BY <3>2
      <4>1. PICK m \in DOMAIN seen : \E e, p : a = [member |-> m, event |-> e, port |-> p]
        BY DEF Asked
      <4> QED
        BY <4>1
    <3>4. PortMails = {a \in Asked(seen) : a.member < i}
      BY <1>1, <2>2, <3>1, MailedBefore
    <3> QED
      BY <3>3, <3>4
  <2> QED
    BY <1>1, <2>1, <2>2 DEF Mails
<1>2. IInv /\ Accounts /\ Mails => Complete
  BY <1>1 DEF Complete
<1> QED
  BY <1>2, MailInvariance, PTL

(* A crash finds the members before it mailed in full, and the one it is at *)
(* not at all (CrashBetweenMembers).                                        *)
THEOREM CrashLosesNoMail == Spec => []CrashBetweenMembers
<1>1. ASSUME IInv, Mails, pc = "crashed"
      PROVE  PortMails = {a \in Asked(seen) : a.member < i}
  <2>1. CASE mails = <<>> /\ seen = <<>>
    BY <2>1, NothingMailed
  <2>2. CASE topic \in DOMAIN tpc /\ i - 1 <= Len(seen) /\ MailsUpTo(1, 1)
    BY <1>1, <2>2, MailedBefore
  <2> QED
    BY <1>1, <2>1, <2>2 DEF Mails
<1>2. IInv /\ Accounts /\ Mails => CrashBetweenMembers
  BY <1>1 DEF CrashBetweenMembers
<1> QED
  BY <1>2, MailInvariance, PTL

-----------------------------------------------------------------------------
(* The refinement of AlertPromise. *)

LEMMA InitPromise == Init => Promise!Init
BY DEF Init, Promise!Init, Open

(* Each step is one of AlertPromise's, or none.                             *)
LEMMA StepPromise ==
    IInv /\ IInv' /\ Accounts /\ Mails /\ [Next]_vars => [Promise!Next]_(Promise!vars)
<1> SUFFICES ASSUME IInv, IInv', Accounts, Mails, [Next]_vars
             PROVE  Promise!Next \/ UNCHANGED Promise!vars
  OBVIOUS
<1> USE DEF At, Running, cursors, loading
<1>1. FlatTopics' = FlatTopics /\ tpc' = tpc
  <2>1. tpc' = tpc
    BY DEF Next, Handle, Mail, Stored, NotStored, StoreCrashes, Confirmed, NotConfirmed,
           NextMember, LoadAccounts, NoContext, LoadCrashes, AddAccount, NoAccount, SkipSection,
           SectionsEnd, NameCrashes, SkipEvent, PickEvent, EndMember, Delete, SendMail, Edit,
           Cancelled, Receive, vars
  <2> QED
    BY <2>1 DEF FlatTopics
<1>2. mails = <<>> => FlatMails = <<>>
  BY DEF FlatMails
<1>3. mails' = <<>> => FlatMails' = <<>>
  BY DEF FlatMails
<1>4. ASSUME pc # "idle", pc' # "idle", UNCHANGED <<msg, mails>>, UNCHANGED topic \/ mails = <<>>
      PROVE  UNCHANGED Promise!vars
  <2>1. FlatMails' = FlatMails
    <3>1. CASE mails = <<>>
      BY <1>2, <1>3, <1>4, <3>1
    <3>2. CASE UNCHANGED topic
      BY <1>1, <1>4, <3>2 DEF FlatMails, Flat, Nodes
    <3> QED
      BY <1>4, <3>1, <3>2
  <2> QED
    BY <1>1, <1>4, <2>1 DEF Promise!vars, Open
<1>5. ASSUME UNCHANGED <<pc, msg, mails, topic>> PROVE UNCHANGED Promise!vars
  <2>1. CASE pc = "idle"
    BY <1>1, <1>5, <2>1 DEF Promise!vars, Open
  <2>2. CASE pc # "idle"
    BY <1>4, <1>5, <2>2
  <2> QED
    BY <2>1, <2>2
<1>6. ASSUME NEW m \in Messages, Receive(m) PROVE Promise!Receive
  <2>1. pc = "idle" /\ pc' # "idle" /\ msg' # NoMessage /\ mails' = <<>>
    BY <1>6, AlertsAssumption DEF Receive
  <2> QED
    BY <1>1, <1>3, <2>1 DEF Promise!Receive, Open
<1>7. ASSUME NotStored \/ Delete PROVE Promise!Finish
  <2>1. pc \in {"store", "delete"} /\ pc' = "idle"
    BY <1>7 DEF NotStored, Delete
  <2>2. msg # NoMessage
    BY <2>1, AlertsAssumption DEF IInv, Found
  <2> QED
    BY <1>1, <2>1, <2>2 DEF Promise!Finish, Open
<1>8. ASSUME NEW r \in Results, SendMail(r) PROVE Promise!Mail
  <2> DEFINE sent == IF Open THEN FlatMails ELSE <<>>
             more == (IF Open THEN FlatMails ELSE <<>>)'
  <2>1. /\ UNCHANGED <<msg, topic, i, seen>> /\ pc = "mail" /\ pc' = "event"
        /\ MoreEvents /\ Applies /\ Triggered /\ find_topic(topic)
        /\ MailsUpTo(node, slot)
    BY <1>8 DEF SendMail, IInv, OnEvent, Mails, InMember
  <2>2. /\ topic \in DOMAIN tpc /\ msg \in Messages /\ msg.data # NoData
        /\ i \in DOMAIN msg.data
    <3>1. /\ topic \in DOMAIN tpc /\ msg \in Messages /\ msg.data # NoData
          /\ i \in Nat \ {0} /\ i <= Len(msg.data)
      BY <2>1 DEF IInv, Typed, TypeOK, Found, InMember
    <3> QED
      BY <3>1, Lists
  <2>3. PICK x : /\ mails' = Append(mails, x) /\ x.member = i /\ x.node = node /\ x.slot = slot
    <3>1. PICK k \in DOMAIN eml :
             mails' = Append(mails, [member |-> i, node |-> node, slot |-> slot,
                                     port |-> eml[k].port, result |-> r,
                                     logged |-> r \in {"sent", "failed"}])
      BY <1>8 DEF SendMail
    <3> QED
      BY <3>1
  <2>4. /\ Len(mails) \in Nat /\ Len(mails') = Len(mails) + 1 /\ mails'[Len(mails) + 1] = x
        /\ \A j \in 1..Len(mails) : mails'[j] = mails[j]
        /\ DOMAIN mails = 1..Len(mails) /\ DOMAIN mails' = 1..(Len(mails) + 1)
    <3>1. /\ mails \in Seq([member : Nat, node : Nat, slot : Nat, port : Nat,
                            result : Results, logged : BOOLEAN])
          /\ mails' \in Seq([member : Nat, node : Nat, slot : Nat, port : Nat,
                             result : Results, logged : BOOLEAN])
      BY DEF IInv, Typed, TypeOK
    <3> QED
      BY <2>3, <3>1
  <2> DEFINE last == [member |-> i, event |-> Flat(node, slot)]
  <2>5. /\ sent = [k \in 1..Len(mails) |-> [member |-> mails[k].member,
                                             event |-> Flat(mails[k].node, mails[k].slot)]]
        /\ more = [k \in 1..(Len(mails) + 1) |-> IF k = Len(mails) + 1 THEN last ELSE sent[k]]
    <3>1. sent = [k \in 1..Len(mails) |-> [member |-> mails[k].member,
                                           event |-> Flat(mails[k].node, mails[k].slot)]]
      BY <2>1, <2>4 DEF FlatMails, Open
    <3>2. more = [k \in 1..(Len(mails) + 1) |->
                     [member |-> mails'[k].member,
                      event |-> Flat(mails'[k].node, mails'[k].slot)]]
      BY <1>1, <2>1, <2>4 DEF FlatMails, Flat, Nodes, Open
    <3>3. ASSUME NEW k \in 1..(Len(mails) + 1)
          PROVE  [member |-> mails'[k].member, event |-> Flat(mails'[k].node, mails'[k].slot)]
                    = IF k = Len(mails) + 1 THEN last ELSE sent[k]
      <4>1. CASE k = Len(mails) + 1
        BY <2>3, <2>4, <4>1
      <4>2. CASE k # Len(mails) + 1
        <5>1. k \in 1..Len(mails) /\ mails'[k] = mails[k]
          BY <2>4, <4>2
        <5> HIDE DEF sent
        <5> QED
          BY <3>1, <4>2, <5>1
      <4> QED
        BY <4>1, <4>2
    <3> HIDE DEF sent, more, last
    <3> QED
      BY <3>1, <3>2, <3>3, Zenon
  <2> HIDE DEF sent, more
  <2>6. Len(sent) = Len(mails) /\ Len(more) = Len(mails) + 1 /\ more[Len(more)] = last
    BY <2>4, <2>5
  <2>7. SubSeq(more, 1, Len(sent)) = sent
    <3> HIDE DEF last
    <3>1. Len(sent) \in Nat /\ sent = [k \in 1..Len(sent) |-> sent[k]]
      BY <2>4, <2>5
    <3>2. \A k \in 1..Len(sent) : more[k] = sent[k]
      BY <2>4, <2>5, <2>6
    <3> QED
      BY <2>6, <3>1, <3>2
  <2>8. Position(Nodes, node, slot) /\ \E p : Asks(msg.data, Nodes, seen, i, node, slot, p)
    BY <2>1, AtEvent DEF Applies
  <2>9. /\ Flat(node, slot) \in DOMAIN FlatTopics[topic].events
        /\ Promise!Satisfies(msg.data[i], FlatTopics[topic].events[Flat(node, slot)])
    BY <2>2, <2>8, FlatNodes, Zenon DEF Asks
  <2>10. Promise!IsTopicOf(topic, msg) /\ topic \in DOMAIN FlatTopics
    <3>1. DOMAIN FlatTopics = DOMAIN tpc /\ \A t \in DOMAIN tpc : FlatTopics[t].name = tpc[t].name
      BY DEF FlatTopics
    <3>2. \A u \in 1..(topic - 1) : u \in DOMAIN tpc
      BY <2>2, Lists
    <3> QED
      BY <2>1, <2>2, <3>1, <3>2, Zenon DEF find_topic, Promise!IsTopicOf
  <2>11. ASSUME NEW k \in DOMAIN sent PROVE Promise!Precedes(sent[k], last)
    <3>1. /\ k \in 1..Len(mails) /\ sent[k].member = mails[k].member
          /\ sent[k].event = Flat(mails[k].node, mails[k].slot)
      BY <2>5
    <3>2. /\ Position(Nodes, mails[k].node, mails[k].slot)
          /\ Before(mails[k].member, mails[k].node, mails[k].slot, i, node, slot)
      BY <2>1, <3>1 DEF MailsUpTo, UpTo
    <3>3. Flat(mails[k].node, mails[k].slot) < Flat(node, slot)
             <=> mails[k].node < node \/ (mails[k].node = node /\ mails[k].slot < slot)
      BY <2>2, <2>8, <3>2, FlatNodes, Zenon
    <3>4. last.member = i /\ last.event = Flat(node, slot)
      OBVIOUS
    <3> HIDE DEF last
    <3> QED
      BY <3>1, <3>2, <3>3, <3>4, Zenon DEF Before, Promise!Precedes
  <2>12. Open /\ Open' /\ msg # NoMessage /\ msg' = msg
    BY <2>1, <2>2, AlertsAssumption DEF Open
  <2>13. last.member = i /\ last.event = Flat(node, slot)
    OBVIOUS
  <2> HIDE DEF last
  <2>14. Promise!Due(last)
    BY <2>2, <2>9, <2>10, <2>12, <2>13, Zenon DEF Promise!Due
  <2> QED
    BY <1>1, <2>6, <2>7, <2>11, <2>12, <2>14, Zenon DEF Promise!Mail, sent, more
<1>9. ASSUME Confirmed PROVE UNCHANGED Promise!vars
  <2>1. mails = <<>>
    BY <1>9 DEF Confirmed, Mails
  <2> QED
    BY <1>4, <1>9, <2>1 DEF Confirmed
<1>10. ASSUME \/ Stored \/ StoreCrashes \/ NotConfirmed \/ NextMember
              \/ LoadAccounts \/ NoContext \/ LoadCrashes \/ AddAccount \/ NoAccount
              \/ SkipSection \/ SectionsEnd \/ NameCrashes \/ SkipEvent \/ PickEvent
              \/ EndMember \/ Cancelled
       PROVE  UNCHANGED Promise!vars
  <2>1. pc # "idle" /\ pc' # "idle" /\ UNCHANGED <<msg, mails, topic>>
    BY <1>10 DEF Stored, StoreCrashes, NotConfirmed, NextMember, LoadAccounts, NoContext,
                 LoadCrashes, AddAccount, NoAccount, SkipSection, SectionsEnd, NameCrashes,
                 SkipEvent, PickEvent, EndMember, Cancelled, AtSection
  <2> QED
    BY <1>4, <2>1
<1>11. ASSUME Edit \/ UNCHANGED vars PROVE UNCHANGED Promise!vars
  BY <1>5, <1>11 DEF Edit, vars
<1> QED
  BY <1>6, <1>7, <1>8, <1>9, <1>10, <1>11, Zenon DEF Next, Handle, Mail, Promise!Next

(* on_message mails an event at most once for a member of "data", in order, *)
(* and only if the member satisfies it, as AlertPromise says.               *)
THEOREM PromiseKept == Spec => KeepsPromise
<1>1. IInv /\ Accounts /\ Mails /\ (IInv /\ Accounts /\ Mails)' /\ [Next]_vars
         => [Promise!Next]_(Promise!vars)
  BY StepPromise
<1> QED
  BY <1>1, InitPromise, MailInvariance, PTL DEF Spec, Promise!Spec, KeepsPromise
=============================================================================
