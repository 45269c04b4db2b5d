--------------------------- MODULE StartupProofs ----------------------------
(***************************************************************************)
(* The invariants of module Startup for all files, command lines and        *)
(* capacities that the assumptions of ConfigLoad and Startup admit: first   *)
(* what utils_get_data builds, then what is released.                       *)
(***************************************************************************)
EXTENDS Startup, SharedLemmas, TLAPS

(* The texts and the records that occur. *)
AllOptions == UNION {UNION {{f[s].options[n] : n \in DOMAIN f[s].options} : s \in DOMAIN f} :
                     f \in (TopicFiles \cup EventFiles) \ {Broken}}
Strings == {Empty} \cup {Text(o) : o \in AllOptions}
           \cup UNION {{g.topic_name, g.type, g.param, g.comp_sym, g.ref_num, g.ref_string,
                        g.sender} : g \in Garbage}
Struct == [topic_name : Strings, type : Strings, param : Strings, comp_sym : Strings,
           ref_num : Strings, ref_string : Strings, sender : Strings, recipient_count : Int]
Logged == [evt : Struct, section : Nat]
TopicNode == [name : Strings, qos : 0..2, log : Seq(Logged), lost : Nat]

Typed == /\ topicFile \in TopicFiles /\ eventFile \in EventFiles
         /\ cpc \in {"idle", "topics", "topic", "failed", "events", "event", "option",
                     "loaded", "crashed"}
         /\ tpc \in Seq(TopicNode) /\ evt \in Struct
         /\ sec \in Nat \ {0} /\ opt \in Nat \ {0} /\ dropped \in Nat
         /\ cursor \in {NULL} \cup DOMAIN tpc

(* The lists stay within their capacity, lose nothing unless memory runs    *)
(* out, and are empty until the events are loaded; the cursors are on what  *)
(* they go through.                                                         *)
Stages ==
    /\ \A k \in DOMAIN tpc : /\ tpc[k].name # Empty /\ Len(tpc[k].log) <= Capacity
                             /\ dropped = 0 => tpc[k].lost = 0
    /\ cpc \in {"idle", "topics", "topic", "events", "failed"} =>
          \A k \in DOMAIN tpc : tpc[k].log = <<>>
    /\ cpc = "events" => sec = 1
    /\ cpc = "topic" => topicFile # Broken
    /\ cpc \in {"event", "option"} => eventFile # Broken
    /\ cpc = "option" => /\ sec \in DOMAIN eventFile /\ eventFile[sec].type = "event"
                         /\ opt <= Len(Options) + 1
    /\ cpc = "loaded" /\ dropped = 0 => eventFile # Broken /\ sec > Len(eventFile)

(* While the options of an event's section are read: one was bad, and the   *)
(* event will be discarded; or none was so far, and what they say is in the *)
(* struct event.                                                            *)
Rejected == evt.topic_name = Empty /\ opt = Len(Options) + 1 /\ ~Sane(eventFile[sec])

TopicSeen(o) == o.name = "topic" =>
                   cursor \in FirstNamed(Text(o)) /\ evt.topic_name = Text(o)
TypeSeen(o) == o.name = "type" => Text(o) \in {"0", "1"} /\ evt.type = Text(o)
ComparatorSeen(o) == o.name = "comparator" => Text(o) \in Comparators
RecipientsSeen(o) == o.name = "recipient" =>
                        o.list /\ (o.value <= MAX_RECIPIENTS => evt.recipient_count = o.value)
Seen(o) == TopicSeen(o) /\ TypeSeen(o) /\ ComparatorSeen(o) /\ RecipientsSeen(o)

NoTopicSeen == cursor = FirstOf(tpc) /\ \E g \in Garbage : evt.topic_name = g.topic_name

Sound == /\ \A n \in 1..(opt - 1) : Seen(Options[n])
         /\ \A m, n \in 1..(opt - 1) :
               m < n /\ Options[m].name = "type" /\ Options[n].name = "ref_value" =>
                  Reference(evt) = Text(Options[n])
         /\ (\A n \in 1..(opt - 1) : Options[n].name # "topic") => NoTopicSeen

Filling == cpc = "option" => Rejected \/ Sound

(* An event in the list of topic k: it comes from a section passed, without *)
(* a bad option, and holds what the section says.                           *)
Attached(k, e) ==
    IF Has(SectionOf(e), "topic")
    THEN k \in FirstNamed(Text(Option(SectionOf(e), "topic"))) /\ e.evt.topic_name = tpc[k].name
    ELSE k = 1 /\ \E g \in Garbage : e.evt.topic_name = g.topic_name
Faithful(e, s) ==
    /\ TypeFirst(s) => Reference(e) = Text(Option(s, "ref_value"))
    /\ Has(s, "recipient") =>
          /\ Option(s, "recipient").list
          /\ Option(s, "recipient").value <= MAX_RECIPIENTS
                => e.recipient_count = Option(s, "recipient").value
Kept(k, e) == /\ e.section \in DOMAIN eventFile /\ e.section < sec
              /\ Attached(k, e) /\ Faithful(e.evt, SectionOf(e))
              /\ Has(SectionOf(e), "topic") => Sane(SectionOf(e))

AllKept == \A k \in DOMAIN tpc : \A n \in DOMAIN tpc[k].log : Kept(k, tpc[k].log[n])

(* The events of a list are in the order of their sections, and no section  *)
(* passed that is meant for it is missing unless the list is full.          *)
Missing(k, s) == s \in Meant(k) /\ s < sec /\ \A n \in DOMAIN tpc[k].log : tpc[k].log[n].section # s
InOrder ==
    /\ \A k \in DOMAIN tpc : \A m, n \in DOMAIN tpc[k].log :
          m < n => tpc[k].log[m].section < tpc[k].log[n].section
    /\ cpc \in {"event", "option", "loaded"} /\ dropped = 0 =>
          \A k \in DOMAIN tpc : \A s \in DOMAIN eventFile :
             Missing(k, s) => /\ Len(tpc[k].log) = Capacity
                              /\ \A n \in DOMAIN tpc[k].log : tpc[k].log[n].section < s

ConfigInv == Typed /\ Stages /\ Filling /\ AllKept /\ InOrder /\ ConfigCrashExplained

-----------------------------------------------------------------------------
(* Files, sections and options. *)

(* The sections of a file that loads, and the options of each.              *)
LEMMA Sections ==
    ASSUME NEW f \in (TopicFiles \cup EventFiles) \ {Broken}
    PROVE  /\ Len(f) \in Nat /\ DOMAIN f = 1..Len(f)
           /\ \A s \in DOMAIN f : /\ Len(f[s].options) \in Nat
                                  /\ DOMAIN f[s].options = 1..Len(f[s].options)
                                  /\ \A n \in DOMAIN f[s].options : Text(f[s].options[n]) \in Strings
<1>1. IsList(f) /\ \A s \in DOMAIN f : IsList(f[s].options)
  BY FilesAssumption
<1>2. Len(f) \in Nat /\ DOMAIN f = 1..Len(f)
  BY <1>1 DEF IsList
<1>3. ASSUME NEW s \in DOMAIN f
      PROVE  Len(f[s].options) \in Nat /\ DOMAIN f[s].options = 1..Len(f[s].options)
  BY <1>1 DEF IsList
<1>4. ASSUME NEW s \in DOMAIN f, NEW n \in DOMAIN f[s].options
      PROVE  Text(f[s].options[n]) \in Strings
  <2>1. f[s].options[n] \in AllOptions
    BY DEF AllOptions
  <2> QED
    BY <2>1, Zenon DEF Strings
<1> QED
  BY <1>2, <1>3, <1>4

(* The option of a name is the one that is found under it.                  *)
LEMMA OptionFound ==
    ASSUME NEW section, NEW name, Has(section, name)
    PROVE  \E n \in DOMAIN section.options : /\ section.options[n].name = name
                                             /\ Option(section, name) = section.options[n]
BY Zenon DEF Has, Option

LEMMA OptionIs ==
    ASSUME NEW f \in (TopicFiles \cup EventFiles) \ {Broken}, NEW s \in DOMAIN f,
           NEW n \in DOMAIN f[s].options
    PROVE  /\ Has(f[s], f[s].options[n].name)
           /\ Option(f[s], f[s].options[n].name) = f[s].options[n]
<1>1. Has(f[s], f[s].options[n].name)
  BY Zenon DEF Has
<1>2. PICK m \in DOMAIN f[s].options :
         /\ f[s].options[m].name = f[s].options[n].name
         /\ Option(f[s], f[s].options[n].name) = f[s].options[m]
  BY <1>1, OptionFound
<1>3. m = n
  BY <1>2, FilesAssumption
<1> QED
  BY <1>1, <1>2, <1>3

(* What a struct event may start with is one.                               *)
LEMMA GarbageStruct == Garbage \subseteq Struct
<1> SUFFICES ASSUME NEW g \in Garbage PROVE g \in Struct
  OBVIOUS
<1>1. {g.topic_name, g.type, g.param, g.comp_sym, g.ref_num, g.ref_string, g.sender} \subseteq Strings
  BY Zenon DEF Strings
<1>2. /\ g = [topic_name |-> g.topic_name, type |-> g.type, param |-> g.param,
              comp_sym |-> g.comp_sym, ref_num |-> g.ref_num, ref_string |-> g.ref_string,
              sender |-> g.sender, recipient_count |-> g.recipient_count]
      /\ g.recipient_count \in Int
  BY FilesAssumption
<1> QED
  BY <1>1, <1>2 DEF Struct

(* find_topic finds the first topic of the name, from a position on.        *)
LEMMA FindTopic ==
    ASSUME Len(tpc) \in Nat, DOMAIN tpc = 1..Len(tpc),
           NEW from \in {NULL} \cup DOMAIN tpc, NEW name
    PROVE  \/ /\ find_topic(from, name) = NULL
              /\ from = NULL \/ \A k \in from..Len(tpc) : tpc[k].name # name
           \/ /\ find_topic(from, name) \in from..Len(tpc) /\ from # NULL
              /\ tpc[find_topic(from, name)].name = name
              /\ \A j \in from..(find_topic(from, name) - 1) : tpc[j].name # name
<1>1. CASE from = NULL \/ \A k \in from..Len(tpc) : tpc[k].name # name
  BY <1>1 DEF find_topic
<1>2. CASE ~(from = NULL \/ \A k \in from..Len(tpc) : tpc[k].name # name)
  <2> DEFINE T == {k \in from..Len(tpc) : tpc[k].name = name}
             First(k) == tpc[k].name = name /\ \A j \in from..(k - 1) : tpc[j].name # name
  <2>1. from \in Nat /\ T \in SUBSET Nat /\ T # {}
    BY <1>2 DEF NULL
  <2>2. PICK x \in T : \A y \in T : x <= y
    BY <2>1, Least
  <2>3. x \in from..Len(tpc) /\ First(x)
    BY <2>1, <2>2
  <2>4. find_topic(from, name) = CHOOSE k \in from..Len(tpc) : First(k)
    BY <1>2, Zenon DEF find_topic
  <2> HIDE DEF First
  <2>5. find_topic(from, name) \in from..Len(tpc) /\ First(find_topic(from, name))
    BY <2>3, <2>4, Zenon
  <2> QED
    BY <1>2, <2>5 DEF First
<1> QED
  BY <1>1, <1>2

-----------------------------------------------------------------------------
(* The lists that utils_get_data builds. *)

(* main_initialize_program calls utils_get_data.                            *)
Begins == /\ cpc = "idle" /\ cpc' = "topics"
          /\ UNCHANGED <<topicFile, eventFile, tpc, sec, opt, cursor, evt, dropped>>

ConfigStep == ConfigNext \/ Begins \/ UNCHANGED configVars

LEMMA Shapes ==
    ASSUME Typed
    PROVE  /\ Len(tpc) \in Nat /\ DOMAIN tpc = 1..Len(tpc)
           /\ \A k \in DOMAIN tpc : /\ tpc[k] \in TopicNode
                                    /\ Len(tpc[k].log) \in Nat
                                    /\ DOMAIN tpc[k].log = 1..Len(tpc[k].log)
                                    /\ \A n \in DOMAIN tpc[k].log : tpc[k].log[n] \in Logged
<1>1. tpc \in Seq(TopicNode)
  BY DEF Typed
<1>2. Len(tpc) \in Nat /\ DOMAIN tpc = 1..Len(tpc) /\ \A k \in DOMAIN tpc : tpc[k] \in TopicNode
  BY <1>1
<1>3. ASSUME NEW k \in DOMAIN tpc
      PROVE  /\ Len(tpc[k].log) \in Nat /\ DOMAIN tpc[k].log = 1..Len(tpc[k].log)
             /\ \A n \in DOMAIN tpc[k].log : tpc[k].log[n] \in Logged
  <2>1. tpc[k].log \in Seq(Logged)
    BY <1>2 DEF TopicNode
  <2> QED
    BY <2>1
<1> QED
  BY <1>2, <1>3

(* The option under the cursor.                                             *)
LEMMA AtOption ==
    ASSUME Typed, Stages, cpc = "option"
    PROVE  /\ eventFile \in (TopicFiles \cup EventFiles) \ {Broken} /\ sec \in DOMAIN eventFile
           /\ Len(Options) \in Nat /\ DOMAIN Options = 1..Len(Options)
           /\ \A n \in 1..Len(Options) : /\ Text(Options[n]) \in Strings
                                         /\ Has(eventFile[sec], Options[n].name)
                                         /\ Option(eventFile[sec], Options[n].name) = Options[n]
<1>1. eventFile \in (TopicFiles \cup EventFiles) \ {Broken} /\ sec \in DOMAIN eventFile
  BY DEF Typed, Stages
<1>2. /\ Len(Options) \in Nat /\ DOMAIN Options = 1..Len(Options)
      /\ \A n \in DOMAIN Options : Text(Options[n]) \in Strings
  BY <1>1, Sections, Zenon DEF Options
<1>3. ASSUME NEW n \in 1..Len(Options)
      PROVE  /\ Has(eventFile[sec], Options[n].name)
             /\ Option(eventFile[sec], Options[n].name) = Options[n]
  BY <1>1, <1>2, OptionIs DEF Options
<1> QED
  BY <1>1, <1>2, <1>3

(* What find_topic leaves in the cursor.                                    *)
LEMMA FoundCursor ==
    ASSUME Typed, NEW name
    PROVE  find_topic(cursor, name) \in {NULL} \cup DOMAIN tpc
<1>1. cursor \in {NULL} \cup DOMAIN tpc /\ Len(tpc) \in Nat /\ DOMAIN tpc = 1..Len(tpc)
  BY Shapes DEF Typed
<1>2. \/ find_topic(cursor, name) = NULL
      \/ find_topic(cursor, name) \in cursor..Len(tpc) /\ cursor # NULL
  BY <1>1, FindTopic
<1> QED
  BY <1>1, <1>2 DEF NULL

LEMMA InitTyped == ConfigInit => Typed
BY GarbageStruct DEF ConfigInit, Typed, NULL

(* A topic appended, or a list changed, leaves a list of topics.            *)
LEMMA TopicAppended ==
    ASSUME Typed, cpc = "topic", topicFile # Broken, sec <= Len(topicFile),
           ValidTopic(topicFile[sec])
    PROVE  create_node(topicFile[sec]) \in TopicNode
<1>1. /\ topicFile \in (TopicFiles \cup EventFiles) \ {Broken} /\ sec \in Nat \ {0}
  BY DEF Typed
<1>2. sec \in DOMAIN topicFile
  BY <1>1, Sections
<1>3. Has(topicFile[sec], "name") /\ Has(topicFile[sec], "qos")
      /\ atoi(Text(Option(topicFile[sec], "qos"))) \in 0..2
  BY DEF ValidTopic
<1>4. PICK n \in DOMAIN topicFile[sec].options :
         Option(topicFile[sec], "name") = topicFile[sec].options[n]
  BY <1>3, OptionFound
<1>5. Text(Option(topicFile[sec], "name")) \in Strings
  BY <1>1, <1>2, <1>4, Sections
<1> QED
  BY <1>3, <1>5 DEF create_node, TopicNode

LEMMA TypedStep == Typed /\ Stages /\ ConfigStep => Typed'
<1> SUFFICES ASSUME Typed, Stages, ConfigStep PROVE Typed'
  OBVIOUS
<1> USE DEF NULL
<1>1. /\ tpc \in Seq(TopicNode) /\ Len(tpc) \in Nat /\ DOMAIN tpc = 1..Len(tpc)
      /\ sec \in Nat /\ opt \in Nat /\ dropped \in Nat
  BY Shapes DEF Typed
<1>2. ASSUME TopicSection PROVE Typed'
  <2>1. /\ cpc = "topic" /\ topicFile # Broken /\ sec <= Len(topicFile) /\ sec' = sec + 1
        /\ UNCHANGED <<topicFile, eventFile, cpc, opt, cursor, evt>>
    BY <1>2 DEF TopicSection, Stages
  <2>2. CASE ValidTopic(topicFile[sec]) /\ tpc' = Append(tpc, create_node(topicFile[sec]))
                /\ dropped' = dropped
    <3>1. create_node(topicFile[sec]) \in TopicNode
      BY <2>1, <2>2, TopicAppended
    <3>2. tpc' \in Seq(TopicNode) /\ DOMAIN tpc' = 1..(Len(tpc) + 1)
      BY <1>1, <2>2, <3>1
    <3> QED
      BY <1>1, <2>1, <2>2, <3>2 DEF Typed
  <2>3. CASE tpc' = tpc /\ dropped' \in {dropped, dropped + 1}
    BY <1>1, <2>1, <2>3 DEF Typed
  <2> QED
    BY <1>2, <2>2, <2>3 DEF TopicSection, llist_add_end
<1>3. ASSUME BeginEvent PROVE Typed'
  <2>1. cursor' \in {NULL} \cup DOMAIN tpc
    <3>1. CASE tpc = <<>>
      BY <1>3, <3>1 DEF BeginEvent, FirstOf
    <3>2. CASE tpc # <<>>
      BY <1>1, <1>3, <3>2 DEF BeginEvent, FirstOf
    <3> QED
      BY <3>1, <3>2
  <2>2. evt' \in Struct
    BY <1>3, GarbageStruct DEF BeginEvent
  <2> QED
    BY <1>1, <1>3, <2>1, <2>2 DEF BeginEvent, Typed
<1>4. ASSUME SetOption PROVE Typed'
  <2>1. /\ cpc = "option" /\ opt \in 1..Len(Options) /\ evt' = Filled(Opt) /\ ~BadOption(Opt)
        /\ UNCHANGED <<topicFile, eventFile, tpc, cpc, sec, dropped>>
    <3>1. cpc = "option"
      BY <1>4 DEF SetOption
    <3>2. Len(Options) \in Nat
      BY <3>1, AtOption
    <3> QED
      BY <1>1, <1>4, <3>1, <3>2 DEF SetOption, Typed
  <2>2. Text(Opt) \in Strings
    BY <2>1, AtOption DEF Opt
  <2>3. SetRecipients(Opt) \in Struct \/ Opt.name # "recipient"
    <3>1. CASE Opt.name = "recipient"
      <4>1. Opt.list
        BY <2>1, <3>1 DEF BadOption
      <4>2. Opt.value \in Nat
        <5>1. eventFile \in (TopicFiles \cup EventFiles) \ {Broken} /\ sec \in DOMAIN eventFile
              /\ opt \in DOMAIN eventFile[sec].options /\ Opt = eventFile[sec].options[opt]
          BY <2>1, AtOption DEF Opt, Options
        <5> QED
          BY <3>1, <4>1, <5>1, FilesAssumption
      <4> QED
        BY <4>2, ConfigAssumption DEF SetRecipients, Typed, Struct
    <3> QED
      BY <3>1
  <2>4. evt' \in Struct
    BY <2>1, <2>2, <2>3 DEF Filled, SetRef, IsText, Typed, Struct
  <2>5. cursor' \in {NULL} \cup DOMAIN tpc
    <3>1. find_topic(cursor, Text(Opt)) \in {NULL} \cup DOMAIN tpc
      BY FoundCursor
    <3> QED
      BY <1>4, <3>1 DEF SetOption, Typed
  <2> QED
    BY <1>1, <1>4, <2>1, <2>4, <2>5 DEF SetOption, Typed
<1>5. ASSUME Reject PROVE Typed'
  <2>1. cpc = "option" /\ Len(Options) \in Nat
    BY <1>5, AtOption DEF Reject
  <2>2. evt' \in Struct
    <3>1. Empty \in Strings
      BY Zenon DEF Strings
    <3> QED
      BY <1>5, <3>1 DEF Reject, Typed, Struct
  <2> QED
    BY <1>5, <2>1, <2>2 DEF Reject, Typed
<1>6. ASSUME AddEvent \/ AddEventFails PROVE Typed'
  <2>1. cursor \in DOMAIN tpc /\ tpc[cursor] \in TopicNode /\ cpc = "option"
    BY <1>6, Shapes DEF AddEvent, AddEventFails, Listed, Adding, Typed
  <2>2. Entry \in Logged
    BY DEF Entry, Logged, Typed
  <2>3. CASE AddEvent
    <3>1. [tpc[cursor] EXCEPT !.log = Append(tpc[cursor].log, Entry)] \in TopicNode
      BY <2>1, <2>2 DEF TopicNode
    <3>2. tpc' \in Seq(TopicNode) /\ DOMAIN tpc' = DOMAIN tpc
      <4>1. tpc' = [tpc EXCEPT ![cursor] = [tpc[cursor] EXCEPT !.log = Append(tpc[cursor].log, Entry)]]
        BY <2>3, Zenon DEF AddEvent
      <4> QED
        BY <1>1, <2>1, <3>1, <4>1
    <3> QED
      BY <1>1, <2>3, <3>2 DEF AddEvent, Typed
  <2>4. CASE AddEventFails
    <3>1. [tpc[cursor] EXCEPT !.lost = tpc[cursor].lost + 1] \in TopicNode
      BY <2>1 DEF TopicNode
    <3>2. tpc' \in Seq(TopicNode) /\ DOMAIN tpc' = DOMAIN tpc
      <4>1. tpc' = [tpc EXCEPT ![cursor] = [tpc[cursor] EXCEPT !.lost = tpc[cursor].lost + 1]]
        BY <2>4, Zenon DEF AddEventFails
      <4> QED
        BY <1>1, <2>1, <3>1, <4>1
    <3> QED
      BY <1>1, <2>4, <3>2 DEF AddEventFails, Typed
  <2> QED
    BY <1>6, <2>3, <2>4
<1>7. ASSUME \/ LoadTopics \/ LoadTopicsFails \/ TopicsEnd \/ LoadEvents \/ LoadEventsFails
             \/ LoadEventsCrashes \/ EventsEnd \/ SkipSection \/ RecipientsCrash \/ Discard
             \/ AddEventRefused \/ AddEventCrashes \/ Begins \/ UNCHANGED configVars
      PROVE  Typed'
  BY <1>1, <1>7 DEF LoadTopics, LoadTopicsFails, TopicsEnd, LoadEvents, LoadEventsFails,
                    LoadEventsCrashes, EventsEnd, SkipSection, RecipientsCrash, Discard,
                    AddEventRefused, AddEventCrashes, Begins, configVars, Typed, Adding, Listed
<1> QED
  BY <1>2, <1>3, <1>4, <1>5, <1>6, <1>7, Zenon DEF ConfigStep, ConfigNext

LEMMA InitStages == ConfigInit => Stages
BY DEF ConfigInit, Stages

(* What AddEvent and AddEventFails do to the lists.                         *)
LEMMA ListChanged ==
    ASSUME Typed, AddEvent \/ AddEventFails
    PROVE  /\ cursor \in DOMAIN tpc /\ DOMAIN tpc' = DOMAIN tpc
           /\ \A k \in DOMAIN tpc : k # cursor => tpc'[k] = tpc[k]
           /\ tpc'[cursor].name = tpc[cursor].name /\ tpc'[cursor].qos = tpc[cursor].qos
           /\ AddEvent => /\ tpc'[cursor].lost = tpc[cursor].lost
                          /\ tpc'[cursor].log = Append(tpc[cursor].log, Entry)
                          /\ Len(tpc'[cursor].log) = Len(tpc[cursor].log) + 1
                          /\ DOMAIN tpc'[cursor].log = 1..(Len(tpc[cursor].log) + 1)
                          /\ tpc'[cursor].log[Len(tpc[cursor].log) + 1] = Entry
                          /\ \A n \in DOMAIN tpc[cursor].log :
                                tpc'[cursor].log[n] = tpc[cursor].log[n]
           /\ AddEventFails => tpc'[cursor].log = tpc[cursor].log
<1>1. cursor \in DOMAIN tpc /\ tpc[cursor] \in TopicNode /\ tpc \in Seq(TopicNode)
  BY Shapes DEF AddEvent, AddEventFails, Listed, Adding, Typed
<1>2. Entry \in Logged
  BY DEF Entry, Logged, Typed
<1> HIDE DEF Entry
<1>3. CASE AddEvent
  <2>1. tpc' = [tpc EXCEPT ![cursor].log = Append(tpc[cursor].log, Entry)]
    BY <1>3, Zenon DEF AddEvent
  <2>2. tpc[cursor].log \in Seq(Logged)
    BY <1>1 DEF TopicNode
  <2>3. tpc'[cursor].log = Append(tpc[cursor].log, Entry)
    BY <1>1, <2>1 DEF TopicNode
  <2>4. /\ tpc'[cursor].name = tpc[cursor].name /\ tpc'[cursor].qos = tpc[cursor].qos
        /\ tpc'[cursor].lost = tpc[cursor].lost
        /\ DOMAIN tpc' = DOMAIN tpc /\ \A k \in DOMAIN tpc : k # cursor => tpc'[k] = tpc[k]
    BY <1>1, <2>1 DEF TopicNode
  <2>5. ~AddEventFails
    <3>1. Len(tpc'[cursor].log) # Len(tpc[cursor].log)
      BY <1>2, <2>2, <2>3
    <3>2. ASSUME AddEventFails PROVE tpc'[cursor].log = tpc[cursor].log
      <4>1. tpc' = [tpc EXCEPT ![cursor].lost = tpc[cursor].lost + 1]
        BY <3>2, Zenon DEF AddEventFails
      <4> QED
        BY <1>1, <4>1 DEF TopicNode
    <3> QED
      BY <3>1, <3>2
  <2>6. /\ Len(tpc'[cursor].log) = Len(tpc[cursor].log) + 1
        /\ DOMAIN tpc'[cursor].log = 1..(Len(tpc[cursor].log) + 1)
        /\ tpc'[cursor].log[Len(tpc[cursor].log) + 1] = Entry
        /\ \A n \in DOMAIN tpc[cursor].log : tpc'[cursor].log[n] = tpc[cursor].log[n]
    BY <1>2, <2>2, <2>3
  <2> QED
    BY <1>1, <2>3, <2>4, <2>5, <2>6
<1>4. CASE AddEventFails /\ ~AddEvent
  <2>1. tpc' = [tpc EXCEPT ![cursor].lost = tpc[cursor].lost + 1]
    BY <1>4, Zenon DEF AddEventFails
  <2>2. /\ tpc'[cursor].name = tpc[cursor].name /\ tpc'[cursor].qos = tpc[cursor].qos
        /\ tpc'[cursor].log = tpc[cursor].log
        /\ DOMAIN tpc' = DOMAIN tpc /\ \A k \in DOMAIN tpc : k # cursor => tpc'[k] = tpc[k]
    BY <1>1, <2>1 DEF TopicNode
  <2> QED
    BY <1>1, <1>4, <2>2
<1> QED
  BY <1>3, <1>4

(* A topic more in the list.                                                *)
LEMMA TopicListed ==
    ASSUME Typed, Stages, TopicSection
    PROVE  \/ tpc' = tpc
           \/ /\ DOMAIN tpc' = 1..(Len(tpc) + 1) /\ \A k \in DOMAIN tpc : tpc'[k] = tpc[k]
              /\ tpc'[Len(tpc) + 1] = create_node(topicFile[sec])
              /\ ValidTopic(topicFile[sec]) /\ create_node(topicFile[sec]) \in TopicNode
<1>1. CASE ValidTopic(topicFile[sec]) /\ tpc' = Append(tpc, create_node(topicFile[sec]))
  <2>1. cpc = "topic" /\ topicFile # Broken /\ sec <= Len(topicFile)
    BY DEF TopicSection, Stages
  <2>2. create_node(topicFile[sec]) \in TopicNode
    BY <1>1, <2>1, TopicAppended
  <2>3. tpc \in Seq(TopicNode)
    BY DEF Typed
  <2> QED
    BY <1>1, <2>2, <2>3
<1> QED
  BY <1>1 DEF TopicSection, llist_add_end

LEMMA StagesStep == Typed /\ Typed' /\ Stages /\ ConfigStep => Stages'
<1> SUFFICES ASSUME Typed, Typed', Stages, ConfigStep PROVE Stages'
  OBVIOUS
<1> DEFINE Fit(t, d) == /\ t.name # Empty /\ Len(t.log) <= Capacity
                        /\ d = 0 => t.lost = 0
           Early == {"idle", "topics", "topic", "events", "failed"}
<1>1. dropped \in Nat /\ sec \in Nat /\ opt \in Nat /\ Capacity \in Nat
  BY ConfigAssumption DEF Typed
<1>2. /\ \A k \in DOMAIN tpc : Fit(tpc[k], dropped)
      /\ cpc \in Early => \A k \in DOMAIN tpc : tpc[k].log = <<>>
  BY DEF Stages
<1>3. CASE TopicSection
  <2>1. /\ cpc = "topic" /\ cpc' = "topic" /\ topicFile' # Broken
        /\ dropped' \in {dropped, dropped + 1}
    BY <1>3 DEF TopicSection, Stages
  <2>2. ASSUME NEW k \in DOMAIN tpc' PROVE Fit(tpc'[k], dropped') /\ tpc'[k].log = <<>>
    <3>1. CASE k \in DOMAIN tpc
      <4>1. tpc'[k] = tpc[k]
        BY <1>3, <3>1, TopicListed
      <4> QED
        BY <1>1, <1>2, <2>1, <3>1, <4>1
    <3>2. CASE k \notin DOMAIN tpc
      <4>1. /\ tpc'[k] = create_node(topicFile[sec]) /\ ValidTopic(topicFile[sec])
            /\ create_node(topicFile[sec]) \in TopicNode
        BY <1>3, <3>2, Shapes, TopicListed
      <4>2. /\ create_node(topicFile[sec]).log = <<>> /\ create_node(topicFile[sec]).lost = 0
            /\ create_node(topicFile[sec]).name = Text(Option(topicFile[sec], "name"))
        BY DEF create_node
      <4>3. Len(<<>>) <= Capacity
        BY <1>1
      <4> QED
        BY <4>1, <4>2, <4>3 DEF ValidTopic
    <3> QED
      BY <3>1, <3>2
  <2> QED
    BY <2>1, <2>2 DEF Stages
<1>4. CASE AddEvent \/ AddEventFails
  <2>1. /\ cpc = "option" /\ cpc' = "event" /\ UNCHANGED eventFile
        /\ AddEvent => ~Full /\ dropped' = dropped
        /\ AddEventFails => dropped' = dropped + 1 /\ ~Full
    BY <1>4 DEF AddEvent, AddEventFails, Listed, Adding
  <2>2. Len(tpc[cursor].log) < Capacity
    <3>1. Len(tpc[cursor].log) # Capacity
      BY <1>4, <2>1 DEF Full, List
    <3>2. cursor \in DOMAIN tpc /\ Len(tpc[cursor].log) \in Nat
      BY <1>4, ListChanged, Shapes
    <3> QED
      BY <1>1, <1>2, <3>1, <3>2
  <2>3. ASSUME NEW k \in DOMAIN tpc' PROVE Fit(tpc'[k], dropped')
    <3>1. k \in DOMAIN tpc /\ cursor \in DOMAIN tpc
      BY <1>4, ListChanged
    <3>2. CASE k # cursor
      <4>1. tpc'[k] = tpc[k]
        BY <1>4, <3>1, <3>2, ListChanged
      <4> QED
        BY <1>1, <1>2, <1>4, <2>1, <3>1, <4>1
    <3>3. CASE k = cursor
      <4>1. /\ tpc'[k].name = tpc[k].name
            /\ AddEvent => /\ tpc'[k].lost = tpc[k].lost
                           /\ Len(tpc'[k].log) = Len(tpc[k].log) + 1
            /\ AddEventFails => tpc'[k].log = tpc[k].log
        BY <1>4, <3>3, ListChanged
      <4>2. Len(tpc[k].log) \in Nat
        BY <3>1, Shapes
      <4> QED
        BY <1>1, <1>2, <1>4, <2>1, <2>2, <3>1, <3>3, <4>1, <4>2
    <3> QED
      BY <3>2, <3>3
  <2> QED
    BY <1>2, <2>1, <2>3 DEF Stages
<1>5. ASSUME UNCHANGED tpc, dropped' \in {dropped, dropped + 1}
      PROVE  \A k \in DOMAIN tpc' : Fit(tpc'[k], dropped')
  BY <1>1, <1>2, <1>5
<1>6. CASE BeginEvent
  <2>1. /\ UNCHANGED <<tpc, dropped, eventFile, sec>> /\ cpc = "event" /\ cpc' = "option"
        /\ sec <= Len(eventFile) /\ eventFile[sec].type = "event" /\ opt' = 1
    BY <1>6 DEF BeginEvent
  <2>2. eventFile \in (TopicFiles \cup EventFiles) \ {Broken} /\ sec \in DOMAIN eventFile
    <3>1. eventFile \in (TopicFiles \cup EventFiles) \ {Broken}
      BY <2>1 DEF Typed, Stages
    <3> QED
      BY <2>1, <3>1, Sections DEF Typed
  <2>3. Options' = Options /\ Len(Options) \in Nat
    <3>1. Options' = Options
      BY <2>1 DEF Options
    <3> QED
      BY <2>2, <3>1, Sections, Zenon DEF Options
  <2> QED
    BY <1>5, <2>1, <2>2, <2>3 DEF Stages
<1>7. CASE SetOption \/ Reject
  <2>1. UNCHANGED <<tpc, dropped, eventFile, sec, cpc>> /\ cpc = "option" /\ Options' = Options
    BY <1>7 DEF SetOption, Reject, Options
  <2>2. opt' <= Len(Options) + 1
    BY <1>1, <1>7, <2>1, AtOption DEF SetOption, Reject
  <2> QED
    BY <1>5, <2>1, <2>2 DEF Stages
<1>8. CASE EventsEnd
  <2>1. /\ UNCHANGED <<tpc, dropped, eventFile, sec>> /\ cpc = "event" /\ cpc' = "loaded"
        /\ sec > Len(eventFile)
    BY <1>8 DEF EventsEnd
  <2> QED
    BY <1>5, <2>1 DEF Stages
<1>9. CASE LoadTopics \/ LoadTopicsFails \/ TopicsEnd \/ LoadEvents \/ LoadEventsFails \/ Begins
  <2>1. UNCHANGED <<tpc, topicFile, eventFile>> /\ dropped' \in {dropped, dropped + 1}
        /\ cpc \in Early
    BY <1>9 DEF LoadTopics, LoadTopicsFails, TopicsEnd, LoadEvents, LoadEventsFails, Begins
  <2>2. /\ cpc' # "option" /\ (cpc' = "events" => sec' = 1)
        /\ (cpc' = "topic" => topicFile' # Broken) /\ (cpc' = "event" => eventFile' # Broken)
        /\ (cpc' = "loaded" => dropped' # 0)
    BY <1>1, <1>9 DEF LoadTopics, LoadTopicsFails, TopicsEnd, LoadEvents, LoadEventsFails, Begins
  <2> QED
    BY <1>2, <1>5, <2>1, <2>2 DEF Stages
<1>10. CASE SkipSection \/ Discard \/ AddEventRefused
  <2>1. /\ UNCHANGED <<tpc, dropped, eventFile>> /\ cpc \in {"event", "option"} /\ cpc' = "event"
    BY <1>10 DEF SkipSection, Discard, AddEventRefused, Listed, Adding
  <2> QED
    BY <1>5, <2>1 DEF Stages
<1>11. CASE LoadEventsCrashes \/ RecipientsCrash \/ AddEventCrashes
  <2>1. UNCHANGED <<tpc, dropped>> /\ cpc' = "crashed"
    BY <1>11 DEF LoadEventsCrashes, RecipientsCrash, AddEventCrashes
  <2> QED
    BY <1>5, <2>1 DEF Stages
<1>12. CASE UNCHANGED configVars
  <2>1. UNCHANGED <<tpc, dropped, eventFile, topicFile, sec, opt, cpc, Options>>
    BY <1>12 DEF configVars, Options
  <2> QED
    BY <1>5, <2>1 DEF Stages
<1> QED
  BY <1>3, <1>4, <1>6, <1>7, <1>8, <1>9, <1>10, <1>11, <1>12, Zenon DEF ConfigStep, ConfigNext

-----------------------------------------------------------------------------
(* The reading of an event's options. *)

(* From the first topic on, find_topic finds the first topic of the name.   *)
LEMMA FirstFound ==
    ASSUME Typed, cursor = FirstOf(tpc), NEW name
    PROVE  \/ find_topic(cursor, name) = NULL /\ FirstNamed(name) = {}
           \/ find_topic(cursor, name) # NULL /\ find_topic(cursor, name) \in FirstNamed(name)
<1>1. /\ Len(tpc) \in Nat /\ DOMAIN tpc = 1..Len(tpc) /\ cursor \in {NULL} \cup DOMAIN tpc
      /\ tpc \in Seq(TopicNode)
  BY Shapes DEF Typed
<1>2. CASE tpc = <<>>
  <2>1. cursor = NULL /\ DOMAIN tpc = {}
    BY <1>2 DEF FirstOf
  <2> QED
    BY <1>1, <2>1, FindTopic DEF FirstNamed, NULL
<1>3. CASE tpc # <<>>
  <2>1. cursor = 1
    BY <1>3 DEF FirstOf
  <2> QED
    BY <1>1, <2>1, FindTopic DEF FirstNamed, NULL
<1> QED
  BY <1>2, <1>3

(* What an option changes in the struct event.                              *)
LEMMA FilledFields ==
    ASSUME Typed, NEW o, NEW e, e = Filled(o)
    PROVE  /\ e.topic_name = IF o.name = "topic" THEN Text(o) ELSE evt.topic_name
           /\ e.type = IF o.name = "type" THEN Text(o) ELSE evt.type
           /\ o.name \notin {"type", "ref_value"} => Reference(e) = Reference(evt)
           /\ o.name = "ref_value" => Reference(e) = Text(o)
           /\ o.name # "recipient" => e.recipient_count = evt.recipient_count
           /\ o.name = "recipient" /\ o.value <= MAX_RECIPIENTS => e.recipient_count = o.value
<1>1. evt \in Struct
  BY DEF Typed
<1> QED
  BY <1>1 DEF Filled, SetRef, SetRecipients, IsText, Reference, Struct

(* The options of a section have different names.                           *)
LEMMA NamesDiffer ==
    ASSUME Typed, Stages, cpc = "option", NEW m \in 1..Len(Options), NEW n \in 1..Len(Options),
           Options[m].name = Options[n].name
    PROVE  m = n
<1>1. /\ eventFile \in (TopicFiles \cup EventFiles) \ {Broken} /\ sec \in DOMAIN eventFile
      /\ m \in DOMAIN eventFile[sec].options /\ n \in DOMAIN eventFile[sec].options
      /\ eventFile[sec].options[m].name = eventFile[sec].options[n].name
  BY AtOption DEF Options
<1> QED
  BY <1>1, FilesAssumption

(* A bad option is one that no section meant for a topic has.               *)
LEMMA BadNotSane ==
    ASSUME Typed, Stages, Sound, cpc = "option", opt <= Len(Options), BadOption(Opt)
    PROVE  ~Sane(eventFile[sec])
<1> DEFINE section == eventFile[sec]
<1>1. opt \in 1..Len(Options) /\ Opt = Options[opt]
  BY AtOption DEF Opt, Typed
<1>2. Has(section, Opt.name) /\ Option(section, Opt.name) = Opt
  BY <1>1, AtOption
<1>3. CASE Opt.name = "topic" /\ find_topic(cursor, Text(Opt)) = NULL
  <2>1. \A n \in 1..(opt - 1) : Options[n].name # "topic"
    BY <1>1, <1>3, AtOption, NamesDiffer
  <2>2. cursor = FirstOf(tpc)
    BY <2>1 DEF Sound, NoTopicSeen
  <2>3. FirstNamed(Text(Opt)) = {}
    BY <1>3, <2>2, FirstFound
  <2> QED
    BY <1>2, <1>3, <2>3 DEF Sane
<1>4. CASE Opt.name = "type" /\ Text(Opt) \notin {"0", "1"}
  BY <1>2, <1>4 DEF Sane
<1>5. CASE Opt.name = "comparator" /\ Text(Opt) \notin Comparators
  <2> HIDE DEF Comparators
  <2> QED
    BY <1>2, <1>5, Zenon DEF Sane
<1>6. CASE Opt.name = "recipient" /\ ~Opt.list
  BY <1>2, <1>6, Zenon DEF Sane
<1> QED
  BY <1>3, <1>4, <1>5, <1>6, Zenon DEF BadOption

LEMMA InitFilling == ConfigInit => Filling
BY DEF ConfigInit, Filling

LEMMA FillingStep == Typed /\ Typed' /\ Stages /\ Stages' /\ Filling /\ ConfigStep => Filling'
<1> SUFFICES ASSUME Typed, Typed', Stages, Stages', Filling, ConfigStep, cpc' = "option"
             PROVE  (Rejected \/ Sound)'
  BY DEF Filling
<1>1. ASSUME UNCHANGED tpc, NEW name PROVE FirstNamed(name)' = FirstNamed(name)
  BY <1>1 DEF FirstNamed
<1>2. CASE BeginEvent
  <2>1. /\ opt' = 1 /\ cursor' = FirstOf(tpc) /\ UNCHANGED tpc /\ evt' \in Garbage
    BY <1>2 DEF BeginEvent
  <2>2. NoTopicSeen'
    BY <2>1 DEF NoTopicSeen
  <2>3. 1..(opt' - 1) = {}
    BY <2>1
  <2> QED
    BY <2>2, <2>3, Zenon DEF Sound
<1>3. CASE SetOption
  <2>1. /\ cpc = "option" /\ opt <= Len(Options) /\ ~BadOption(Opt) /\ evt' = Filled(Opt)
        /\ cursor' = IF Opt.name = "topic" THEN find_topic(cursor, Text(Opt)) ELSE cursor
        /\ opt' = opt + 1 /\ UNCHANGED <<tpc, eventFile, sec>>
    BY <1>3 DEF SetOption
  <2>2. opt \in Nat \ {0} /\ Len(Options) \in Nat /\ Options' = Options
    BY <2>1, AtOption DEF Typed, Options
  <2>3. Sound
    BY <2>1, <2>2 DEF Filling, Rejected
  <2>4. opt \in 1..Len(Options) /\ Opt = Options[opt] /\ opt' - 1 = opt
    BY <2>1, <2>2 DEF Opt
  <2> HIDE DEF Opt
  <2>5. ASSUME NEW n \in 1..(opt - 1) PROVE Options[n].name # Opt.name
    BY <2>1, <2>2, <2>4, NamesDiffer
  <2>6. /\ evt'.topic_name = IF Opt.name = "topic" THEN Text(Opt) ELSE evt.topic_name
        /\ evt'.type = IF Opt.name = "type" THEN Text(Opt) ELSE evt.type
        /\ Opt.name \notin {"type", "ref_value"} => Reference(evt') = Reference(evt)
        /\ Opt.name = "ref_value" => Reference(evt') = Text(Opt)
        /\ Opt.name # "recipient" => evt'.recipient_count = evt.recipient_count
        /\ Opt.name = "recipient" /\ Opt.value <= MAX_RECIPIENTS
              => evt'.recipient_count = Opt.value
    BY <2>1, FilledFields
  <2>7. ASSUME NEW n \in 1..(opt - 1) PROVE Seen(Options[n])'
    <3>1. Seen(Options[n]) /\ Options[n].name # Opt.name /\ Options[n]' = Options[n]
      BY <2>2, <2>3, <2>5 DEF Sound
    <3>2. TopicSeen(Options[n])'
      BY <1>1, <2>1, <2>2, <2>6, <3>1 DEF Seen, TopicSeen
    <3>3. TypeSeen(Options[n])' /\ ComparatorSeen(Options[n])' /\ RecipientsSeen(Options[n])'
      BY <2>2, <2>6, <3>1 DEF Seen, TypeSeen, ComparatorSeen, RecipientsSeen
    <3> QED
      BY <3>2, <3>3 DEF Seen
  <2>8. ASSUME NEW n, n = opt PROVE Seen(Options[n])'
    <3>1. Options'[n] = Opt
      BY <2>2, <2>4, <2>8
    <3>2. CASE Opt.name = "topic"
      <4>1. \A m \in 1..(opt - 1) : Options[m].name # "topic"
        BY <2>5, <3>2
      <4>2. cursor = FirstOf(tpc)
        BY <2>3, <4>1 DEF Sound, NoTopicSeen
      <4>3. cursor' \in FirstNamed(Text(Opt))
        BY <2>1, <3>2, <4>2, FirstFound DEF BadOption
      <4> QED
        BY <1>1, <2>1, <2>6, <3>1, <3>2, <4>3
           DEF Seen, TopicSeen, TypeSeen, ComparatorSeen, RecipientsSeen
    <3>3. CASE Opt.name # "topic"
      BY <2>1, <2>6, <3>1, <3>3
         DEF Seen, TopicSeen, TypeSeen, ComparatorSeen, RecipientsSeen, BadOption
    <3> QED
      BY <3>2, <3>3
  <2>9. ASSUME NEW m \in 1..opt, NEW n \in 1..opt, m < n,
               Options[m].name = "type", Options[n].name = "ref_value"
        PROVE  Reference(evt') = Text(Options[n])
    <3>1. CASE n = opt
      BY <2>4, <2>6, <2>9, <3>1
    <3>2. CASE n < opt
      <4>1. m \in 1..(opt - 1) /\ n \in 1..(opt - 1)
        BY <2>2, <2>9, <3>2
      <4>2. Reference(evt) = Text(Options[n]) /\ Opt.name # "type" /\ Opt.name # "ref_value"
        BY <2>3, <2>5, <2>9, <4>1 DEF Sound
      <4> QED
        BY <2>6, <4>2
    <3> QED
      BY <2>2, <3>1, <3>2
  <2>10. ASSUME \A n \in 1..opt : Options[n].name # "topic" PROVE NoTopicSeen'
    <3>1. NoTopicSeen /\ Opt.name # "topic"
      BY <2>2, <2>3, <2>4, <2>10 DEF Sound
    <3> QED
      BY <2>1, <2>6, <3>1 DEF NoTopicSeen
  <2>11. \A n \in 1..(opt' - 1) : Seen(Options[n])'
    <3> SUFFICES ASSUME NEW n \in 1..opt PROVE Seen(Options[n])'
      BY <2>4
    <3>1. CASE n = opt
      BY <2>8, <3>1
    <3>2. CASE n # opt
      BY <2>2, <2>7, <3>2
    <3> QED
      BY <3>1, <3>2
  <2> QED
    BY <2>2, <2>4, <2>9, <2>10, <2>11 DEF Sound
<1>4. CASE Reject
  <2>1. /\ cpc = "option" /\ opt <= Len(Options) /\ BadOption(Opt)
        /\ evt' = [evt EXCEPT !.topic_name = Empty]
        /\ opt' = Len(Options) + 1 /\ UNCHANGED <<tpc, eventFile, sec>>
    BY <1>4 DEF Reject
  <2>2. opt \in Nat \ {0} /\ Len(Options) \in Nat /\ Options' = Options
    BY <2>1, AtOption DEF Typed, Options
  <2>3. ~Sane(eventFile[sec])
    BY <2>1, <2>2, BadNotSane DEF Filling, Rejected
  <2>4. Sane(eventFile[sec])' <=> Sane(eventFile[sec])
    BY <2>1, Zenon DEF Sane, FirstNamed
  <2>5. evt'.topic_name = Empty
    BY <2>1 DEF Typed, Struct
  <2> QED
    BY <2>1, <2>2, <2>3, <2>4, <2>5 DEF Rejected
<1>5. CASE UNCHANGED <<tpc, eventFile, sec, opt, evt, cursor, cpc>>
  <2>1. Rejected' <=> Rejected
    BY <1>5, Zenon DEF Rejected, Sane, FirstNamed, Options
  <2>2. Sound' <=> Sound
    BY <1>5 DEF Sound, Seen, TopicSeen, TypeSeen, ComparatorSeen, RecipientsSeen,
                       NoTopicSeen, FirstNamed, Options
  <2> QED
    BY <1>5, <2>1, <2>2 DEF Filling
<1>6. BeginEvent \/ SetOption \/ Reject \/ UNCHANGED <<tpc, eventFile, sec, opt, evt, cursor, cpc>>
  BY DEF ConfigStep, ConfigNext, LoadTopics, LoadTopicsFails, TopicSection, TopicsEnd, LoadEvents,
         LoadEventsFails, LoadEventsCrashes, EventsEnd, SkipSection, RecipientsCrash, Discard,
         AddEvent, AddEventFails, AddEventRefused, AddEventCrashes, Begins, configVars
<1> QED
  BY <1>2, <1>3, <1>4, <1>5, <1>6

-----------------------------------------------------------------------------
(* The events in the lists. *)

(* What an event holds when all options of its section are read.            *)
LEMMA EventRead ==
    ASSUME Typed, Stages, Sound, cpc = "option", opt > Len(Options)
    PROVE  LET section == eventFile[sec]
           IN  /\ Has(section, "topic") =>
                     /\ Sane(section)
                     /\ cursor \in FirstNamed(Text(Option(section, "topic")))
                     /\ evt.topic_name = Text(Option(section, "topic"))
               /\ ~Has(section, "topic") => NoTopicSeen /\ ~Sane(section)
               /\ Faithful(evt, section)
<1> DEFINE section == eventFile[sec]
<1>1. /\ opt - 1 = Len(Options) /\ DOMAIN Options = 1..Len(Options)
      /\ Options = section.options /\ section.type = "event"
  <2>1. Len(Options) \in Nat /\ DOMAIN Options = 1..Len(Options)
    BY AtOption, Zenon
  <2>2. Options = section.options
    BY Zenon DEF Options
  <2>3. opt \in Nat /\ section.type = "event" /\ opt <= Len(Options) + 1
    BY DEF Typed, Stages
  <2>4. opt - 1 = Len(Options)
    BY <2>1, <2>3
  <2> QED
    BY <2>1, <2>2, <2>3, <2>4, Zenon
<1>2. /\ \A n \in 1..Len(Options) : Seen(Options[n])
      /\ \A m, n \in 1..Len(Options) :
            m < n /\ Options[m].name = "type" /\ Options[n].name = "ref_value" =>
               Reference(evt) = Text(Options[n])
      /\ (\A n \in 1..Len(Options) : Options[n].name # "topic") => NoTopicSeen
  BY <1>1, Zenon DEF Sound
<1>3. ASSUME NEW name, Has(section, name)
      PROVE  \E n \in 1..Len(Options) : /\ Options[n].name = name
                                        /\ Option(section, name) = Options[n]
                                        /\ Seen(Option(section, name))
  <2>1. PICK n \in DOMAIN section.options :
           section.options[n].name = name /\ Option(section, name) = section.options[n]
    BY <1>3, OptionFound
  <2> QED
    BY <1>1, <1>2, <2>1
<1>4. ASSUME NEW name, Has(section, name)
      PROVE  Seen(Option(section, name)) /\ Option(section, name).name = name
  BY <1>3, <1>4
<1>5. ASSUME Has(section, "topic")
      PROVE  /\ cursor \in FirstNamed(Text(Option(section, "topic")))
             /\ evt.topic_name = Text(Option(section, "topic"))
  BY <1>4, <1>5 DEF Seen, TopicSeen
<1>6. ASSUME Has(section, "topic") PROVE Sane(section)
  <2>1. FirstNamed(Text(Option(section, "topic"))) # {}
    BY <1>5, <1>6
  <2>2. Has(section, "type") => Text(Option(section, "type")) \in {"0", "1"}
    BY <1>4 DEF Seen, TypeSeen
  <2>3. Has(section, "comparator") => Text(Option(section, "comparator")) \in Comparators
    BY <1>4, Zenon DEF Seen, ComparatorSeen
  <2>4. Has(section, "recipient") => Option(section, "recipient").list
    BY <1>4, Zenon DEF Seen, RecipientsSeen
  <2> QED
    BY <1>1, <1>6, <2>1, <2>2, <2>3, <2>4, Zenon DEF Sane
<1>7. ASSUME ~Has(section, "topic") PROVE NoTopicSeen /\ ~Sane(section)
  <2>1. \A n \in 1..Len(Options) : Options[n].name # "topic"
    BY <1>1, <1>7 DEF Has
  <2>2. NoTopicSeen
    BY <1>2, <2>1, Zenon
  <2> QED
    BY <1>7, <2>2, Zenon DEF Sane
<1>8. ASSUME TypeFirst(section) PROVE Reference(evt) = Text(Option(section, "ref_value"))
  <2>1. PICK m, n \in 1..Len(Options) :
           m < n /\ Options[m].name = "type" /\ Options[n].name = "ref_value"
    BY <1>1, <1>8 DEF TypeFirst
  <2>2. Option(section, "ref_value") = Options[n]
    BY <2>1, AtOption
  <2> QED
    BY <1>2, <2>1, <2>2
<1>9. ASSUME Has(section, "recipient")
      PROVE  /\ Option(section, "recipient").list
             /\ Option(section, "recipient").value <= MAX_RECIPIENTS
                   => evt.recipient_count = Option(section, "recipient").value
  BY <1>4, <1>9, Zenon DEF Seen, RecipientsSeen
<1> QED
  BY <1>5, <1>6, <1>7, <1>8, <1>9, Zenon DEF Faithful

(* There is one first topic of a name.                                      *)
LEMMA OneFirst ==
    ASSUME Typed, NEW name, NEW k \in FirstNamed(name), NEW l \in FirstNamed(name)
    PROVE  k = l
<1>1. k \in Nat /\ l \in Nat /\ k > 0 /\ l > 0
  BY Shapes DEF FirstNamed
<1> QED
  BY <1>1 DEF FirstNamed

(* The names of the topics decide what a section means.                     *)
LEMMA NamesDecide ==
    ASSUME Typed, UNCHANGED eventFile, DOMAIN tpc' = DOMAIN tpc,
           \A k \in DOMAIN tpc : tpc'[k].name = tpc[k].name
    PROVE  /\ \A name : FirstNamed(name)' = FirstNamed(name)
           /\ \A s : Sane(s)' <=> Sane(s)
           /\ \A k : Meant(k)' = Meant(k)
           /\ \A k \in DOMAIN tpc : \A e : Attached(k, e)' <=> Attached(k, e)
<1>1. ASSUME NEW name PROVE FirstNamed(name)' = FirstNamed(name)
  <2>1. ASSUME NEW k \in DOMAIN tpc
        PROVE  (\A j \in 1..(k - 1) : tpc'[j].name # name)
                  <=> (\A j \in 1..(k - 1) : tpc[j].name # name)
    <3>1. \A j \in 1..(k - 1) : j \in DOMAIN tpc
      BY Shapes
    <3> QED
      BY <3>1
  <2>2. \A k : k \in FirstNamed(name)' <=> k \in FirstNamed(name)
    BY <2>1, Zenon DEF FirstNamed
  <2> QED
    BY <2>2, Zenon
<1>2. ASSUME NEW s PROVE Sane(s)' <=> Sane(s)
  BY <1>1, Zenon DEF Sane
<1>3. ASSUME NEW k PROVE Meant(k)' = Meant(k)
  <2>1. \A s : s \in Meant(k)' <=> s \in Meant(k)
    <3> SUFFICES ASSUME NEW s PROVE s \in Meant(k)' <=> s \in Meant(k)
      OBVIOUS
    <3>1. Sane(eventFile[s])' <=> Sane(eventFile[s])
      BY <1>1, Zenon DEF Sane
    <3>2. FirstNamed(Text(Option(eventFile[s], "topic")))'
             = FirstNamed(Text(Option(eventFile[s], "topic")))
      BY <1>1, Zenon
    <3> QED
      BY <3>1, <3>2, Zenon DEF Meant
  <2> QED
    BY <2>1, Zenon
<1>4. ASSUME NEW k \in DOMAIN tpc, NEW e PROVE Attached(k, e)' <=> Attached(k, e)
  <2>1. FirstNamed(Text(Option(SectionOf(e), "topic")))'
           = FirstNamed(Text(Option(SectionOf(e), "topic")))
    BY <1>1, Zenon DEF SectionOf
  <2>2. SectionOf(e)' = SectionOf(e) /\ tpc'[k].name = tpc[k].name
    BY Zenon DEF SectionOf
  <2> QED
    BY <2>1, <2>2, Zenon DEF Attached
<1> QED
  BY <1>1, <1>2, <1>3, <1>4

LEMMA InitKept == ConfigInit => AllKept /\ InOrder
BY DEF ConfigInit, AllKept, InOrder

LEMMA KeptStep ==
    Typed /\ Typed' /\ Stages /\ Stages' /\ Filling /\ AllKept /\ ConfigStep => AllKept'
<1> SUFFICES ASSUME Typed, Typed', Stages, Stages', Filling, AllKept, ConfigStep PROVE AllKept'
  OBVIOUS
(* The lists stay as they are, and the sections passed are passed.          *)
<1>1. ASSUME UNCHANGED <<tpc, eventFile>>, sec' \in {sec, sec + 1} PROVE AllKept'
  <2> SUFFICES ASSUME NEW k \in DOMAIN tpc, NEW n \in DOMAIN tpc[k].log
               PROVE  Kept(k, tpc[k].log[n])'
    BY <1>1 DEF AllKept
  <2> DEFINE e == tpc[k].log[n]
  <2>1. Kept(k, e) /\ e \in Logged
    BY Shapes DEF AllKept
  <2>2. e' = e
    BY <1>1
  <2>3. e.section \in Nat /\ sec \in Nat
    BY <2>1 DEF Typed, Logged
  <2> HIDE DEF e
  <2>4. e.section < sec'
    BY <1>1, <2>1, <2>3 DEF Kept
  <2>5. ASSUME NEW x PROVE /\ Attached(k, x)' <=> Attached(k, x)
                           /\ SectionOf(x)' = SectionOf(x)
                           /\ Sane(SectionOf(x))' <=> Sane(SectionOf(x))
    <3>1. /\ Attached(k, x)' <=> Attached(k, x)
          /\ \A s : Sane(s)' <=> Sane(s)
      BY <1>1, NamesDecide
    <3>2. SectionOf(x)' = SectionOf(x)
      BY <1>1, Zenon DEF SectionOf
    <3>3. Sane(SectionOf(x))' <=> Sane(SectionOf(x))
      BY <1>1, Zenon DEF Sane, SectionOf, FirstNamed
    <3> QED
      BY <3>1, <3>2, <3>3
  <2>6. ASSUME NEW x, x.section < sec', Kept(k, x) PROVE Kept(k, x)'
    BY <1>1, <2>5, <2>6, Zenon DEF Kept
  <2>7. Kept(k, tpc[k].log[n])' <=> Kept(k, e)'
    BY DEF e
  <2> QED
    BY <2>1, <2>2, <2>4, <2>6, <2>7, Zenon DEF Kept
(* There are no events yet.                                                 *)
<1>2. ASSUME cpc' \in {"topics", "topic", "events", "failed"} PROVE AllKept'
  <2>1. \A k \in DOMAIN tpc' : tpc'[k].log = <<>>
    BY <1>2 DEF Stages
  <2>2. \A k \in DOMAIN tpc' : DOMAIN tpc'[k].log = {}
    BY <2>1
  <2> QED
    BY <2>2, Zenon DEF AllKept
<1>3. CASE AddEvent \/ AddEventFails
  <2>1. /\ cpc = "option" /\ opt > Len(Options) /\ evt.topic_name # Empty
        /\ sec' = sec + 1 /\ UNCHANGED eventFile
    BY <1>3 DEF AddEvent, AddEventFails, Listed, Adding
  <2>2. /\ cursor \in DOMAIN tpc /\ DOMAIN tpc' = DOMAIN tpc
        /\ \A k \in DOMAIN tpc : tpc'[k].name = tpc[k].name
    BY <1>3, ListChanged
  <2>3. ASSUME NEW k \in DOMAIN tpc, NEW e, Kept(k, e), e.section \in Nat PROVE Kept(k, e)'
    <3>1. Attached(k, e)' <=> Attached(k, e)
      BY <2>1, <2>2, NamesDecide
    <3>2. SectionOf(e)' = SectionOf(e)
      BY <2>1, Zenon DEF SectionOf
    <3>3. Sane(SectionOf(e))' <=> Sane(SectionOf(e))
      <4>1. \A name : FirstNamed(name)' = FirstNamed(name)
        BY <2>1, <2>2, NamesDecide
      <4> QED
        BY <2>1, <4>1, Zenon DEF Sane, SectionOf
    <3>4. e.section < sec'
      BY <2>1, <2>3 DEF Kept, Typed
    <3> QED
      BY <2>1, <2>3, <3>1, <3>2, <3>3, <3>4, Zenon DEF Kept
  <2>4. ASSUME NEW k \in DOMAIN tpc, NEW e, k = cursor, e = Entry, AddEvent PROVE Kept(k, e)'
    <3>1. /\ e.evt = evt /\ e.section = sec /\ SectionOf(e) = eventFile[sec]
          /\ sec \in DOMAIN eventFile /\ sec < sec'
      BY <2>1, <2>4, AtOption DEF Entry, SectionOf, Typed
    <3>2. Sound
      BY <2>1 DEF Filling, Rejected
    <3>3. /\ Has(SectionOf(e), "topic") =>
                /\ Sane(SectionOf(e))
                /\ k \in FirstNamed(Text(Option(SectionOf(e), "topic")))
                /\ e.evt.topic_name = Text(Option(SectionOf(e), "topic"))
          /\ ~Has(SectionOf(e), "topic") => NoTopicSeen
          /\ Faithful(e.evt, SectionOf(e))
      BY <2>1, <2>4, <3>1, <3>2, EventRead, Zenon
    <3>4. Attached(k, e)
      <4>1. CASE Has(SectionOf(e), "topic")
        <5>1. tpc[k].name = Text(Option(SectionOf(e), "topic"))
          BY <3>3, <4>1, Zenon DEF FirstNamed
        <5> QED
          BY <3>3, <4>1, <5>1, Zenon DEF Attached
      <4>2. CASE ~Has(SectionOf(e), "topic")
        <5>1. k = 1
          BY <2>2, <2>4, <3>3, <4>2, Shapes DEF NoTopicSeen, FirstOf, NULL
        <5>2. \E g \in Garbage : e.evt.topic_name = g.topic_name
          BY <3>1, <3>3, <4>2 DEF NoTopicSeen
        <5> QED
          BY <4>2, <5>1, <5>2, Zenon DEF Attached
      <4> QED
        BY <4>1, <4>2
    <3>5. Attached(k, e)' /\ SectionOf(e)' = SectionOf(e)
      <4>1. Attached(k, e)' <=> Attached(k, e)
        BY <2>1, <2>2, NamesDecide
      <4> QED
        BY <2>1, <3>4, <4>1, Zenon DEF SectionOf
    <3>6. Sane(SectionOf(e))' <=> Sane(SectionOf(e))
      <4>1. \A name : FirstNamed(name)' = FirstNamed(name)
        BY <2>1, <2>2, NamesDecide
      <4> QED
        BY <2>1, <4>1, Zenon DEF Sane, SectionOf
    <3> QED
      BY <2>1, <3>1, <3>3, <3>5, <3>6, Zenon DEF Kept
  <2>5. ASSUME NEW k \in DOMAIN tpc, NEW n \in DOMAIN tpc'[k].log
        PROVE  \E e : e = tpc'[k].log[n] /\ Kept(k, e)'
    <3>1. ASSUME n \in DOMAIN tpc[k].log, tpc'[k].log[n] = tpc[k].log[n]
          PROVE  \E e : e = tpc'[k].log[n] /\ Kept(k, e)'
      <4>1. Kept(k, tpc[k].log[n]) /\ tpc[k].log[n].section \in Nat
        BY <3>1, Shapes DEF AllKept, Logged
      <4> QED
        BY <2>3, <3>1, <4>1
    <3>2. CASE k # cursor
      <4>1. tpc'[k] = tpc[k]
        BY <1>3, <3>2, ListChanged
      <4> QED
        BY <3>1, <4>1
    <3>3. CASE k = cursor /\ AddEvent
      <4>1. /\ n \in 1..(Len(tpc[cursor].log) + 1) /\ Len(tpc[cursor].log) \in Nat
            /\ DOMAIN tpc[cursor].log = 1..Len(tpc[cursor].log)
            /\ tpc'[cursor].log[Len(tpc[cursor].log) + 1] = Entry
            /\ \A l \in DOMAIN tpc[cursor].log : tpc'[cursor].log[l] = tpc[cursor].log[l]
        BY <2>2, <3>3, ListChanged, Shapes
      <4>2. CASE n \in DOMAIN tpc[cursor].log
        BY <3>1, <3>3, <4>1, <4>2
      <4>3. CASE n = Len(tpc[cursor].log) + 1
        BY <2>4, <3>3, <4>1, <4>3
      <4> QED
        BY <4>1, <4>2, <4>3
    <3>4. CASE k = cursor /\ AddEventFails
      <4>1. tpc'[k].log = tpc[k].log
        BY <1>3, <3>4, ListChanged
      <4> QED
        BY <3>1, <4>1
    <3> QED
      BY <1>3, <3>2, <3>3, <3>4
  <2>6. ASSUME NEW k \in DOMAIN tpc', NEW n \in DOMAIN tpc'[k].log PROVE Kept(k, tpc[k].log[n])'
    BY <2>2, <2>5
  <2> QED
    BY <2>6 DEF AllKept
<1>4. CASE TopicSection \/ TopicsEnd \/ LoadTopics \/ LoadTopicsFails \/ Begins
  BY <1>2, <1>4 DEF TopicSection, TopicsEnd, LoadTopics, LoadTopicsFails, Begins
<1>5. CASE \/ LoadEvents \/ LoadEventsFails \/ LoadEventsCrashes \/ EventsEnd \/ SkipSection
           \/ BeginEvent \/ SetOption \/ RecipientsCrash \/ Reject \/ Discard
           \/ AddEventRefused \/ AddEventCrashes \/ UNCHANGED configVars
  <2>1. UNCHANGED <<tpc, eventFile>> /\ sec' \in {sec, sec + 1}
    BY <1>5 DEF LoadEvents, LoadEventsFails, LoadEventsCrashes, EventsEnd, SkipSection,
                BeginEvent, SetOption, RecipientsCrash, Reject, Discard,
                AddEventRefused, AddEventCrashes, configVars
  <2> QED
    BY <1>1, <2>1
<1> QED
  BY <1>3, <1>4, <1>5, Zenon DEF ConfigStep, ConfigNext

-----------------------------------------------------------------------------
(* The order of the events, and the sections that are missing. *)

(* What a section that is meant for a topic says.                           *)
LEMMA MeantFor ==
    ASSUME NEW k, NEW s \in Meant(k)
    PROVE  /\ Sane(eventFile[s]) /\ Has(eventFile[s], "topic") /\ eventFile[s].type = "event"
           /\ k \in FirstNamed(Text(Option(eventFile[s], "topic")))
BY Zenon DEF Meant, Sane

(* When the options of a section are read without a bad one, it is meant    *)
(* for no topic but the one under the cursor; the other sections that leave  *)
(* no event are meant for none.                                             *)
LEMMA CursorMeant ==
    ASSUME Typed, Stages, Sound, cpc = "option", opt > Len(Options),
           NEW k, sec \in Meant(k)
    PROVE  k = cursor /\ evt.topic_name # Empty
<1>1. /\ Has(eventFile[sec], "topic")
      /\ k \in FirstNamed(Text(Option(eventFile[sec], "topic")))
  BY MeantFor
<1>2. /\ cursor \in FirstNamed(Text(Option(eventFile[sec], "topic")))
      /\ evt.topic_name = Text(Option(eventFile[sec], "topic"))
  BY <1>1, EventRead, Zenon
<1>3. cursor \in DOMAIN tpc /\ tpc[cursor].name = evt.topic_name
  BY <1>2 DEF FirstNamed
<1>4. tpc[cursor].name # Empty
  BY <1>3 DEF Stages
<1>5. k = cursor
  BY <1>1, <1>2, OneFirst
<1> QED
  BY <1>3, <1>4, <1>5, Zenon

LEMMA DiscardedMeant ==
    ASSUME Typed, Stages, Filling, Discard, NEW k
    PROVE  sec \notin Meant(k)
<1>1. cpc = "option" /\ opt > Len(Options) /\ evt.topic_name = Empty
  BY DEF Discard
<1>2. CASE Rejected
  BY <1>2, MeantFor DEF Rejected
<1>3. CASE Sound
  BY <1>1, <1>3, CursorMeant
<1> QED
  BY <1>1, <1>2, <1>3 DEF Filling

(* A list that refuses the event, when nothing is lost, is at its capacity. *)
LEMMA RefusedFull ==
    ASSUME Typed, Stages, AddEventRefused, dropped = 0
    PROVE  cursor \in DOMAIN tpc /\ Len(tpc[cursor].log) = Capacity
<1>1. cursor \in DOMAIN tpc /\ Full
  BY DEF AddEventRefused, Listed, Typed
<1>2. /\ Len(tpc[cursor].log) \in Nat /\ Len(tpc[cursor].log) <= Capacity
      /\ tpc[cursor].lost = 0
  BY <1>1, Shapes DEF Stages
<1> QED
  BY <1>1, <1>2, ConfigAssumption DEF Full, AtLimit, List

LEMMA OrderStep ==
    ASSUME Typed, Typed', Stages', AllKept, InOrder, ConfigStep
    PROVE  \A k \in DOMAIN tpc' : \A m, n \in DOMAIN tpc'[k].log :
              m < n => tpc'[k].log[m].section < tpc'[k].log[n].section
<1> SUFFICES ASSUME NEW k \in DOMAIN tpc', NEW m \in DOMAIN tpc'[k].log,
                    NEW n \in DOMAIN tpc'[k].log, m < n
             PROVE  tpc'[k].log[m].section < tpc'[k].log[n].section
  OBVIOUS
<1>1. ASSUME k \in DOMAIN tpc, tpc'[k].log = tpc[k].log
      PROVE  tpc'[k].log[m].section < tpc'[k].log[n].section
  BY <1>1 DEF InOrder
<1>2. CASE AddEvent
  <2>1. k \in DOMAIN tpc
    BY <1>2, ListChanged
  <2>2. CASE k # cursor
    <3>1. tpc'[k] = tpc[k]
      BY <1>2, <2>1, <2>2, ListChanged
    <3> QED
      BY <1>1, <2>1, <3>1
  <2>3. CASE k = cursor
    <3> DEFINE log == tpc[cursor].log
    <3>1. /\ m \in 1..(Len(log) + 1) /\ n \in 1..(Len(log) + 1) /\ Len(log) \in Nat
          /\ DOMAIN log = 1..Len(log) /\ tpc'[cursor].log[Len(log) + 1] = Entry
          /\ \A l \in DOMAIN log : tpc'[cursor].log[l] = log[l]
      BY <1>2, <2>1, <2>3, ListChanged, Shapes
    <3>2. m \in DOMAIN log
      BY <3>1
    <3>3. CASE n \in DOMAIN log
      BY <2>1, <2>3, <3>1, <3>2, <3>3 DEF InOrder
    <3>4. CASE n = Len(log) + 1
      <4>1. log[m].section < sec
        BY <2>1, <2>3, <3>2 DEF AllKept, Kept
      <4>2. Entry.section = sec
        BY DEF Entry
      <4> QED
        BY <2>3, <3>1, <3>2, <3>4, <4>1, <4>2
    <3> QED
      BY <3>1, <3>3, <3>4
  <2> QED
    BY <2>2, <2>3
<1>3. CASE AddEventFails
  <2>1. k \in DOMAIN tpc /\ tpc'[k].log = tpc[k].log
    BY <1>3, ListChanged
  <2> QED
    BY <1>1, <2>1
<1>4. CASE TopicSection
  <2>1. tpc'[k].log = <<>>
    BY <1>4 DEF Stages, TopicSection
  <2> QED
    BY <2>1
<1>5. CASE UNCHANGED tpc
  BY <1>1, <1>5
<1> QED
  BY <1>2, <1>3, <1>4, <1>5
     DEF ConfigStep, ConfigNext, LoadTopics, LoadTopicsFails, TopicsEnd, LoadEvents,
         LoadEventsFails, LoadEventsCrashes, EventsEnd, SkipSection, BeginEvent, SetOption,
         RecipientsCrash, Reject, Discard, AddEventRefused, AddEventCrashes, Begins, configVars

(* A section more is behind, and nothing else changed.                      *)
LEMMA PassedBy ==
    ASSUME Typed, Typed', AllKept, InOrder, UNCHANGED <<tpc, eventFile>>, dropped = 0,
           cpc \in {"event", "option", "loaded"},
           \/ sec' = sec
           \/ sec' = sec + 1 /\ \A k \in DOMAIN tpc : sec \in Meant(k) => Len(tpc[k].log) = Capacity,
           NEW k \in DOMAIN tpc, NEW s \in DOMAIN eventFile, s \in Nat, Missing(k, s)'
    PROVE  Len(tpc[k].log) = Capacity /\ \A n \in DOMAIN tpc[k].log : tpc[k].log[n].section < s
<1>1. Meant(k)' = Meant(k)
  BY NamesDecide
<1>2. /\ s \in Meant(k) /\ s < sec' /\ sec \in Nat
      /\ \A n \in DOMAIN tpc[k].log : tpc[k].log[n].section # s
  BY <1>1 DEF Missing, Typed
<1>3. CASE s < sec
  <2>1. Missing(k, s)
    BY <1>2, <1>3, Zenon DEF Missing
  <2> QED
    BY <2>1 DEF InOrder
<1>4. CASE s = sec
  <2>1. \A n \in DOMAIN tpc[k].log : tpc[k].log[n].section < sec
    BY DEF AllKept, Kept
  <2> QED
    BY <1>2, <1>4, <2>1
<1> QED
  BY <1>2, <1>3, <1>4

(* An event more in the list of its topic.                                  *)
LEMMA AddedInOrder ==
    ASSUME Typed, Typed', Stages, Filling, AllKept, InOrder, AddEvent, dropped = 0,
           NEW k \in DOMAIN tpc, NEW s \in DOMAIN eventFile, s \in Nat, Missing(k, s)'
    PROVE  Len(tpc'[k].log) = Capacity /\ \A n \in DOMAIN tpc'[k].log : tpc'[k].log[n].section < s
<1>1. /\ cpc = "option" /\ opt > Len(Options) /\ evt.topic_name # Empty /\ ~Full
      /\ sec' = sec + 1 /\ UNCHANGED eventFile
  BY DEF AddEvent, Listed, Adding
<1>2. /\ cursor \in DOMAIN tpc /\ DOMAIN tpc' = DOMAIN tpc
      /\ \A l \in DOMAIN tpc : tpc'[l].name = tpc[l].name
  <2>1. cursor \in DOMAIN tpc /\ DOMAIN tpc' = DOMAIN tpc
    BY ListChanged
  <2>2. ASSUME NEW l \in DOMAIN tpc PROVE tpc'[l].name = tpc[l].name
    BY <2>2, ListChanged
  <2> QED
    BY <2>1, <2>2
<1>3. Meant(k)' = Meant(k)
  BY <1>1, <1>2, NamesDecide
<1>4. /\ s \in Meant(k) /\ s < sec' /\ sec \in Nat
      /\ \A n \in DOMAIN tpc'[k].log : tpc'[k].log[n].section # s
  BY <1>3 DEF Missing, Typed
<1>5. CASE k # cursor
  <2>1. tpc'[k] = tpc[k]
    BY <1>5, ListChanged
  <2>2. s # sec
    <3>1. Sound
      BY <1>1 DEF Filling, Rejected
    <3> QED
      BY <1>1, <1>4, <1>5, <3>1, CursorMeant
  <2>3. Missing(k, s)
    BY <1>1, <1>4, <2>1, <2>2 DEF Missing
  <2>4. Len(tpc[k].log) = Capacity /\ \A n \in DOMAIN tpc[k].log : tpc[k].log[n].section < s
    BY <1>1, <2>3 DEF InOrder
  <2> QED
    BY <2>1, <2>4
<1>6. CASE k = cursor
  <2> DEFINE log == tpc[cursor].log
  <2>1. /\ Len(log) \in Nat /\ DOMAIN log = 1..Len(log)
        /\ tpc'[cursor].log[Len(log) + 1] = Entry /\ DOMAIN tpc'[cursor].log = 1..(Len(log) + 1)
        /\ \A l \in DOMAIN log : tpc'[cursor].log[l] = log[l]
    BY <1>2, ListChanged, Shapes
  <2>2. Entry.section = sec
    BY DEF Entry
  <2>3. s # sec
    BY <1>4, <1>6, <2>1, <2>2
  <2>4. ASSUME NEW n \in DOMAIN log PROVE log[n].section # s
    BY <1>4, <1>6, <2>1
  <2>5. s < sec
    BY <1>1, <1>4, <2>3
  <2>6. Missing(k, s)
    BY <1>4, <1>6, <2>4, <2>5 DEF Missing
  <2>7. Len(log) = Capacity
    BY <1>1, <1>6, <2>6 DEF InOrder
  <2> QED
    BY <1>1, <2>7 DEF Full, List
<1> QED
  BY <1>5, <1>6

LEMMA InOrderStep ==
    Typed /\ Typed' /\ Stages /\ Stages' /\ Filling /\ AllKept /\ InOrder /\ ConfigStep => InOrder'
<1> SUFFICES ASSUME Typed, Typed', Stages, Stages', Filling, AllKept, InOrder, ConfigStep
             PROVE  InOrder'
  OBVIOUS
<1>1. ASSUME cpc' \in {"event", "option", "loaded"}, dropped' = 0, NEW k \in DOMAIN tpc',
             NEW s \in DOMAIN eventFile', Missing(k, s)'
      PROVE  Len(tpc'[k].log) = Capacity /\ \A n \in DOMAIN tpc'[k].log : tpc'[k].log[n].section < s
  <2>1. eventFile' = eventFile /\ eventFile # Broken /\ s \in Nat /\ s > 0
    <3>1. eventFile' = eventFile
      BY DEF ConfigStep, ConfigNext, LoadTopics, LoadTopicsFails, TopicSection, TopicsEnd,
             LoadEvents, LoadEventsFails, LoadEventsCrashes, EventsEnd, SkipSection, BeginEvent,
             SetOption, RecipientsCrash, Reject, Discard, AddEvent, AddEventFails,
             AddEventRefused, AddEventCrashes, Begins, configVars
    <3>2. eventFile' # Broken
      BY <1>1 DEF Stages
    <3>3. eventFile' \in (TopicFiles \cup EventFiles) \ {Broken}
      BY <3>2 DEF Typed
    <3>4. DOMAIN eventFile' = 1..Len(eventFile') /\ Len(eventFile') \in Nat
      BY <3>3, Sections
    <3> QED
      BY <3>1, <3>2, <3>4
  <2>2. s \in DOMAIN eventFile
    BY <2>1
  <2>3. CASE /\ UNCHANGED <<tpc, sec, dropped>> /\ cpc \in {"event", "option", "loaded"}
    BY <1>1, <2>1, <2>2, <2>3, PassedBy
  <2>4. CASE LoadEvents
    <3>1. sec' = 1
      BY <2>4 DEF LoadEvents, Stages
    <3> QED
      BY <1>1, <2>1, <3>1 DEF Missing
  <2>5. CASE LoadEventsFails
    BY <1>1, <2>5 DEF LoadEventsFails, Typed
  <2>6. CASE SkipSection \/ Discard \/ AddEventRefused
    <3>1. /\ UNCHANGED <<tpc, dropped>> /\ sec' = sec + 1 /\ cpc \in {"event", "option", "loaded"}
      BY <2>6 DEF SkipSection, Discard, AddEventRefused, Listed, Adding
    <3>2. ASSUME NEW l \in DOMAIN tpc, sec \in Meant(l) PROVE Len(tpc[l].log) = Capacity
      <4>1. CASE SkipSection
        BY <3>2, <4>1, MeantFor DEF SkipSection
      <4>2. CASE Discard
        BY <3>2, <4>2, DiscardedMeant
      <4>3. CASE AddEventRefused
        <5>1. cpc = "option" /\ opt > Len(Options) /\ Sound
          BY <4>3 DEF AddEventRefused, Listed, Adding, Filling, Rejected
        <5>2. l = cursor
          BY <3>2, <5>1, CursorMeant
        <5> QED
          BY <1>1, <3>1, <4>3, <5>2, RefusedFull
      <4> QED
        BY <2>6, <4>1, <4>2, <4>3
    <3>3. /\ Len(tpc[k].log) = Capacity
          /\ \A n \in DOMAIN tpc[k].log : tpc[k].log[n].section < s
      BY <1>1, <2>1, <2>2, <3>1, <3>2, PassedBy
    <3> QED
      BY <3>1, <3>3
  <2>7. CASE AddEvent
    <3>1. dropped = 0 /\ k \in DOMAIN tpc
      BY <1>1, <2>7, ListChanged DEF AddEvent
    <3> QED
      BY <1>1, <2>1, <2>2, <2>7, <3>1, AddedInOrder
  <2>8. CASE AddEventFails
    BY <1>1, <2>8 DEF AddEventFails, Typed
  <2>9. CASE EventsEnd \/ BeginEvent \/ SetOption \/ Reject
    BY <2>3, <2>9 DEF EventsEnd, BeginEvent, SetOption, Reject
  <2>10. CASE UNCHANGED configVars
    BY <1>1, <2>3, <2>10 DEF configVars
  <2>11. CASE \/ LoadTopics \/ LoadTopicsFails \/ TopicSection \/ TopicsEnd \/ LoadEventsCrashes
              \/ RecipientsCrash \/ AddEventCrashes \/ Begins
    BY <1>1, <2>11 DEF LoadTopics, LoadTopicsFails, TopicSection, TopicsEnd, LoadEventsCrashes,
                       RecipientsCrash, AddEventCrashes, Begins
  <2> QED
    BY <2>4, <2>5, <2>6, <2>7, <2>8, <2>9, <2>10, <2>11, Zenon DEF ConfigStep, ConfigNext
<1>2. \A k \in DOMAIN tpc' : \A m, n \in DOMAIN tpc'[k].log :
         m < n => tpc'[k].log[m].section < tpc'[k].log[n].section
  BY OrderStep, Zenon
<1> QED
  BY <1>1, <1>2, Zenon DEF InOrder

-----------------------------------------------------------------------------
(* The crashes, and all of it. *)

(* An event that counts more recipients than fit, although its section      *)
(* lists some, comes from a section that lists too many.                    *)
LEMMA TooMany ==
    ASSUME Typed, eventFile # Broken, NEW s \in DOMAIN eventFile, NEW e,
           e.recipient_count > MAX_RECIPIENTS, Has(eventFile[s], "recipient"),
           Faithful(e, eventFile[s])
    PROVE  Option(eventFile[s], "recipient").value > MAX_RECIPIENTS
<1> DEFINE o == Option(eventFile[s], "recipient")
<1>1. o.list /\ (o.value <= MAX_RECIPIENTS => e.recipient_count = o.value)
  BY Zenon DEF Faithful
<1>2. PICK n \in DOMAIN eventFile[s].options :
         eventFile[s].options[n].name = "recipient" /\ o = eventFile[s].options[n]
  BY OptionFound
<1>3. eventFile \in (TopicFiles \cup EventFiles) \ {Broken}
  BY DEF Typed
<1>4. o.value \in Nat
  BY <1>1, <1>2, <1>3, FilesAssumption
<1> QED
  BY <1>1, <1>4, ConfigAssumption

(* The event that ullist_event_add_end is called for has a list, unless     *)
(* there is no topic at all and its section names none.                     *)
LEMMA NoListFor ==
    ASSUME Typed, Stages, Filling, Adding, cursor = NULL
    PROVE  tpc = <<>> /\ ~Has(eventFile[sec], "topic")
<1>1. cpc = "option" /\ opt > Len(Options) /\ Sound
  BY DEF Adding, Filling, Rejected
<1>2. ~Has(eventFile[sec], "topic")
  <2>1. NULL \notin DOMAIN tpc
    BY Shapes DEF NULL
  <2>2. ASSUME Has(eventFile[sec], "topic") PROVE cursor \in DOMAIN tpc
    BY <1>1, <2>2, EventRead, Zenon DEF FirstNamed
  <2> QED
    BY <2>1, <2>2
<1>3. cursor = FirstOf(tpc)
  BY <1>1, <1>2, EventRead, Zenon DEF NoTopicSeen
<1> QED
  BY <1>2, <1>3 DEF FirstOf, NULL

LEMMA InitCrash == ConfigInit => ConfigCrashExplained
BY DEF ConfigInit, ConfigCrashExplained

LEMMA CrashStep ==
    Typed /\ Stages /\ Filling /\ AllKept /\ ConfigCrashExplained /\ ConfigStep
        => ConfigCrashExplained'
<1> DEFINE Lists(s) == /\ Has(eventFile[s], "recipient")
                       /\ Option(eventFile[s], "recipient").value > MAX_RECIPIENTS
           Unset == /\ cursor # NULL /\ Len(List.log) = Capacity
                    /\ \E s \in {sec} \cup {e.section : e \in Events(cursor)} :
                          ~Has(eventFile[s], "recipient")
           Cause == \/ eventFile = Broken \/ (\E s \in 1..sec : Lists(s)) \/ Unset
                    \/ tpc = <<>> /\ ~Has(eventFile[sec], "topic")
                    \/ cursor # NULL /\ List.log = <<>> /\ List.lost > 0
<1> SUFFICES ASSUME Typed, Stages, Filling, AllKept, ConfigCrashExplained, ConfigStep,
                    cpc' = "crashed"
             PROVE  Cause'
  BY DEF ConfigCrashExplained
<1>1. UNCHANGED <<tpc, eventFile, sec, cursor>>
  BY DEF ConfigStep, ConfigNext, LoadTopics, LoadTopicsFails, TopicSection, TopicsEnd, LoadEvents,
         LoadEventsFails, LoadEventsCrashes, EventsEnd, SkipSection, BeginEvent, SetOption,
         RecipientsCrash, Reject, Discard, AddEvent, AddEventFails, AddEventRefused,
         AddEventCrashes, Begins, configVars
<1>2. Cause' <=> Cause
  BY <1>1 DEF List, Events
<1>3. CASE LoadEventsCrashes
  BY <1>2, <1>3 DEF LoadEventsCrashes
<1>4. CASE RecipientsCrash
  <2>1. /\ cpc = "option" /\ opt \in 1..Len(Options) /\ Opt.name = "recipient"
        /\ Opt.value > MAX_RECIPIENTS /\ Opt = Options[opt]
    BY <1>4, AtOption DEF RecipientsCrash, Opt, Typed
  <2>2. Lists(sec)
    BY <2>1, AtOption
  <2>3. sec \in 1..sec
    BY DEF Typed
  <2> QED
    BY <1>2, <2>2, <2>3
<1>5. CASE AddEventCrashes
  <2>1. Adding /\ cpc = "option" /\ opt > Len(Options) /\ Sound
    BY <1>5 DEF AddEventCrashes, Adding, Filling, Rejected
  <2>2. CASE cursor = NULL
    BY <1>2, <2>1, <2>2, NoListFor
  <2>3. CASE cursor # NULL /\ ~Listed
    <3>1. List.log = <<>> /\ List.lost # 0 /\ List.lost \in Nat
      BY <2>1, <2>3, Shapes DEF Listed, List, Typed, TopicNode
    <3> QED
      BY <1>2, <2>3, <3>1
  <2>4. CASE cursor # NULL /\ Listed
    <3>1. PICK n \in Hashed : n > MAX_RECIPIENTS /\ ~AtLimit /\ Full
      BY <1>5, <2>4 DEF AddEventCrashes
    <3>2. Len(List.log) = Capacity /\ cursor \in DOMAIN tpc
      BY <2>4, <3>1 DEF Full, Typed
    <3>3. eventFile # Broken /\ sec \in DOMAIN eventFile /\ DOMAIN eventFile = 1..Len(eventFile)
      BY <2>1, AtOption, Sections
    <3> SUFFICES ASSUME ~Unset PROVE \E s \in 1..sec : Lists(s)
      BY <1>2
    <3>4. CASE n = evt.recipient_count
      <4>1. Has(eventFile[sec], "recipient")
        BY <2>4, <3>2
      <4>2. Faithful(evt, eventFile[sec])
        BY <2>1, EventRead, Zenon
      <4>3. Lists(sec)
        BY <3>1, <3>3, <3>4, <4>1, <4>2, TooMany
      <4> QED
        BY <4>3 DEF Typed
    <3>5. ASSUME NEW j \in DOMAIN List.log, n = List.log[j].evt.recipient_count
          PROVE  \E s \in 1..sec : Lists(s)
      <4> DEFINE e == tpc[cursor].log[j]
      <4>1. Kept(cursor, e)
        BY <3>2, <3>5 DEF AllKept, List
      <4>2. /\ e.section \in DOMAIN eventFile /\ e.section < sec
            /\ Faithful(e.evt, eventFile[e.section])
        BY <4>1 DEF Kept, SectionOf
      <4>3. e \in Events(cursor)
        BY <3>5 DEF Events, List
      <4>4. Has(eventFile[e.section], "recipient")
        BY <2>4, <3>2, <4>3
      <4>5. e.evt.recipient_count > MAX_RECIPIENTS
        BY <3>1, <3>5 DEF List
      <4>6. Lists(e.section)
        BY <3>3, <4>2, <4>4, <4>5, TooMany
      <4>7. e.section \in 1..sec
        BY <3>3, <4>2 DEF Typed
      <4> QED
        BY <4>6, <4>7
    <3> QED
      BY <3>4, <3>5 DEF Hashed
  <2> QED
    BY <2>2, <2>3, <2>4
<1>6. CASE UNCHANGED configVars
  <2>1. Cause
    BY <1>6 DEF ConfigCrashExplained, configVars
  <2> QED
    BY <1>2, <2>1
<1>7. LoadEventsCrashes \/ RecipientsCrash \/ AddEventCrashes \/ UNCHANGED configVars
  BY DEF ConfigStep, ConfigNext, LoadTopics, LoadTopicsFails, TopicSection, TopicsEnd, LoadEvents,
         LoadEventsFails, EventsEnd, SkipSection, BeginEvent, SetOption, Reject, Discard,
         AddEvent, AddEventFails, AddEventRefused, Listed, Adding, Begins
<1> QED
  BY <1>3, <1>4, <1>5, <1>6, <1>7

LEMMA InitConfig == ConfigInit => ConfigInv
BY InitTyped, InitStages, InitFilling, InitKept, InitCrash DEF ConfigInv

LEMMA ConfigInvStep == ConfigInv /\ ConfigStep => ConfigInv'
<1> SUFFICES ASSUME ConfigInv, ConfigStep PROVE ConfigInv'
  OBVIOUS
<1>1. Typed /\ Stages /\ Filling /\ AllKept /\ InOrder /\ ConfigCrashExplained
  BY DEF ConfigInv
<1>2. Typed'
  BY <1>1, TypedStep
<1>3. Stages'
  BY <1>1, <1>2, StagesStep
<1>4. Filling' /\ AllKept' /\ InOrder' /\ ConfigCrashExplained'
  BY <1>1, <1>2, <1>3, FillingStep, KeptStep, InOrderStep, CrashStep
<1> QED
  BY <1>2, <1>3, <1>4 DEF ConfigInv

-----------------------------------------------------------------------------
(* What is acquired and released. *)

(* Where main is says how far the configuration is.                         *)
Stations ==
    /\ at \in {"arguments", "curl", "sqlite", "lib", "client", "connect", "alloc", "config",
               "cleanup_mosquitto", "cleanup_sqlite", "cleanup_curl", "loop", "deinit",
               "topics", "events", "ended", "crashed"}
    /\ null \in BOOLEAN
    /\ status \in {None, MAIN_SUCCESS, MAIN_FAILURE_INIT, MAIN_FAILURE_LOOP, EX_USAGE}
    /\ status # None <=> at = "ended"
    /\ at \in {"arguments", "curl", "sqlite", "lib", "client", "connect", "alloc"}
          => cpc = "idle" /\ ~null
    /\ at = "cleanup_mosquitto" => cpc = "failed"
    /\ at \in {"loop", "deinit"} => cpc = "loaded"
    /\ left \in {"open", "busy", "lost"}
    /\ left # "open" => at \in {"deinit", "topics", "events", "ended", "crashed"}

(* And it says what is held: what has been acquired on the way, and, on the *)
(* way back, what is still to be released and what a failure leaves.        *)
Clients == {"curl", "db", "lib", "client"}
Forgotten(r) == \/ r = "lib" /\ args.port = 0
                \/ r = "data" /\ cpc = "failed"
Refused == {r \in {"db"} : left = "busy"}
Holding ==
    /\ held \subseteq Resources
    /\ at \in {"arguments", "curl"} => held = {}
    /\ at = "sqlite" => held = {"curl"}
    /\ at = "lib" => held = {"curl", "db"}
    /\ at = "client" => held = {"curl", "db", "lib"}
    /\ at \in {"connect", "alloc"} => held = Clients
    /\ at = "config" => held = IF null THEN Clients ELSE Resources
    /\ at = "cleanup_mosquitto" => Clients \subseteq held
    /\ at = "cleanup_sqlite" => /\ {"curl", "db"} \subseteq held
                                /\ \A r \in held \ {"curl", "db"} : Forgotten(r)
    /\ at = "cleanup_curl" => "curl" \in held /\ \A r \in held \ {"curl"} : Forgotten(r)
    /\ at = "loop" => held = Resources
    /\ at = "deinit" => held = IF left = "lost" THEN Resources \ {"db"} ELSE Resources
    /\ at \in {"topics", "events"} => held = {"data"} \cup Refused
    /\ status \in {MAIN_FAILURE_INIT, EX_USAGE} => \A r \in held : Forgotten(r)
    /\ status = MAIN_SUCCESS => held = Refused

(* The walks of the shutdown.  The one over the topics has passed those up   *)
(* to previous: all their event nodes are freed, and the topics themselves   *)
(* but for previous.  The one over the event nodes of head has passed those *)
(* up to eprevious, which is not freed yet.                                 *)
Untouched == freed = {} /\ head = NULL /\ previous = NULL /\ ehead = NULL /\ eprevious = NULL

TopicAt(k) == <<k>>
EventAt(k, n) == <<k, n>>
Passed(j, n) == j <= previous \/ (at = "events" /\ j = head /\ n < eprevious)

Walking ==
    /\ at \notin {"topics", "events", "ended"} => Untouched
    /\ freed \subseteq AllNodes /\ ehead \in Nat /\ eprevious \in Nat
    /\ previous \in 0..Len(tpc) /\ head \in 0..Len(tpc)
    /\ at = "topics" => head = NextOf(previous, Len(tpc))
    /\ at = "events" => /\ head = previous + 1
                        /\ eprevious \in 0..EventNodes(head)
                        /\ ehead = NextOf(eprevious, EventNodes(head))
    /\ at \in {"topics", "events"} =>
          \A j \in DOMAIN tpc : /\ TopicAt(j) \in freed <=> j < previous
                                /\ \A n \in 1..EventNodes(j) : EventAt(j, n) \in freed <=> Passed(j, n)
    /\ status = MAIN_SUCCESS => freed = AllNodes

IInv == ConfigInv /\ Stations /\ Holding /\ Walking /\ ReleasedOnce

(* What each step of main is to the configuration.                          *)
LEMMA NextConfig ==
    ASSUME Stations, [Next]_vars
    PROVE  /\ ConfigStep
           /\ at \notin {"config", "alloc"} => UNCHANGED configVars
           /\ at # "config" /\ cpc = "failed" => cpc' = "failed"
<1>1. CASE Configure
  BY <1>1 DEF Configure, ConfigStep
<1>2. CASE AllocData
  BY <1>2 DEF AllocData, Acquire, Goto, Stations, ConfigStep, Begins
<1>3. ASSUME UNCHANGED configVars
      PROVE  /\ ConfigStep /\ (at \notin {"config", "alloc"} => UNCHANGED configVars)
             /\ (at # "config" /\ cpc = "failed" => cpc' = "failed")
  BY <1>3 DEF ConfigStep, configVars
<1>4. Configure \/ AllocData \/ UNCHANGED configVars
  BY DEF Next, ParseArgs, CurlInit, SqliteInit, LibInit, ClientNew, ClientFails, Connected,
         ConfigFailed, Crash, HandOver, CleanupMosquitto, CleanupSqlite, CleanupCurl, Loop,
         Deinitialize, DeinitializeCrashes, EnterEvents, EventStep, TopicStep, Finish, vars
<1> QED
  BY <1>1, <1>2, <1>3, <1>4

LEMMA InitStations == Init => Stations /\ Holding /\ ReleasedOnce
BY DEF Init, ConfigInit, Stations, Holding, Refused, ReleasedOnce, None, MAIN_SUCCESS,
       MAIN_FAILURE_INIT, MAIN_FAILURE_LOOP, EX_USAGE

LEMMA StationsStep == Stations /\ [Next]_vars => Stations'
<1> SUFFICES ASSUME Stations, [Next]_vars PROVE Stations'
  OBVIOUS
<1> USE DEF Stations, Goto, Acquire, Return, configVars, None, MAIN_SUCCESS, MAIN_FAILURE_INIT,
            MAIN_FAILURE_LOOP, EX_USAGE
<1>1. CASE ParseArgs \/ CurlInit
  BY <1>1 DEF ParseArgs, CurlInit
<1>2. CASE SqliteInit \/ LibInit
  BY <1>2 DEF SqliteInit, LibInit
<1>3. CASE ClientNew \/ ClientFails \/ Connected
  BY <1>3 DEF ClientNew, ClientFails, Connected
<1>4. CASE AllocData
  BY <1>4 DEF AllocData
<1>5. CASE Configure
  BY <1>5 DEF Configure
<1>6. CASE ConfigFailed \/ Crash \/ HandOver
  BY <1>6 DEF ConfigFailed, Crash, HandOver
<1>7. CASE CleanupMosquitto \/ CleanupSqlite \/ CleanupCurl
  BY <1>7 DEF CleanupMosquitto, CleanupSqlite, CleanupCurl
<1>8. CASE Loop \/ Deinitialize \/ DeinitializeCrashes \/ Finish
  BY <1>8 DEF Loop, Deinitialize, DeinitializeCrashes, Finish
<1>9. CASE EnterEvents \/ EventStep \/ TopicStep
  BY <1>9 DEF EnterEvents, EventStep, TopicStep
<1>10. CASE UNCHANGED vars
  BY <1>10 DEF vars
<1> QED
  BY <1>1, <1>2, <1>3, <1>4, <1>5, <1>6, <1>7, <1>8, <1>9, <1>10, Zenon DEF Next

(* Nothing that is not held is released, on any of the ways back.           *)
LEMMA HoldingStep ==
    Stations /\ Holding /\ [Next]_vars =>
       /\ Holding'
       /\ misused' = misused \/ at \in {"config", "deinit", "events", "topics"}
       /\ at = "deinit" => misused' = misused \/ (left = "lost" /\ misused' = misused \cup {"db"})
       /\ at # "loop" => left' = left
<1> SUFFICES ASSUME Stations, Holding, [Next]_vars
             PROVE  /\ Holding'
                    /\ misused' = misused \/ at \in {"config", "deinit", "events", "topics"}
                    /\ at = "deinit" => \/ misused' = misused
                                        \/ left = "lost" /\ misused' = misused \cup {"db"}
                    /\ at # "loop" => left' = left
  BY Zenon
<1> USE DEF Holding, Forgotten, Refused, Resources, Clients, Goto, Acquire, Return, Release,
            configVars, None, MAIN_SUCCESS, MAIN_FAILURE_INIT, MAIN_FAILURE_LOOP, EX_USAGE
<1>1. CASE ParseArgs
  BY <1>1 DEF ParseArgs, Stations
<1>2. CASE CurlInit \/ SqliteInit
  <2>1. CASE at' \in {"sqlite", "lib"}
    <3>1. /\ at' = "sqlite" => held' = {"curl"}
          /\ at' = "lib" => held' = {"curl", "db"}
          /\ misused' = misused /\ status' = None /\ left' = left /\ at \in {"curl", "sqlite"}
      BY <1>2, <2>1 DEF CurlInit, SqliteInit, Stations
    <3> QED
      BY <2>1, <3>1
  <2>2. CASE at' \notin {"sqlite", "lib"}
    <3>1. /\ misused' = misused /\ left' = left /\ held' = held /\ args' = args /\ cpc' = cpc
          /\ \/ at = "curl" /\ at' = "ended" /\ status' = MAIN_FAILURE_INIT
             \/ at = "sqlite" /\ at' = "cleanup_curl" /\ status' = status
      BY <1>2, <2>2 DEF CurlInit, SqliteInit
    <3> QED
      BY <3>1 DEF Stations
  <2> QED
    BY <2>1, <2>2
<1>3. CASE LibInit
  BY <1>3 DEF LibInit, Stations
<1>4. CASE ClientNew \/ ClientFails \/ Connected
  BY <1>4 DEF ClientNew, ClientFails, Connected, Stations
<1>5. CASE AllocData
  <2>1. /\ at' = "config" /\ misused' = misused /\ status' = None
        /\ left' = left /\ at = "alloc"
        /\ held' = IF null' THEN Clients ELSE Resources
    BY <1>5 DEF AllocData, Stations
  <2> QED
    BY <2>1
<1>6. CASE Configure
  BY <1>6 DEF Configure, Stations
<1>7. CASE ConfigFailed
  BY <1>7 DEF ConfigFailed, Stations
<1>8. CASE Crash \/ HandOver
  BY <1>8 DEF Crash, HandOver, Stations
<1>9. CASE CleanupMosquitto
  BY <1>9 DEF CleanupMosquitto, Stations
<1>10. CASE CleanupSqlite
  BY <1>10 DEF CleanupSqlite, Stations
<1>11. CASE CleanupCurl
  BY <1>11 DEF CleanupCurl, Stations
<1>12. CASE Loop \/ Deinitialize \/ DeinitializeCrashes
  BY <1>12 DEF Loop, Deinitialize, DeinitializeCrashes, Released, Stations
<1>13. CASE EnterEvents \/ EventStep \/ TopicStep \/ Finish
  BY <1>13 DEF EnterEvents, EventStep, TopicStep, Finish, Stations
<1>14. CASE UNCHANGED vars
  BY <1>14 DEF vars
<1> QED
  BY <1>1, <1>2, <1>3, <1>4, <1>5, <1>6, <1>7, <1>8, <1>9, <1>10, <1>11, <1>12, <1>13, <1>14,
     Zenon DEF Next

(* The nodes of the lists.                                                  *)
LEMMA Nodes ==
    ASSUME Typed
    PROVE  /\ \A k \in DOMAIN tpc : /\ EventNodes(k) \in Nat /\ TopicAt(k) \in AllNodes
                                    /\ \A n \in 1..EventNodes(k) : EventAt(k, n) \in AllNodes
           /\ \A x \in AllNodes : \E k \in DOMAIN tpc :
                 x = TopicAt(k) \/ \E n \in 1..EventNodes(k) : x = EventAt(k, n)
<1>1. ASSUME NEW k \in DOMAIN tpc PROVE EventNodes(k) \in Nat
  <2>1. Len(tpc[k].log) \in Nat
    BY Shapes
  <2>2. \A a \in Nat, b \in Nat \ {0} : (a + b - 1) \div b \in Nat
    OBVIOUS
  <2> QED
    BY <2>1, <2>2, StartupAssumption DEF EventNodes
<1>2. /\ \A k \in DOMAIN tpc : TopicAt(k) \in AllNodes /\ \A n \in 1..EventNodes(k) : EventAt(k, n) \in AllNodes
      /\ \A x \in AllNodes : \E k \in DOMAIN tpc :
            x = TopicAt(k) \/ \E n \in 1..EventNodes(k) : x = EventAt(k, n)
  BY DEF AllNodes, TopicAt, EventAt
<1> QED
  BY <1>1, <1>2

LEMMA DifferentNodes ==
    /\ \A j, k : TopicAt(j) = TopicAt(k) => j = k
    /\ \A j, k, m, n : EventAt(j, m) = EventAt(k, n) => j = k /\ m = n
    /\ \A j, k, n : TopicAt(j) # EventAt(k, n)
BY DEF TopicAt, EventAt

(* The nodes that a walk frees when it leaves the one before, if any.       *)
LEMMA FreedEvent ==
    ASSUME NEW k, NEW e \in Nat, NEW x
    PROVE  x \in NodesAt(k, {e}) <=> e # 0 /\ x = EventAt(k, e)
BY DEF NodesAt, EventAt, NULL

LEMMA FreedTopic ==
    ASSUME NEW e \in Nat, NEW x
    PROVE  x \in TopicsAt({e}) <=> e # 0 /\ x = TopicAt(e)
BY DEF TopicsAt, TopicAt, NULL

(* Where the walks are.                                                     *)
LEMMA AtTopics ==
    ASSUME Typed, Walking, at = "topics"
    PROVE  /\ previous \in 0..Len(tpc) /\ DOMAIN tpc = 1..Len(tpc) /\ Len(tpc) \in Nat
           /\ head # 0 => head = previous + 1 /\ head \in DOMAIN tpc
           /\ head = 0 => previous = Len(tpc)
           /\ \A j \in DOMAIN tpc : TopicAt(j) \in freed <=> j < previous
           /\ \A j \in DOMAIN tpc : \A n \in 1..EventNodes(j) : EventAt(j, n) \in freed <=> j <= previous
<1>1. Len(tpc) \in Nat /\ DOMAIN tpc = 1..Len(tpc)
  BY Shapes
<1>2. previous \in 0..Len(tpc)
  BY DEF Walking
<1>3. /\ \A j \in DOMAIN tpc : TopicAt(j) \in freed <=> j < previous
      /\ \A j \in DOMAIN tpc : \A n \in 1..EventNodes(j) : EventAt(j, n) \in freed <=> j <= previous
  BY DEF Walking, Passed
<1>4. /\ head # 0 => head = previous + 1 /\ head \in DOMAIN tpc
      /\ head = 0 => previous = Len(tpc)
  <2>1. CASE previous < Len(tpc)
    <3>1. head = previous + 1
      BY <2>1, Zenon DEF Walking, NextOf
    <3>2. previous + 1 \in DOMAIN tpc /\ previous + 1 # 0
      BY <1>1, <1>2, <2>1
    <3> QED
      BY <3>1, <3>2, Zenon
  <2>2. CASE ~(previous < Len(tpc))
    <3>1. head = 0
      BY <2>2, Zenon DEF Walking, NextOf, NULL
    <3>2. \A m, n \in Nat : m \in 0..n /\ ~(m < n) => m = n
      OBVIOUS
    <3>3. previous \in Nat /\ Len(tpc) \in Nat
      BY <1>1, <1>2
    <3> QED
      BY <1>2, <2>2, <3>1, <3>2, <3>3, Zenon
  <2> QED
    BY <2>1, <2>2
<1> QED
  BY <1>1, <1>2, <1>3, <1>4, Zenon

LEMMA AtEvents ==
    ASSUME Typed, Walking, at = "events"
    PROVE  /\ previous \in Nat /\ head = previous + 1 /\ head \in DOMAIN tpc
           /\ Len(tpc) \in Nat /\ DOMAIN tpc = 1..Len(tpc)
           /\ EventNodes(head) \in Nat /\ eprevious \in Nat
           /\ ehead # 0 => ehead = eprevious + 1 /\ eprevious < EventNodes(head)
           /\ ehead = 0 => eprevious = EventNodes(head)
           /\ \A j \in DOMAIN tpc : TopicAt(j) \in freed <=> j < previous
           /\ \A j \in DOMAIN tpc : \A n \in 1..EventNodes(j) :
                 EventAt(j, n) \in freed <=> j <= previous \/ (j = head /\ n < eprevious)
<1>1. Len(tpc) \in Nat /\ DOMAIN tpc = 1..Len(tpc)
  BY Shapes
<1>2. /\ previous \in 0..Len(tpc) /\ head \in 0..Len(tpc) /\ head = previous + 1
      /\ eprevious \in 0..EventNodes(head) /\ ehead = NextOf(eprevious, EventNodes(head))
  BY DEF Walking
<1>3. /\ \A j \in DOMAIN tpc : TopicAt(j) \in freed <=> j < previous
      /\ \A j \in DOMAIN tpc : \A n \in 1..EventNodes(j) :
            EventAt(j, n) \in freed <=> j <= previous \/ (j = head /\ n < eprevious)
  BY DEF Walking, Passed
<1>4. head \in DOMAIN tpc /\ previous \in Nat
  BY <1>1, <1>2
<1>5. EventNodes(head) \in Nat /\ eprevious \in Nat
  <2>1. EventNodes(head) \in Nat
    BY <1>4, Nodes
  <2> QED
    BY <1>2, <2>1
<1>6. /\ ehead # 0 => ehead = eprevious + 1 /\ eprevious < EventNodes(head)
      /\ ehead = 0 => eprevious = EventNodes(head)
  BY <1>2, <1>5 DEF NextOf, NULL
<1> QED
  BY <1>1, <1>2, <1>3, <1>4, <1>5, <1>6, Zenon

LEMMA InitWalking == Init => Walking
<1> SUFFICES ASSUME Init PROVE Walking
  OBVIOUS
<1>1. Untouched /\ Len(tpc) = 0 /\ status = None /\ at = "arguments"
  BY DEF Init, ConfigInit, Untouched
<1> QED
  BY <1>1 DEF Walking, Untouched, NULL, None, MAIN_SUCCESS

LEMMA WalkingStep ==
    Typed /\ Typed' /\ Stations /\ Stations' /\ Walking /\ [Next]_vars =>
       Walking' /\ (at \in {"events", "topics"} => misused' = misused)
<1> SUFFICES ASSUME Typed, Typed', Stations, Stations', Walking, [Next]_vars
             PROVE  Walking' /\ (at \in {"events", "topics"} => misused' = misused)
  OBVIOUS
<1>1. /\ Len(tpc) \in Nat /\ DOMAIN tpc = 1..Len(tpc)
      /\ \A k \in DOMAIN tpc : EventNodes(k) \in Nat
      /\ previous \in 0..Len(tpc) /\ head \in 0..Len(tpc) /\ ehead \in Nat /\ eprevious \in Nat
      /\ freed \subseteq AllNodes
  BY Shapes, Nodes DEF Walking
<1>2. at # "ended" /\ UNCHANGED status => status' # MAIN_SUCCESS
  BY DEF Stations, None, MAIN_SUCCESS
<1>3. ASSUME UNCHANGED <<tpc, head>>
      PROVE  /\ \A k : EventNodes(k)' = EventNodes(k)
             /\ EventNodes(head)' = EventNodes(head) /\ AllNodes' = AllNodes
  BY <1>3 DEF EventNodes, AllNodes
<1>4. ASSUME UNCHANGED tpc
      PROVE  (\A k : EventNodes(k)' = EventNodes(k)) /\ AllNodes' = AllNodes
  BY <1>4 DEF EventNodes, AllNodes
<1>5. CASE UNCHANGED vars
  BY <1>3, <1>5 DEF vars, walkVars, configVars, Walking, Untouched, Passed
<1>6. CASE \/ ParseArgs \/ CurlInit \/ SqliteInit \/ LibInit \/ ClientNew \/ ClientFails
           \/ Connected \/ AllocData \/ Configure \/ ConfigFailed \/ Crash \/ HandOver
           \/ CleanupMosquitto \/ CleanupSqlite \/ CleanupCurl \/ Loop
           \/ DeinitializeCrashes
  <2>1. /\ UNCHANGED walkVars /\ at \notin {"topics", "events", "ended"}
        /\ at' \notin {"topics", "events"}
        /\ status' \in {status, MAIN_FAILURE_INIT, MAIN_FAILURE_LOOP, EX_USAGE}
    BY <1>6 DEF ParseArgs, CurlInit, SqliteInit, LibInit, ClientNew, ClientFails, Connected,
                AllocData, Configure, ConfigFailed, Crash, HandOver, CleanupMosquitto,
                CleanupSqlite, CleanupCurl, Loop, DeinitializeCrashes, Goto, Acquire, Return
  <2>2. status' # MAIN_SUCCESS
    BY <2>1 DEF Stations, None, MAIN_SUCCESS, MAIN_FAILURE_INIT, MAIN_FAILURE_LOOP, EX_USAGE
  <2>3. Untouched /\ Untouched'
    BY <2>1 DEF Walking, Untouched, walkVars
  <2>4. Len(tpc') \in Nat
    BY DEF Typed
  <2> QED
    BY <2>1, <2>2, <2>3, <2>4 DEF Walking, Untouched, NULL
<1>7. CASE Deinitialize
  <2>1. /\ at' = "topics" /\ previous' = 0 /\ head' = NextOf(0, Len(tpc)) /\ freed' = {}
        /\ UNCHANGED <<tpc, ehead, eprevious, status>> /\ at = "deinit"
    <3>1. FirstOf(tpc) = NextOf(0, Len(tpc))
      BY <1>1 DEF FirstOf, NextOf, Typed
    <3> QED
      BY <1>7, <3>1 DEF Deinitialize, Goto, Walking, Untouched, configVars, NULL
  <2>2. status' # MAIN_SUCCESS
    BY <1>2, <2>1
  <2>3. head' \in 0..Len(tpc)
    BY <1>1, <2>1 DEF NextOf, NULL
  <2> QED
    BY <1>1, <1>4, <2>1, <2>2, <2>3 DEF Walking, Passed
<1>8. CASE EnterEvents
  <2>1. /\ at = "topics" /\ at' = "events" /\ head # 0 /\ eprevious' = 0
        /\ ehead' = IF EventNodes(head) = 0 THEN 0 ELSE 1
        /\ UNCHANGED <<tpc, freed, head, previous, status, misused>>
    BY <1>8 DEF EnterEvents, Goto, configVars, NULL
  <2>2. head = previous + 1 /\ head \in DOMAIN tpc
    BY <2>1, AtTopics
  <2>3. ehead' \in Nat /\ ehead' = NextOf(0, EventNodes(head)) /\ EventNodes(head) \in Nat
    BY <1>1, <2>1, <2>2 DEF NextOf, NULL
  <2>4. status' # MAIN_SUCCESS
    BY <1>2, <2>1
  <2> QED
    BY <1>1, <1>3, <2>1, <2>2, <2>3, <2>4 DEF Walking, Passed
<1>9. CASE EventStep
  <2>1. /\ at = "events" /\ at' = "events" /\ ehead # 0
        /\ freed' = freed \cup NodesAt(head, {eprevious})
        /\ misused' = misused \cup {"list node" : x \in NodesAt(head, {eprevious, ehead}) \cap freed}
        /\ eprevious' = ehead /\ ehead' = NextOf(ehead, EventNodes(head))
        /\ UNCHANGED <<tpc, head, previous, status>>
    BY <1>9 DEF EventStep, configVars, NULL, Free, Misuse
  <2>2. /\ head = previous + 1 /\ head \in DOMAIN tpc /\ EventNodes(head) \in Nat
        /\ previous \in Nat
        /\ eprevious \in Nat /\ eprevious < EventNodes(head) /\ ehead = eprevious + 1
    BY <2>1, AtEvents, Zenon
  <2>3. /\ \A j \in DOMAIN tpc : TopicAt(j) \in freed <=> j < previous
        /\ \A j \in DOMAIN tpc : \A n \in 1..EventNodes(j) :
              EventAt(j, n) \in freed <=> j <= previous \/ (j = head /\ n < eprevious)
    BY <2>1, AtEvents, Zenon
  <2>4. NodesAt(head, {eprevious, ehead}) \cap freed = {}
    <3>1. ASSUME NEW n \in {eprevious, ehead} \ {0} PROVE EventAt(head, n) \notin freed
      <4>1. n \in 1..EventNodes(head) /\ ~(head <= previous) /\ ~(n < eprevious)
        BY <2>2
      <4> QED
        BY <2>2, <2>3, <4>1
    <3> QED
      BY <3>1, Zenon DEF NodesAt, EventAt, NULL
  <2>5. misused' = misused
    BY <2>1, <2>4
  <2>6. \A x : x \in NodesAt(head, {eprevious}) <=> eprevious # 0 /\ x = EventAt(head, eprevious)
    BY <2>2, FreedEvent, Zenon
  <2>7. \A x : x \in freed' <=> x \in freed \/ (eprevious # 0 /\ x = EventAt(head, eprevious))
    BY <2>1, <2>6, Zenon
  <2>8. freed' \subseteq AllNodes
    <3>1. eprevious # 0 => EventAt(head, eprevious) \in AllNodes
      BY <2>2, Nodes
    <3> QED
      BY <1>1, <2>1, <2>6, <3>1
  <2>9. ASSUME NEW j \in DOMAIN tpc
        PROVE  /\ TopicAt(j) \in freed' <=> j < previous
               /\ \A n \in 1..EventNodes(j) :
                     EventAt(j, n) \in freed' <=> j <= previous \/ (j = head /\ n < ehead)
    <3>1. TopicAt(j) \in freed' <=> TopicAt(j) \in freed
      BY <2>7, DifferentNodes
    <3>2. ASSUME NEW n \in 1..EventNodes(j)
          PROVE  EventAt(j, n) \in freed' <=> j <= previous \/ (j = head /\ n < ehead)
      <4>1. EventAt(j, n) \in freed' <=> EventAt(j, n) \in freed \/ (j = head /\ n = eprevious)
        <5>1. eprevious = 0 => n # eprevious
          BY <1>1
        <5> QED
          BY <2>7, <5>1, DifferentNodes
      <4> QED
        BY <1>1, <2>2, <2>3, <4>1
    <3> QED
      BY <2>3, <3>1, <3>2, Zenon
  <2>10. ehead' \in Nat /\ ehead \in 0..EventNodes(head) /\ status' # MAIN_SUCCESS
    <3>1. status' # MAIN_SUCCESS
      BY <1>2, <2>1
    <3>2. ehead \in 0..EventNodes(head) /\ NextOf(ehead, EventNodes(head)) \in Nat
      BY <2>2 DEF NextOf, NULL
    <3> QED
      BY <2>1, <3>1, <3>2, Zenon
  <2> QED
    BY <1>1, <1>3, <2>1, <2>2, <2>5, <2>8, <2>9, <2>10 DEF Walking, Passed
<1>10. CASE TopicStep
  <2>1. /\ at = "events" /\ at' = "topics" /\ ehead = 0
        /\ freed' = freed \cup (TopicsAt({previous}) \cup NodesAt(head, {eprevious}))
        /\ misused' = misused \cup
              {"list node" : x \in (TopicsAt({head, previous}) \cup NodesAt(head, {eprevious})) \cap freed}
        /\ previous' = head /\ head' = NextOf(head, Len(tpc))
        /\ UNCHANGED <<tpc, ehead, eprevious, status>>
    BY <1>10 DEF TopicStep, configVars, NULL, Free, Misuse
  <2>2. /\ head = previous + 1 /\ head \in DOMAIN tpc /\ EventNodes(head) \in Nat
        /\ previous \in Nat /\ eprevious = EventNodes(head)
    BY <2>1, AtEvents, Zenon
  <2>3. /\ \A j \in DOMAIN tpc : TopicAt(j) \in freed <=> j < previous
        /\ \A j \in DOMAIN tpc : \A n \in 1..EventNodes(j) :
              EventAt(j, n) \in freed <=> j <= previous \/ (j = head /\ n < eprevious)
    BY <2>1, AtEvents, Zenon
  <2>4. /\ \A x : x \in NodesAt(head, {eprevious}) <=> eprevious # 0 /\ x = EventAt(head, eprevious)
        /\ \A x : x \in TopicsAt({previous}) <=> previous # 0 /\ x = TopicAt(previous)
    <3>1. eprevious \in Nat
      BY <2>2
    <3> QED
      BY <2>2, <3>1, FreedEvent, FreedTopic, Zenon
  <2>5. ASSUME NEW x
         PROVE  x \in freed'
                   <=> \/ x \in freed
                       \/ eprevious # 0 /\ x = EventAt(head, eprevious)
                       \/ previous # 0 /\ x = TopicAt(previous)
    <3>1. x \in freed' <=> \/ x \in freed
                           \/ x \in TopicsAt({previous}) \/ x \in NodesAt(head, {eprevious})
      BY <2>1, Zenon
    <3> QED
      BY <2>4, <3>1, Zenon
  <2>6. (TopicsAt({head, previous}) \cup NodesAt(head, {eprevious})) \cap freed = {}
    <3>1. ASSUME NEW j \in {head, previous} \ {0} PROVE TopicAt(j) \notin freed
      <4>1. j \in DOMAIN tpc /\ ~(j < previous)
        BY <1>1, <2>2
      <4> QED
        BY <2>3, <4>1
    <3>2. TopicsAt({head, previous}) \cap freed = {}
      BY <3>1, Zenon DEF TopicsAt, TopicAt, NULL
    <3>3. eprevious # 0 => EventAt(head, eprevious) \notin freed
      <4>1. eprevious # 0 => eprevious \in 1..EventNodes(head) /\ ~(head <= previous)
        BY <2>2
      <4> QED
        BY <2>2, <2>3, <4>1
    <3> QED
      BY <2>4, <3>2, <3>3
  <2>7. misused' = misused
    BY <2>1, <2>6
  <2>8. freed' \subseteq AllNodes
    <3>1. eprevious # 0 => EventAt(head, eprevious) \in AllNodes
      BY <2>2, Nodes
    <3>2. previous # 0 => TopicAt(previous) \in AllNodes
      BY <1>1, Nodes
    <3> QED
      BY <1>1, <2>1, <2>4, <3>1, <3>2
  <2>9. ASSUME NEW j \in DOMAIN tpc
        PROVE  /\ TopicAt(j) \in freed' <=> j < head
               /\ \A n \in 1..EventNodes(j) : EventAt(j, n) \in freed' <=> j <= head
    <3>1. TopicAt(j) \in freed' <=> j < head
      <4>1. TopicAt(j) \in freed' <=> TopicAt(j) \in freed \/ j = previous
        <5>1. previous = 0 => j # previous
          BY <1>1
        <5> QED
          BY <2>5, <5>1, DifferentNodes
      <4> QED
        BY <1>1, <2>2, <2>3, <4>1
    <3>2. ASSUME NEW n \in 1..EventNodes(j) PROVE EventAt(j, n) \in freed' <=> j <= head
      <4>1. EventAt(j, n) \in freed' <=> EventAt(j, n) \in freed \/ (j = head /\ n = eprevious)
        <5>1. eprevious = 0 => n # eprevious
          BY <1>1
        <5> QED
          BY <2>5, <5>1, DifferentNodes
      <4> QED
        BY <1>1, <2>2, <2>3, <4>1
    <3> QED
      BY <3>1, <3>2
  <2>10. head' \in 0..Len(tpc) /\ status' # MAIN_SUCCESS
    <3>1. status' # MAIN_SUCCESS
      BY <1>2, <2>1
    <3>2. NextOf(head, Len(tpc)) \in 0..Len(tpc)
      BY <1>1 DEF NextOf, NULL
    <3> QED
      BY <2>1, <3>1, <3>2, Zenon
  <2> QED
    BY <1>1, <1>4, <2>1, <2>2, <2>7, <2>8, <2>9, <2>10 DEF Walking, Passed
<1>11. CASE Finish
  <2>1. /\ at = "topics" /\ at' = "ended" /\ head = 0
        /\ freed' = freed \cup TopicsAt({previous})
        /\ misused' = misused \cup {"list node" : x \in TopicsAt({previous}) \cap freed}
        /\ UNCHANGED <<tpc, head, previous, ehead, eprevious>>
    BY <1>11 DEF Finish, Return, configVars, NULL, Free, Misuse
  <2>2. /\ previous = Len(tpc) /\ \A j \in DOMAIN tpc : TopicAt(j) \in freed <=> j < previous
        /\ \A j \in DOMAIN tpc : \A n \in 1..EventNodes(j) : EventAt(j, n) \in freed <=> j <= previous
    BY <2>1, AtTopics, Zenon
  <2>3. \A x : x \in TopicsAt({previous}) <=> previous # 0 /\ x = TopicAt(previous)
    <3>1. previous \in Nat
      BY <1>1
    <3> QED
      BY <3>1, FreedTopic, Zenon
  <2>4. TopicsAt({previous}) \cap freed = {}
    <3>1. previous # 0 => previous \in DOMAIN tpc /\ ~(previous < previous)
      BY <1>1
    <3>2. previous # 0 => TopicAt(previous) \notin freed
      BY <2>2, <3>1, Zenon
    <3> QED
      BY <2>3, <3>2, Zenon
  <2>5. misused' = misused
    BY <2>1, <2>4
  <2>6. freed' = AllNodes
    <3>1. previous # 0 => TopicAt(previous) \in AllNodes
      BY <1>1, Nodes
    <3>2. ASSUME NEW x \in AllNodes PROVE x \in freed'
      <4>1. PICK k \in DOMAIN tpc : x = TopicAt(k) \/ \E n \in 1..EventNodes(k) : x = EventAt(k, n)
        BY Nodes
      <4>2. k <= previous /\ (k < previous \/ k = previous) /\ previous # 0
        BY <1>1, <2>2
      <4>3. TopicAt(k) \in freed'
        BY <2>1, <2>2, <2>3, <4>2
      <4>4. ASSUME NEW n \in 1..EventNodes(k) PROVE EventAt(k, n) \in freed'
        BY <2>1, <2>2, <4>2
      <4> QED
        BY <4>1, <4>3, <4>4
    <3> QED
      BY <1>1, <2>1, <2>3, <3>1, <3>2
  <2> QED
    BY <1>1, <1>4, <2>1, <2>5, <2>6 DEF Walking
<1> QED
  BY <1>5, <1>6, <1>7, <1>8, <1>9, <1>10, <1>11, Zenon DEF Next

-----------------------------------------------------------------------------
(* The theorems. *)

(* The invariant of all of it is kept by every step of main, from its first *)
(* line to its last.                                                        *)
THEOREM Invariance == Spec => []IInv
<1>1. Init => IInv
  <2>1. Init => ConfigInv
    BY InitConfig DEF Init
  <2> QED
    BY <2>1, InitStations, InitWalking DEF IInv
<1>2. IInv /\ [Next]_vars => IInv'
  <2> SUFFICES ASSUME IInv, [Next]_vars PROVE IInv'
    OBVIOUS
  <2>1. ConfigInv /\ Stations /\ Holding /\ Walking /\ ReleasedOnce
    BY DEF IInv
  <2>2. /\ ConfigStep /\ (at \notin {"config", "alloc"} => UNCHANGED configVars)
        /\ (at # "config" /\ cpc = "failed" => cpc' = "failed")
    BY <2>1, NextConfig
  <2>3. ConfigInv' /\ Stations' /\ Holding'
    BY <2>1, <2>2, ConfigInvStep, StationsStep, HoldingStep
  <2>4. Typed /\ Typed'
    BY <2>1, <2>3 DEF ConfigInv
  <2>5. Walking' /\ (at \in {"events", "topics"} => misused' = misused)
    BY <2>1, <2>3, <2>4, WalkingStep
  <2>6. ReleasedOnce'
    <3>1. CASE at # "config"
      <4>1. CASE at = "loop"
        BY <2>1, <2>2, <4>1, HoldingStep DEF ReleasedOnce, Stations
      <4>2. CASE at = "deinit"
        BY <2>1, <2>2, <4>2, HoldingStep DEF ReleasedOnce, Stations
      <4>3. CASE at \notin {"loop", "deinit"}
        BY <2>1, <2>2, <2>5, <3>1, <4>3, HoldingStep DEF ReleasedOnce
      <4> QED
        BY <4>1, <4>2, <4>3
    <3>2. CASE at = "config" /\ ConfigFailed
      BY <2>1, <3>2 DEF ConfigFailed, ReleasedOnce, Stations, configVars
    <3>3. CASE at = "config" /\ ~ConfigFailed
      <4>1. Configure \/ Crash \/ HandOver \/ UNCHANGED vars
        BY <3>3 DEF Next, ParseArgs, CurlInit, SqliteInit, LibInit, ClientNew, ClientFails,
           Connected, AllocData, CleanupMosquitto, CleanupSqlite, CleanupCurl, Loop,
           Deinitialize, DeinitializeCrashes, EnterEvents, EventStep, TopicStep, Finish, Goto,
           Acquire
      <4>2. cpc = "failed" => ~Configure
        BY DEF Configure, ConfigNext, LoadTopics, LoadTopicsFails, TopicSection, TopicsEnd,
           LoadEvents, LoadEventsFails, LoadEventsCrashes, EventsEnd, SkipSection, BeginEvent,
           SetOption, RecipientsCrash, Reject, Discard, AddEvent, AddEventFails,
           AddEventRefused, AddEventCrashes, Listed, Adding
      <4>3. misused' = misused /\ left' = left /\ (cpc = "failed" => cpc' = "failed")
        BY <4>1, <4>2 DEF Configure, Crash, HandOver, vars, configVars
      <4> QED
        BY <2>1, <4>3 DEF ReleasedOnce
    <3> QED
      BY <3>1, <3>2, <3>3
  <2> QED
    BY <2>3, <2>5, <2>6 DEF IInv
<1> QED
  BY <1>1, <1>2, PTL DEF Spec

(* The type invariant.                                                      *)
THEOREM TypeCorrect == Spec => []TypeOK
<1>1. IInv => TypeOK
  <2> SUFFICES ASSUME IInv PROVE TypeOK
    OBVIOUS
  <2>1. Typed /\ Stations /\ Holding /\ Walking /\ ReleasedOnce
    BY DEF IInv, ConfigInv
  <2>2. head \in {NULL} \cup DOMAIN tpc /\ previous \in {NULL} \cup DOMAIN tpc
    <3>1. Len(tpc) \in Nat /\ DOMAIN tpc = 1..Len(tpc)
      BY <2>1, Shapes
    <3> QED
      BY <2>1, <3>1 DEF Walking, NULL
  <2>3. misused \subseteq Resources \cup {"list node", "main's data"}
    BY <2>1 DEF ReleasedOnce, Resources
  <2> QED
    BY <2>1, <2>2, <2>3 DEF TypeOK, Typed, Stations, Holding, Walking
<1> QED
  BY <1>1, Invariance, PTL

(* Whatever the files say, every topic that was loaded can be subscribed,   *)
(* and every event is in the list of the first topic that its section names,*)
(* under that name; or, when it names none, in the first list.              *)
THEOREM EventsAttached == Spec => []AttachedByName
<1>1. IInv => AttachedByName
  <2> SUFFICES ASSUME IInv, NEW k \in DOMAIN tpc
               PROVE  /\ tpc[k].name # Empty /\ tpc[k].qos \in 0..2
                      /\ \A e \in Events(k) : Attached(k, e)
    BY Zenon DEF AttachedByName, Attached
  <2>1. Typed /\ Stages /\ AllKept
    BY DEF IInv, ConfigInv
  <2>2. tpc[k].name # Empty /\ tpc[k].qos \in 0..2
    BY <2>1, Shapes DEF Stages, TopicNode
  <2>3. \A e \in Events(k) : Attached(k, e)
    BY <2>1 DEF Events, AllKept, Kept
  <2> QED
    BY <2>2, <2>3
<1> QED
  BY <1>1, Invariance, PTL

(* What an event is compared with is the ref_value of its section, if the   *)
(* type comes first, and its recipients are counted as they are listed, if   *)
(* they are and fit: whatever the memory of the event held before.          *)
THEOREM ReadAsWritten == Spec => []ReadBack
<1>1. IInv => ReadBack
  <2> SUFFICES ASSUME IInv, NEW k \in DOMAIN tpc, NEW e \in Events(k)
               PROVE  LET s == SectionOf(e)
                      IN  /\ TypeFirst(s) => Reference(e.evt) = Text(Option(s, "ref_value"))
                          /\ Has(s, "recipient") /\ Option(s, "recipient").value <= MAX_RECIPIENTS
                                => e.evt.recipient_count = Option(s, "recipient").value
    BY Zenon DEF ReadBack
  <2>1. Faithful(e.evt, SectionOf(e))
    BY DEF IInv, ConfigInv, Events, AllKept, Kept
  <2> QED
    BY <2>1, Zenon DEF Faithful
<1> QED
  BY <1>1, Invariance, PTL

(* When memory does not run out, the list of a topic holds the first        *)
(* sections that are meant for it, in their order, up to its capacity,      *)
(* whatever bad sections stand between them.                                *)
THEOREM AllLoaded == Spec => []LoadedAsMeant
<1>1. IInv => LoadedAsMeant
  <2> SUFFICES ASSUME IInv, cpc = "loaded", dropped = 0, NEW k \in DOMAIN tpc
               PROVE  LET got == {e.section : e \in Events(k)}
                          order == tpc[k].log
                      IN  /\ \A m, n \in DOMAIN order :
                                m < n => order[m].section < order[n].section
                          /\ got \subseteq Meant(k) \cup {s \in DOMAIN eventFile :
                                                          k = 1 /\ ~Has(eventFile[s], "topic")}
                          /\ \A s \in Meant(k) \ got : /\ Len(order) = Capacity
                                                       /\ \A g \in got : g < s
    BY Zenon DEF LoadedAsMeant
  <2> DEFINE got == {e.section : e \in Events(k)}
             order == tpc[k].log
  <2>1. Typed /\ Stages /\ AllKept /\ InOrder
    BY DEF IInv, ConfigInv
  <2>2. \A m, n \in DOMAIN order : m < n => order[m].section < order[n].section
    BY <2>1, Zenon DEF InOrder
  <2>3. ASSUME NEW e \in Events(k)
        PROVE  \/ e.section \in Meant(k)
               \/ e.section \in DOMAIN eventFile /\ k = 1 /\ ~Has(eventFile[e.section], "topic")
    <3>1. Kept(k, e)
      BY <2>1 DEF Events, AllKept
    <3> QED
      BY <3>1, Zenon DEF Kept, Attached, SectionOf, Meant
  <2>4. ASSUME NEW s \in Meant(k), s \notin got
        PROVE  Len(order) = Capacity /\ \A g \in got : g < s
    <3>1. s \in DOMAIN eventFile
      BY Zenon DEF Meant
    <3>2. s < sec
      <4>1. eventFile \in (TopicFiles \cup EventFiles) \ {Broken} /\ sec > Len(eventFile)
        BY <2>1 DEF Typed, Stages
      <4> QED
        BY <2>1, <3>1, <4>1, Sections DEF Typed
    <3>3. \A n \in DOMAIN order : order[n].section # s
      BY <2>4 DEF Events
    <3>4. Missing(k, s)
      BY <3>2, <3>3, Zenon DEF Missing
    <3>5. Len(order) = Capacity /\ \A n \in DOMAIN order : order[n].section < s
      BY <2>1, <3>1, <3>4 DEF InOrder
    <3> QED
      BY <3>5 DEF Events
  <2> QED
    BY <2>2, <2>3, <2>4
<1> QED
  BY <1>1, Invariance, PTL

(* No files and no garbage on the stack crash the loading but for the causes *)
(* that ConfigCrashExplained lists.                                         *)
THEOREM CrashCause == Spec => []ConfigCrashExplained
BY Invariance, PTL DEF IInv, ConfigInv

(* No path through the startup and its cleanup labels, and no step of the   *)
(* walks of the shutdown, releases or reads what is not held.               *)
THEOREM NothingTwice == Spec => []ReleasedOnce
BY Invariance, PTL DEF IInv

(* A startup that fails gives back all but what Forgotten says; a program   *)
(* that ends well has freed each node of each list, however many there are, *)
(* and given back everything but a connection that sqlite3_close refused;   *)
(* and the loop starts with all of it in place.                             *)
THEOREM AllReleased == Spec => []ReleasesAll
<1>1. IInv => ReleasesAll
  <2> SUFFICES ASSUME IInv PROVE ReleasesAll
    OBVIOUS
  <2>1. Holding /\ Walking
    BY DEF IInv
  <2>2. status \in {MAIN_FAILURE_INIT, EX_USAGE} =>
           \A r \in held : \/ (r = "lib" /\ args.port = 0)
                           \/ (r = "data" /\ cpc = "failed")
    BY <2>1 DEF Holding, Forgotten
  <2>3. /\ at = "loop" => held = Resources /\ freed = {}
        /\ status = MAIN_SUCCESS => /\ freed = AllNodes
                                    /\ held = {r \in {"db"} : left = "busy"}
    BY <2>1 DEF Holding, Refused, Walking, Untouched
  <2> QED
    BY <2>2, <2>3 DEF ReleasesAll
<1> QED
  BY <1>1, Invariance, PTL
=============================================================================
