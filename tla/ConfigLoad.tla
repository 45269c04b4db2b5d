----------------------------- MODULE ConfigLoad -----------------------------
(***************************************************************************)
(* utils_get_data (uci_utils.c): the topics of mqtt_subscriber_topics, then *)
(* the events of mqtt_subscriber_events, each attached to the topic that   *)
(* its section names.  An event is built up option by option in a struct    *)
(* event that nothing initialises.                                         *)
(*                                                                         *)
(* A file is the sequence of its sections, [type, options]; UCI keeps one   *)
(* option of a name in a section, in the order of the file.  An option is   *)
(* [name, list, value], where list says that it is a UCI list.  The event   *)
(* list of a topic is the log that EventList implements.                    *)
(***************************************************************************)
EXTENDS Integers, Sequences

CONSTANTS TopicFiles, EventFiles,   \* what the two files may hold: sections, or Broken
          Broken,                   \* a file that uci_load does not load
          Garbage,                  \* the contents a struct event may start with
          Numerals,                 \* the number that a text begins with, for those that do
          Junk,                     \* the text read where a list is taken for a string
          Overrun,                  \* a recipient_count written over by a recipient
          MAX_RECIPIENTS, MAX_EVENTS,
          Capacity                  \* of a topic's list: MAX_EVENTS_NODE + 1

ASSUME ConfigAssumption == /\ MAX_RECIPIENTS \in Nat
                           /\ MAX_EVENTS \in Nat /\ MAX_EVENTS >= Capacity
                           /\ Capacity \in Nat /\ Capacity >= 2
                           /\ Overrun \in Int

Empty == ""               \* the text of no characters

IsList(s) == /\ Len(s) \in Nat
             /\ s = [k \in 1..Len(s) |-> s[k]]

(* What uci_load makes of a file: sections in a row, each with its options   *)
(* in a row and at most one of a name; and the fields of a struct event.    *)
ASSUME FilesAssumption ==
    /\ \A f \in (TopicFiles \cup EventFiles) \ {Broken} :
          /\ IsList(f)
          /\ \A s \in DOMAIN f :
                /\ IsList(f[s].options)
                /\ \A m, n \in DOMAIN f[s].options :
                      f[s].options[m].name = f[s].options[n].name => m = n
                /\ \A n \in DOMAIN f[s].options :
                      f[s].options[n].list /\ f[s].options[n].name = "recipient"
                          => f[s].options[n].value \in Nat
    /\ \A g \in Garbage :
          /\ g = [topic_name |-> g.topic_name, type |-> g.type, param |-> g.param,
                  comp_sym |-> g.comp_sym, ref_num |-> g.ref_num, ref_string |-> g.ref_string,
                  sender |-> g.sender, recipient_count |-> g.recipient_count]
          /\ g.recipient_count \in Int

VARIABLES topicFile, eventFile,     \* the two files
          tpc,                      \* topics_list: [name, qos, log, lost]
          cpc,                      \* where utils_get_data is
          sec, opt,                 \* cursors of the sections and of the options
          cursor,                   \* tpc of the section: a position in topics_list, or NULL
          evt,                      \* the struct event being filled
          dropped                   \* topics and events that no memory was found for (observed)

configVars == <<topicFile, eventFile, tpc, cpc, sec, opt, cursor, evt, dropped>>

NULL == 0

ConfigInit == /\ topicFile \in TopicFiles /\ eventFile \in EventFiles
              /\ tpc = <<>> /\ cpc = "idle"
              /\ sec = 1 /\ opt = 1 /\ cursor = NULL
              /\ evt \in Garbage
              /\ dropped = 0

-----------------------------------------------------------------------------
(* The topics. *)

atoi(text) == IF text \in DOMAIN Numerals THEN Numerals[text] ELSE 0

Text(o) == IF o.list THEN Junk ELSE o.value
Has(section, name) == \E k \in DOMAIN section.options : section.options[k].name = name
Option(section, name) ==
    section.options[CHOOSE k \in DOMAIN section.options : section.options[k].name = name]

ValidTopic(section) ==
    /\ section.type = "topic"
    /\ Has(section, "name") /\ Text(Option(section, "name")) # Empty
    /\ Has(section, "qos") /\ atoi(Text(Option(section, "qos"))) \in 0..2

create_node(section) ==
    [name |-> Text(Option(section, "name")),
     qos |-> IF Has(section, "qos") THEN atoi(Text(Option(section, "qos"))) ELSE 0,
     log |-> <<>>, lost |-> 0]

LoadTopics == /\ cpc = "topics"
              /\ topicFile # Broken
              /\ cpc' = "topic"
              /\ UNCHANGED <<topicFile, eventFile, tpc, sec, opt, cursor, evt, dropped>>

(* A file that does not load, or no memory for a context. *)
LoadTopicsFails == /\ cpc = "topics"
                   /\ cpc' = "failed"
                   /\ UNCHANGED <<topicFile, eventFile, tpc, sec, opt, cursor, evt, dropped>>

llist_add_end(t) == Append(tpc, t)

TopicSection == /\ cpc = "topic" /\ sec <= Len(topicFile)
                /\ LET section == topicFile[sec]
                   IN  \/ /\ ValidTopic(section)
                          /\ tpc' = llist_add_end(create_node(section))
                          /\ UNCHANGED dropped
                       \/ /\ ValidTopic(section)            \* malloc fails
                          /\ dropped' = dropped + 1
                          /\ UNCHANGED tpc
                       \/ ~ValidTopic(section) /\ UNCHANGED <<tpc, dropped>>
                /\ sec' = sec + 1
                /\ UNCHANGED <<topicFile, eventFile, cpc, opt, cursor, evt>>

TopicsEnd == /\ cpc = "topic" /\ sec > Len(topicFile)
             /\ cpc' = "events" /\ sec' = 1
             /\ UNCHANGED <<topicFile, eventFile, tpc, opt, cursor, evt, dropped>>

-----------------------------------------------------------------------------
(* The events. *)

LoadEvents == /\ cpc = "events"
              /\ eventFile # Broken
              /\ cpc' = "event"
              /\ UNCHANGED <<topicFile, eventFile, tpc, sec, opt, cursor, evt, dropped>>

(* No memory for a context: utils_get_events returns 1, which nobody reads. *)
(* A file that does not load returns UCI_ERR_NOTFOUND, which is not tested: *)
(* the sections are read from a package pointer nobody set, which may still *)
(* point to the topics, none of them an event.                              *)
LoadEventsFails == /\ cpc = "events"
                   /\ cpc' = "loaded"
                   /\ dropped' = dropped + 1
                   /\ UNCHANGED <<topicFile, eventFile, tpc, sec, opt, cursor, evt>>

LoadEventsCrashes == /\ cpc = "events" /\ eventFile = Broken
                     /\ cpc' = "crashed"
                     /\ UNCHANGED <<topicFile, eventFile, tpc, sec, opt, cursor, evt, dropped>>

EventsEnd == /\ cpc = "event" /\ sec > Len(eventFile)
             /\ cpc' = "loaded"
             /\ UNCHANGED <<topicFile, eventFile, tpc, sec, opt, cursor, evt, dropped>>

SkipSection == /\ cpc = "event" /\ sec <= Len(eventFile) /\ eventFile[sec].type # "event"
               /\ sec' = sec + 1
               /\ UNCHANGED <<topicFile, eventFile, tpc, cpc, opt, cursor, evt, dropped>>

FirstOf(list) == IF list = <<>> THEN NULL ELSE 1

(* Mutant: the cursor of the last section goes on. *)
BeginEventGoesOn == /\ cpc = "event" /\ sec <= Len(eventFile) /\ eventFile[sec].type = "event"
                    /\ cpc' = "option" /\ opt' = 1
                    /\ evt' \in Garbage
                    /\ cursor' = IF cursor = NULL THEN FirstOf(tpc) ELSE cursor
                    /\ UNCHANGED <<topicFile, eventFile, tpc, sec, dropped>>

BeginEvent == /\ cpc = "event" /\ sec <= Len(eventFile) /\ eventFile[sec].type = "event"
              /\ cpc' = "option" /\ opt' = 1
              /\ evt' \in Garbage
              /\ cursor' = FirstOf(tpc)
              /\ UNCHANGED <<topicFile, eventFile, tpc, sec, dropped>>

Options == eventFile[sec].options
Opt == Options[opt]

find_topic(from, name) ==
    IF from = NULL \/ \A k \in from..Len(tpc) : tpc[k].name # name THEN NULL
    ELSE CHOOSE k \in from..Len(tpc) :
            tpc[k].name = name /\ \A j \in from..(k - 1) : tpc[j].name # name

Comparators == {"<", ">", "==", "!=", "=<", "<=", "=>", ">="}

(* create_event_from_section_helper: the ways an option sends the section   *)
(* back.                                                                    *)
BadOption(o) == \/ o.name = "topic" /\ find_topic(cursor, Text(o)) = NULL
                \/ o.name = "type" /\ Text(o) \notin {"0", "1"}
                \/ o.name = "comparator" /\ Text(o) \notin Comparators
                \/ o.name = "recipient" /\ ~o.list

(* ref_value goes where the type seen so far says, or the garbage in it. *)
IsText == evt.type = "1"

(* Mutant: into the text whatever the type. *)
SetRefText(o) == [evt EXCEPT !.ref_string = Text(o)]

SetRef(o) == IF IsText THEN [evt EXCEPT !.ref_string = Text(o)]
                       ELSE [evt EXCEPT !.ref_num = Text(o)]

(* The recipients' array is followed by recipient_count: one recipient too  *)
(* many overwrites it, and the next one goes wherever that count says.      *)
SetRecipients(o) ==
    [evt EXCEPT !.recipient_count = IF o.value <= MAX_RECIPIENTS THEN o.value ELSE Overrun]

Filled(o) == CASE o.name = "topic" -> [evt EXCEPT !.topic_name = Text(o)]
               [] o.name = "type" -> [evt EXCEPT !.type = Text(o)]
               [] o.name = "param" -> [evt EXCEPT !.param = Text(o)]
               [] o.name = "comparator" -> [evt EXCEPT !.comp_sym = Text(o)]
               [] o.name = "ref_value" -> SetRef(o)
               [] o.name = "sender" -> [evt EXCEPT !.sender = Text(o)]
               [] o.name = "recipient" -> SetRecipients(o)
               [] OTHER -> evt

SetOption == /\ cpc = "option" /\ opt <= Len(Options)
             /\ ~BadOption(Opt)
             /\ evt' = Filled(Opt)
             /\ cursor' = IF Opt.name = "topic" THEN find_topic(cursor, Text(Opt)) ELSE cursor
             /\ opt' = opt + 1
             /\ UNCHANGED <<topicFile, eventFile, tpc, cpc, sec, dropped>>

RecipientsCrash == /\ cpc = "option" /\ opt <= Len(Options)
                   /\ Opt.name = "recipient" /\ Opt.list /\ Opt.value > MAX_RECIPIENTS
                   /\ cpc' = "crashed"
                   /\ UNCHANGED <<topicFile, eventFile, tpc, sec, opt, cursor, evt, dropped>>

(* Mutant: a bad option is skipped, and the event goes on. *)
RejectOptionOnly == /\ cpc = "option" /\ opt <= Len(Options)
                    /\ BadOption(Opt)
                    /\ opt' = opt + 1
                    /\ UNCHANGED <<topicFile, eventFile, tpc, cpc, sec, cursor, evt, dropped>>

(* Mutant: the name is left as it is. *)
RejectKeepsName == /\ cpc = "option" /\ opt <= Len(Options)
                   /\ BadOption(Opt)
                   /\ cursor' = IF Opt.name = "topic" THEN NULL ELSE cursor
                   /\ opt' = Len(Options) + 1
                   /\ UNCHANGED <<topicFile, eventFile, tpc, cpc, sec, evt, dropped>>

Reject == /\ cpc = "option" /\ opt <= Len(Options)
          /\ BadOption(Opt)
          /\ evt' = [evt EXCEPT !.topic_name = Empty]
          /\ cursor' = IF Opt.name = "topic" THEN NULL ELSE cursor
          /\ opt' = Len(Options) + 1
          /\ UNCHANGED <<topicFile, eventFile, tpc, cpc, sec, dropped>>

Discard == /\ cpc = "option" /\ opt > Len(Options)
           /\ evt.topic_name = Empty
           /\ cpc' = "event" /\ sec' = sec + 1
           /\ UNCHANGED <<topicFile, eventFile, tpc, opt, cursor, evt, dropped>>

-----------------------------------------------------------------------------
(* ullist_event_add_end, as EventList and BoundedLog have it. *)

List == tpc[cursor]
Adding == cpc = "option" /\ opt > Len(Options) /\ evt.topic_name # Empty
Listed == Adding /\ cursor # NULL /\ (List.log # <<>> \/ List.lost = 0)
AtLimit == Len(List.log) + List.lost >= MAX_EVENTS
Full == AtLimit \/ Len(List.log) = Capacity
Entry == [evt |-> evt, section |-> sec]

AddEvent == /\ Listed /\ ~Full
            /\ tpc' = [tpc EXCEPT ![cursor].log = Append(@, Entry)]
            /\ cpc' = "event" /\ sec' = sec + 1
            /\ UNCHANGED <<topicFile, eventFile, opt, cursor, evt, dropped>>

(* A node is allocated for the first event and for the one that fills the   *)
(* list.                                                                    *)
AddEventFails == /\ Listed /\ ~Full /\ Len(List.log) \in {0, Capacity - 1}
                 /\ tpc' = [tpc EXCEPT ![cursor].lost = @ + 1]
                 /\ dropped' = dropped + 1
                 /\ cpc' = "event" /\ sec' = sec + 1
                 /\ UNCHANGED <<topicFile, eventFile, opt, cursor, evt>>

AddEventRefused == /\ Listed /\ Full
                   /\ cpc' = "event" /\ sec' = sec + 1
                   /\ UNCHANGED <<topicFile, eventFile, tpc, opt, cursor, evt, dropped>>

(* The hashes are taken over the recipients that recipient_count says. *)
Hashed == {evt.recipient_count} \cup {List.log[k].evt.recipient_count : k \in DOMAIN List.log}

AddEventCrashes == /\ Adding
                   /\ \/ ~Listed
                      \/ Listed /\ ~AtLimit /\ Full /\ (\E n \in Hashed : n > MAX_RECIPIENTS)
                   /\ cpc' = "crashed"
                   /\ UNCHANGED <<topicFile, eventFile, tpc, sec, opt, cursor, evt, dropped>>

ConfigNext == \/ LoadTopics \/ LoadTopicsFails \/ TopicSection \/ TopicsEnd
              \/ LoadEvents \/ LoadEventsFails \/ LoadEventsCrashes \/ EventsEnd \/ SkipSection
              \/ BeginEvent \/ SetOption \/ RecipientsCrash \/ Reject \/ Discard
              \/ AddEvent \/ AddEventFails \/ AddEventRefused \/ AddEventCrashes

-----------------------------------------------------------------------------
(* Properties *)

Events(k) == {tpc[k].log[n] : n \in DOMAIN tpc[k].log}
SectionOf(entry) == eventFile[entry.section]
FirstNamed(name) == {k \in DOMAIN tpc : /\ tpc[k].name = name
                                        /\ \A j \in 1..(k - 1) : tpc[j].name # name}

(* A topic can be subscribed: it has a name and a QoS that MQTT knows.  An  *)
(* event is in the list of the first topic that its section names; one      *)
(* whose section names none gets into the first list of all, under a name   *)
(* that was on the stack.                                                   *)
AttachedByName ==
    \A k \in DOMAIN tpc :
        /\ tpc[k].name # Empty /\ tpc[k].qos \in 0..2
        /\ \A e \in Events(k) :
              IF Has(SectionOf(e), "topic")
              THEN k \in FirstNamed(Text(Option(SectionOf(e), "topic")))
                   /\ e.evt.topic_name = tpc[k].name
              ELSE k = 1 /\ \E g \in Garbage : e.evt.topic_name = g.topic_name

TypeFirst(section) ==
    \E m, n \in DOMAIN section.options :
        m < n /\ section.options[m].name = "type" /\ section.options[n].name = "ref_value"
Reference(e) == IF e.type = "1" THEN e.ref_string ELSE e.ref_num

(* send_event compares with the ref_value of the section, in the field that *)
(* the section's type selects, whenever the type comes first; and no event   *)
(* counts more recipients than its section lists and its array holds, if    *)
(* the section lists any.                                                   *)
ReadBack ==
    \A k \in DOMAIN tpc : \A e \in Events(k) :
        LET s == SectionOf(e)
        IN  /\ TypeFirst(s) => Reference(e.evt) = Text(Option(s, "ref_value"))
            /\ Has(s, "recipient") /\ Option(s, "recipient").value <= MAX_RECIPIENTS
                  => e.evt.recipient_count = Option(s, "recipient").value

Sane(section) ==
    /\ section.type = "event" /\ Has(section, "topic")
    /\ FirstNamed(Text(Option(section, "topic"))) # {}
    /\ Has(section, "type") => Text(Option(section, "type")) \in {"0", "1"}
    /\ Has(section, "comparator") => Text(Option(section, "comparator")) \in Comparators
    /\ Has(section, "recipient") => Option(section, "recipient").list

Meant(k) == {s \in DOMAIN eventFile :
                Sane(eventFile[s]) /\ k \in FirstNamed(Text(Option(eventFile[s], "topic")))}

(* When memory does not run out, a topic holds the first Capacity of the     *)
(* sections that name it and have no bad option, in the order of the file,   *)
(* and no others; only the first topic may also hold sections that name     *)
(* none.                                                                    *)
LoadedAsMeant ==
    cpc = "loaded" /\ dropped = 0 =>
        \A k \in DOMAIN tpc :
            LET got == {e.section : e \in Events(k)}
                order == tpc[k].log
            IN  /\ \A m, n \in DOMAIN order : m < n => order[m].section < order[n].section
                /\ got \subseteq Meant(k) \cup {s \in DOMAIN eventFile :
                                                k = 1 /\ ~Has(eventFile[s], "topic")}
                /\ \A s \in Meant(k) \ got : /\ Len(order) = Capacity
                                             /\ \A g \in got : g < s

(* The configuration crashes the daemon only through an events file that    *)
(* did not load, too many recipients in a section, a recipient_count that   *)
(* was never set, a section without a topic when there is no topic at all,  *)
(* or a topic whose first event found no memory.                            *)
ConfigCrashExplained ==
    cpc = "crashed" =>
        \/ eventFile = Broken
        \/ \E s \in 1..sec : /\ Has(eventFile[s], "recipient")
                            /\ Option(eventFile[s], "recipient").value > MAX_RECIPIENTS
        \/ /\ cursor # NULL /\ Len(List.log) = Capacity
           /\ \E s \in {sec} \cup {e.section : e \in Events(cursor)} : ~Has(eventFile[s], "recipient")
        \/ tpc = <<>> /\ ~Has(eventFile[sec], "topic")
        \/ cursor # NULL /\ List.log = <<>> /\ List.lost > 0
=============================================================================
