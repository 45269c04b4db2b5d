------------------------------ MODULE MCAlerts ------------------------------
(* Alerts for TLC: the topics and events of the sample configuration        *)
(* (files/mqtt_subscriber_events.config) and one more list for the other    *)
(* comparators, the message of commands.txt and its variants.               *)
EXTENDS Alerts

CONSTANTS a1, a2      \* names of mail accounts

Num(comp, ref, sender, n) == [type |-> "numeric", param |-> "temp", comp |-> comp,
                              ref |-> ref, sender |-> sender, recipient_count |-> n]
Text(comp, ref) == [type |-> "alphanumeric", param |-> "temp", comp |-> comp,
                    ref |-> ref, sender |-> a1, recipient_count |-> 1]

SampleList == << [name |-> "dadada", events |-> <<>>],
                 [name |-> "tv", events |-> << <<Num("<", 20, a1, 1), Num("==", 20, a1, 2),
                                                 Num("!=", 20, a1, 1), Text("!=", "high")>>,
                                               <<Text("==", "medium")>> >>] >>
OtherList == << [name |-> "tv", events |-> << <<Num(">", 20, a2, 1), Num("=>", 20, a1, 0),
                                                Num("<=", 20, a2, 1), Num(">=", 21, a1, 1)>>,
                                              <<Num("=<", 19, a1, 1)>> >>],
                [name |-> "tv", events |-> << <<Text("<", "medium")>> >>] >>
MCTopicLists == {SampleList, OtherList}

Temp(type, value) == [name |-> "temp", type |-> type, value |-> value]
MCMessages ==
    { [topic |-> "tv", data |-> <<Temp("number", 20), [Temp("number", 60) EXCEPT !.name = "humidity"]>>],
      [topic |-> "tv", data |-> <<Temp("number", 19), Temp("number", 21)>>],
      [topic |-> "tv", data |-> <<Temp("string", "medium"), Temp("bool", "true")>>],
      [topic |-> "tv", data |-> <<[Temp("number", 20) EXCEPT !.name = NoName]>>],
      [topic |-> "dadada", data |-> <<[Temp("number", 20) EXCEPT !.name = NoName]>>],
      [topic |-> "tv", data |-> NoData] }

Email(name, port) == [type |-> "email", name |-> name, port |-> port]
Groups == << Email(a1, NoPort), [Email(a1, 25) EXCEPT !.type = "group"], Email(a1, 465), Email(a2, 0) >>
Twice == << Email(a1, 465), Email("", 465), Email(a1, 587) >>
MCFiles == {Groups, Twice, Broken}
MCFile == {Groups}

=============================================================================
