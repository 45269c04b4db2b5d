----------------------------- MODULE MCStartup ------------------------------
(* Startup for TLC: files with every kind of mistake the loaders look for,  *)
(* or do not.                                                               *)
EXTENDS Startup, TLC

O(name, value) == [name |-> name, list |-> FALSE, value |-> value]
Recipients(n) == [name |-> "recipient", list |-> TRUE, value |-> n]

Topic(name, qos) == [type |-> "topic", options |-> <<O("name", name), O("qos", qos)>>]
MCNumerals == [t \in {"0", "1", "2", "2x"} |-> CASE t = "0" -> 0 [] t = "1" -> 1 [] OTHER -> 2]
              @@ [t \in {"3", "-1"} |-> IF t = "3" THEN 3 ELSE -1]
MCTopicFiles ==
    { << Topic("a", "0"), [type |-> "note", options |-> <<>>], Topic("b", "2x") >>,
      << Topic("a", "1"), Topic("b", "3"), Topic("c", "-1"), Topic("b", "x"), Topic("a", "2") >>,
      << [type |-> "topic", options |-> <<O("name", "a")>>], Topic("", "1") >>,
      Broken }

Event(options) == [type |-> "event", options |-> options]
Plain(topic) == Event(<<O("topic", topic), O("type", "0"), O("comparator", "<"),
                        O("ref_value", "20"), Recipients(1)>>)
Late(topic) == Event(<<O("ref_value", "20"), O("type", "1"), Recipients(2), O("topic", topic)>>)
Texts(topic) == Event(<<O("type", "1"), O("topic", topic), O("ref_value", "high"), Recipients(0),
                        O("comment", "none")>>)
Single(topic) == Event(<<O("topic", topic), [Recipients(1) EXCEPT !.list = FALSE]>>)
Bad(topic, name, value) == Event(<<O("topic", topic), O(name, value), Recipients(1)>>)
Unnamed == Event(<<O("type", "0"), O("ref_value", "7"), Recipients(1)>>)
NoRecipients(topic) == Event(<<O("topic", topic), O("type", "0"), O("ref_value", "20")>>)

MCEventFiles ==
    { << Plain("b"), Late("a"), Unnamed, Texts("a"), Plain("c") >>,
      << Bad("b", "type", "2"), Plain("b"), Bad("a", "comparator", "<<"), Single("a"), Texts("b"),
         [type |-> "note", options |-> <<>>] >>,
      << Plain("a"), Texts("a"), Plain("a"), Late("a"), Plain("a"), Plain("a") >>,
      << Plain("a"), NoRecipients("a"), Plain("a"), Plain("b"), Plain("a"), Plain("a"), Plain("a") >>,
      << Event(<<O("topic", "a"), Recipients(11)>>), Plain("a") >>,
      Broken }

Zeroed == [topic_name |-> "", type |-> "0", param |-> "", comp_sym |-> "", ref_num |-> "",
           ref_string |-> "", sender |-> "", recipient_count |-> 0]
Stale == [Zeroed EXCEPT !.topic_name = "left", !.type = "1", !.ref_num = "left",
                        !.ref_string = "left", !.recipient_count = Overrun]
MCGarbage == {Zeroed, Stale}

MCCommandLines == {[count |-> 5, port |-> 1883], [count |-> 5, port |-> 0], [count |-> 4, port |-> 1883]}
=============================================================================
