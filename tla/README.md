# mqtt_subscriber in TLA+

Specifications of the MQTT subscriber daemon in `src/src`: a process that
subscribes to the topics of an OpenWrt configuration, stores every message in
SQLite and mails an alert when a member of the message's `data` satisfies an
event of its topic. The modules are checked with TLC on small instances. Every
safety property of the passing runs is also proved with TLAPS for every value
of the constants, and so are both refinements; only liveness is left to TLC.

## The system

| component | code | state | operations |
|---|---|---|---|
| daemon process | `main.c`, `main_utils.c` 169-246, 278-292, 359-371 | globals `running`, `connected`; `struct data_pass_cb`; the MQTT client, the database handle | `main_loop`, `main_deinitialize_program`, `on_connect`, `on_message`, `sig_handler` |
| event list of a topic | `task_utils.c` 34-43, 191-245 | `events` (unrolled list), `event_count` | `ullist_event_add_end` |
| messages and alerts | `main_utils.c` 248-357, `task_utils.c` 247-321, `uci_utils.c` 3-129, `curl_utils.c` | cursors of the walks, the accounts just read | `add_msg_sqlite`, `confirm_data`, `send_event`, `compare_*`, `find_*`, `send_mail` |
| configuration loading | `uci_utils.c` 131-275 | the topic list being built, the `struct event` on the stack | `utils_get_topics`, `utils_get_events`, `create_event_from_section` |
| startup and shutdown | `main.c`, `main_utils.c` 11-167, 202-219, 373-396 | what has been acquired | `main`, `main_initialize_program` and its cleanup labels, `main_deinitialize_program` |
| lists | `task_utils.c` 45-145 | heap nodes | `llist_add_*`, `*_remove_all` |
| event hash | `task_utils.c` 147-189 | none | `event_hash` |
| JSON | `cJSON.c` (vendored) | a tree of items, the parse buffer | `cJSON_Parse`, `cJSON_GetObjectItemCaseSensitive`, `cJSON_ArrayForEach`, `cJSON_Delete` |

Interaction. The main thread fills in `struct data_pass_cb`, starts
libmosquitto's thread and polls `running` once a second. That thread runs the
callbacks, one at a time; they read the topic list and the database handle and
write `running` and `connected`. SIGINT and SIGTERM run `sig_handler` on either
thread, in the middle of anything. At the end the main thread cancels and joins
the other thread, then releases everything.

What is hard: the two threads and the handlers share flags without locks and
the C library's syslog lock without knowing it; the cancellation hits a
callback at any blocking call; the configuration file `user_groups` is read
again in the middle of each message; nearly every library call can fail, and
some failures are answered by closing or freeing something that is still
referred to. `PROJECT.json` lists the hazards with their lines.

## Modules

**`Daemon`** models the running process from the successful return of
`main_initialize_program` to the end of the process. `main` and `net` are the
program counters of the two threads (`net = "loop"` is libmosquitto's own
loop, the other values are points of `on_connect` and `on_message`); `running`,
`connected`, `tpc` are the variables of the code; `elapsed` stands for
`time(NULL) - start_time`, and moves on between any two steps of `main_loop`
(`Tick`), which reads `connected` (`Check`) before the time (`CheckTime`); `link` and `subs` are the MQTT session, which is
clean, so a lost link forgets the subscriptions; `live`, `db`, `stmt` are what
has not been released; `handler[t]` is the stack of `sig_handler` frames on
thread t. A `log_event` call is two steps, taking the syslog lock (`LogEnter`)
and the step that leaves the log point and gives it back, because that lock is
where a handler can meet the code it interrupted. One action is one uninterrupted piece of the
code between two such points. libmosquitto, the broker, the kernel's signals
and POSIX cancellation are external and modelled by what they may do:
connections break and come back, the loop may return an error (`ThreadEnds`),
CONNACKs accept or refuse, a cancelled thread ends at any cancellation point.
Whether `syslog` is one depends on the C library (`libc`, chosen once for a
behaviour): glibc's is, musl's, OpenWrt's, holds cancellation off while it writes.
`mosquitto_subscribe`
is one where it reaches the socket, but returns at once for a name it rejects.

**`EventList`** models `ullist_event_add_end`: the unrolled list is a sequence
of nodes, a node the sequence of its events, and each way through the function
is an action. An event stands for its hash. `failed` and `offered` are observed
only. **`BoundedLog`** is what the list amounts to for its callers: a log that
takes entries until it is full, and that may lose one for want of memory; a lost
entry counts as one (`lost`), so that a log that lost enough takes no more.
`ImplementsBoundedLog` maps the concatenated nodes to the log; its capacity is
`MAX_EVENTS_NODE + 1`, because `find_duplicate` answers 1 as soon as there is
any hash to compare.

**`Alerts`** models `on_message` in full, one message after another: the row in
the database, the search for the topic, the loop over the members of `data`,
the reading of `user_groups` for each of them, the walk over the nodes and
slots of the topic's events, the comparison and the mail. `Edit` changes
`user_groups` between any two steps, `Cancelled` ends the thread in the middle.
The reading (`LoadAccounts` to `SectionsEnd`) goes section by section, keeps the
complete email sections for which there is memory, and ends in the walk over the
events; an unreadable file leaves an uninitialised pointer, and the model lets it
crash or read any sections. **`AlertPromise`** is the abstract
specification: an event is mailed at most once for each member, in order, and
only if the member satisfies it, with "satisfies" told independently of the
code's comparators, by the side of the reference on which the value lies.
`KeepsPromise` (in `Alerts`) is the refinement, with the nodes flattened.

**`ConfigLoad`** models `utils_get_data`: `cpc` is where it is, `sec` and `opt`
are the cursors of sections and options, `cursor` is the `tpc` of a section (a
position in the list, or `NULL`), `evt` is the `struct event`, which starts with
any of the contents in `Garbage`. A file is a sequence of sections with typed
options in the order of the file. `Numerals` gives the number that a text begins
with; `atoi` makes 0 of the others. `Filled` is
`create_event_from_section_helper` where it accepts an option, `Reject` the
break out of the section where it does not. A list read as a string gives
`Junk`; a recipient too many overwrites `recipient_count` (`Overrun`), and the
next may crash. The list of a topic is `[log, lost]` as `BoundedLog` has it, plus
the two things the abstraction hides from it here: an allocation happens for the
first event and for the one behind a full node, and hashing reads as many
recipients as `recipient_count` says.

**`Startup`** extends `ConfigLoad` and models `main`: `at` is where it is,
`held` what has been acquired, `misused` what was released without being held.
Each acquisition is an action with its failure, each cleanup label an action that falls
through to the next. The main loop is one step here, which may leave the
connection open, open with a statement that nobody finalized, or closed by
`add_msg_sqlite` (`left`), as `Daemon` tells. After it comes
`main_deinitialize_program`: `sqlite3_close` refuses the second, with its answer
ignored, and is misuse, or a crash, on the third (`DeinitializeCrashes`). Then come
the lists, with `head`, `previous`, `ehead` and `eprevious` as
the pointers of the two removal walks over the nodes that `ConfigLoad`'s lists
occupy; `freed` collects the nodes.

**`JsonParse`** models what `on_message` does with a payload. The text is a
sequence of tokens ended by a NUL; `offset` and `depth` are the parse buffer's.
`items` and `strings` are the heap by address: cJSON structures with their
`next`, `prev`, `child`, `string` and `valuestring`, and character arrays. The
recursion of `parse_value` is the stack `frames` (one per open array or object,
with its `head`), that of `cJSON_Delete` the stack `deleting`. Every allocation
may fail; `fail` unwinds level by level. `parse_array` and `parse_object` share
their actions, which differ in `Name`. What is right is said by the grammar of
JSON: `IsGrammar` are the equations for where the value that begins at a token
ends, and where a list does, at each depth, and `Grammar` is a solution for each
text (the run computes it by recursion, and TLC evaluates the equations on it).
`began`, observed only, notes the token and the depth at which an item was
allocated; `ParsesJson` compares the tree with the text through it.
`parse_number` copies at most 63 characters of a number, so that a longer one is two
tokens, what it reads and what is left (`Rest`), and one value of the grammar: the
list it is in fails at the second token, and at the root, where nothing is required
to follow the value, it is read in part. `NumberCut` names the failure. Left out, because no
state of the model reaches them (`Inside`): the branches for a buffer that cannot be
accessed at its offset; because nobody asks: `global_error`.

**`JsonText`** models `parse_string`, `utf16_literal_to_utf8` and `parse_hex4`
byte by byte: the pass that measures, the allocation, and the pass that decodes.
A string token of `JsonParse` is one run of it. What is right is said by the
syntax of JSON's strings and the tables of UTF-8 and UTF-16, over the numbers of
the code units (`Unit`, `Pair`, `Utf8`) instead of the code's masks and shifts. Each
input comes with its reading: where each character begins, its code, and what was
before it in UTF-8, up to the closing quote or to what is no JSON (`IsReading`).
`Decodes` compares the output with it. Left out is the branch for a code
point past 0x10FFFF, which cannot be taken: four digits and a surrogate pair stay
below (`LiteralFits` in `JsonTextProofs`).

**`SharedLemmas`** has what several proofs need: the least element of a set, and
`FlattenSeq` on lists of at most two nodes. **`DaemonProofs`**,
**`EventListProofs`**, **`AlertsProofs`**, **`AlertsMailProofs`**,
**`StartupProofs`** (with the invariants of `ConfigLoad`), **`JsonParseProofs`**
and **`JsonTextProofs`** hold the theorems about the module they are named after.

How they fit. `Startup` ends where `Daemon` begins (`at = "loop"`, everything
held) and takes over where `main_loop` returns. `Daemon` holds the content of a
message's alerts in one step (`Alert`, `AlertLogged`); `Alerts` holds the threads
in one (`Cancelled`); they share the interface `on_message`. `Alerts` takes the
parsed payload as `[topic, data]`, where `data` is what `MembersAsSent` says of
`JsonParse`, and the topic lists are such as `ConfigLoad` builds, packed as
`EventList` packs them.

## What the runs check

| run | instance | question |
|---|---|---|
| `daemon_safety` | 2 topics, timeout 2, 2 signals | the safety invariants of `Daemon`, that nothing but the shutdown moves after the join, and what the timeout decides |
| `daemon_liveness` | 2 topics of which the library rejects the second, timeout 1, 2 signals | does a stop request end the process, is a session subscribed, does the wait for CONNACK end |
| `daemon_signal` | 1 topic, 1 signal | fails: `sig_handler` logs before it clears `running` |
| `event_list` | 3 events, limits 16 and 4 as in the code, failing mallocs | shape, counter, null pointer; `EventList` implements `BoundedLog` |
| `event_list_false_duplicate`, `event_list_missed_duplicate` | the same | fail: the duplicate test does neither half of its job |
| `alerts` | two topic lists, 6 messages, 3 contents of `user_groups` | completeness, order and account of the mails, also of a message that crashes, `Alerts` implements `AlertPromise`, no message is stuck |
| `alerts_sent`, `alerts_occurs` | the same, `user_groups` fixed | fail: "Sent a message" is logged of a failed transfer; a message that cannot be stored is not alerted |
| `startup` | 4 topic files, 6 event files, 3 command lines, limits of the code | what a loaded configuration means, when loading crashes, what is released by whom |
| `json_parse` | every text of up to 3 tokens, up to 5 of arrays or objects, 4 payloads cut, thinned and altered, nesting limit 3 | accepted and refused texts, ownership, buffer, depth, the members handed on, termination |
| `json_text` | up to 3 pieces at the boundaries of the encodings, 2 cut anywhere | decoding and buffer |

The five failing runs each show a disagreement between the code and what the
code, its log lines or its constants say; `PROJECT.json` quotes them.

Bounds. `NTopics` = 2 gives a first and a last topic, a retry of each, and a
session that breaks between them. `Timeout` is 2 where the boundary matters and
1 where only its expiry does; `elapsed` is capped at `Timeout + 1`, past which
nothing depends on it. `MaxSignals` = 2 gives both signals, nested on one
thread or on two; a third could only repeat a signal that is blocked or already
handled. The number of reconnections, CONNACKs and messages is not
bounded. Three events and the code's own limits let `EventList` store one event twice,
fill the first node, open the second and run into the counter's limit through
failed allocations. In `Alerts` the lists of five events are as long as a topic's
list can get (`SecondNodeCloses`, proved in `EventListProofs`), and the two together use all eight
comparators, both types, a topic name that occurs twice and a topic without
events; messages have values below, at and above the references, repeated
members, a member of a type no event has, an array, and no `data` at all.
`user_groups` has incomplete sections, sections of another type, and a name that
occurs twice. Messages follow each other without bound.

In `startup` the files have one section for each thing the loaders test, and for
each thing they do not test: unknown, misplaced and missing options, a topic
that does not exist or exists twice, a QoS below, in and above the range, one
that only begins with a number and one that does not, the type behind the reference value, no
recipients, eleven of them, a string for a list; one topic gets more events than
it can hold. `Garbage` has a zeroed struct and one with everything wrong. In
`json_parse` a nesting limit of 3 is passed, reached, and reached again by
siblings; the parser looks at most two tokens ahead and its lists differ only in
first, inner and last element, so that the short texts meet every pair of
decisions; numbers of more than 63 characters (`digits` behind `1`) stand at the
root, in lists and in the payloads; a damaged payload has its error at every place. In `json_text` the
pieces are characters, short escapes, and code units on both sides of every
boundary of UTF-8 and of the surrogates, and pieces that are no JSON; two make
every pair of surrogates, three put something on either side.

No run checks for deadlock: the process of `Daemon` may end, hang or wait for the
broker; `EventList` and `Alerts` may end in a crash or a cancellation, and the
others end.

Fairness. `Daemon` assumes that a thread that can run does run (weak fairness
of `MainStep`, `CallbackStep`, and of each handler's steps), that a pending
cancellation is acted on although the thread leaves the cancellation point
again and again (`SF(Cancelled)`: a cancelled thread does not get past a
cancellation point; it demands nothing of a thread that passes none), that the
syslog lock starves nobody, and that `mosquitto_subscribe`, which queues a packet
and fails where memory is short, does not fail for ever on a name it accepts. The
broker, the link and the signals owe nothing. The three ways the process can hang are
therefore not excluded by assumption: the properties name them (`SelfDeadlock` of a
signal handler with the log call it interrupts, `OrphanedMutex` of a thread cancelled
inside `sqlite3_step`, and `EndlessRetry`: with a rejected topic, and a `syslog` that
holds cancellation off, `on_connect` passes no cancellation point, and `pthread_join`
waits for ever). With glibc the third does not occur, and the property does not except
it there. `Alerts` assumes only that the callback's
own steps go on; that SMTP servers answer is a hypothesis of the property, as
`curl_easy_perform` is called without a time limit. `JsonParse` assumes that the
callback runs on; the other modules state no liveness.

## What is proved

The theorems hold for every value of the constants that satisfies the named
assumptions of the modules; TLC evaluates the assumptions for the instances it
checks. Each proof follows the same argument: an inductive invariant, a lemma for
each action (or group of actions that touch the same variables), and a step for
each conjunct that an action can disturb. `PROJECT.json` lists the theorems.

**`Daemon`.** The invariants are not inductive by themselves. `IInv` adds: past
the join the thread is dead and until then everything is held (from which
`CallbackOnLiveData` follows); before `mosquitto_loop_start` no thread, no
cancellation and no session exist; in the middle of `on_connect` the cursor is
in the list and every topic before it is subscribed, and a thread that is not in
`on_connect` on an accepted link has all of them (`SettledSubscriptions`); the
database is closed last, with the link gone (`CrashOnlyOnLostDb` and `CleanExit`,
the two parts of `EndsExplained`); and the timeout is reported only when the time is
up. `TimeoutDecides` is about what follows a moment: `TimeoutIsDecided` shows of two
predicates, a CONNACK noted in time and a pass of the loop begun too late, that once
true they stay so, whatever the clock, the callbacks and the handlers do.
The action property `ShutdownAlone` follows from it. `Holds`, on top of it, follows
the locks: `OneLogs` says that at most one frame of `sig_handler` on either thread is
inside `log_event` and that its thread then has the syslog lock, `LockHeld` that a
lock of the callback thread is held by a point of its own code or by such a frame. So
a thread that ends, or is cancelled in a handler nested to any depth, takes no lock
with it (`LeavesNothing`).

**`EventList`.** The inductive invariant says that the list has one of three
shapes (no node, one node, a full node and a second with one event) and relates
the counter to each. The lemma `SecondNodeHashes` carries it: two nodes mean
that there are hashes, and hashes mean "duplicate", so that two nodes never grow.
`Refinement` maps each shape to the log. The nodes are concatenated by a
recursive function, but two nodes at most need no induction: the lemmas of
`SharedLemmas` unfold it.

**`Alerts`.** Three invariants build on each other. `IInv` (`AlertsProofs`) says
which message, topic and member there are at each point, that there is a reading
of `user_groups` for each member, and that the cursors are on an event or behind
the last node; the type and `CursorsInside` follow. `Accounts`
says that the list built so far agrees with the sections read so far: for every
name neither has an account, or the first ones have the same port (`Agree`).
`Mails` says what has been mailed for the members, nodes and slots before the
cursors; at the end of a message that is `Complete`, and where it crashes, between
two members, `CrashBetweenMembers`. `PromiseKept` maps every
step to a step of `AlertPromise` or to none: a mail appends an alert that is due
and comes after those mailed; readings, edits and walks are hidden.

**`ConfigLoad` and `Startup`.** `ConfigInv` says how far the two files are read
(`Stages`), what the options read so far have put into the struct event
(`Filling`), that every stored event is the one its section describes (`AllKept`,
hence `AttachedByName` and `ReadBack`), and that the events of a list are in the
order of the file and none that is meant for it was passed over before it was full
(`InOrder`, hence `LoadedAsMeant`). Nothing disturbs it once the files are loaded.
`Stations` and `Holding` say what is held at every point, what the loop left of the
connection included, `Walking` which nodes the
two removal walks have freed: those they have passed, and none twice.

**`JsonParse`.** `Ordered`: addresses grow along every reference, so that no
list and no tree runs into itself. `Growing`: what the parser is about to set is
empty. `Owned` and `Held` take the references to items and to arrays of characters as
sets of triples and pairs, and say that each live one is referred to by exactly
one; a step removes, adds or moves single references. At the end no reference is
left, hence nothing live (`OneOwner`). `Leveled` and `Linked` each claim a function on addresses
(the level of an item, the parent of a list's last item) that no variable of the
code has: the steps say how it is extended when an item is allocated.
`NestingBounded` and `WellLinked` follow.

`SentInOrder`, on top of that, claims a parent for every item (`Family`): siblings
have the same, the first child of an item has that item, and the children of the
root have names exactly if the root is an object. So the search that stops at an
item without a name, as `get_object_item` does, stops nowhere in an object but at
its end or at "data"; `Walking` says which part of the list the walk has met.

`ReadAsJson` compares the tree with the text. The parser and the grammar go through
the text in opposite directions: where a list ends is known to the grammar at its
first element and to the parser after the last. `Lookup` joins them: for each open
level, the end of the whole list is the end of what remains of it at the element
being parsed, and the end of the item being parsed is where the equations say.
Each step of the parser is then one use of one equation (`NextLevel` for a list
inside a list), and no induction over the text is needed. `TreeRead` says of every
item that is complete that it is what was written where it began, that its first
child and its next sibling began where the text has them, and of the others that
their names and the siblings before them are; `GaveUp` that a failure, memory apart,
means that the whole text has no end in the grammar, since what `Lookup` says of the
levels carries the missing end outwards (`LevelEnds`, `NoList`), or that it stopped
behind the 63rd character of a number (`CutFails`).

**`JsonText`.** `Fitting` claims a function that counts the escape sequences the
first pass met: what is written is shorter than what was read by as many bytes,
which is what the allocation relies on. `Measured` and `Follows` take the two passes
along the reading: the first pass stops only where a character begins or inside an
escape sequence, never past the closing quote without having met it; the second is
always at the beginning of a character, with that character's `means` written, as
long as every `\u` has its digits. One step is one character: the arithmetic of
`utf16_literal_to_utf8`, its divisions by powers of two and its bytes written
backwards, is shown to give `Utf8` of the code for one, two, three and four bytes, with
surrogates joined to pairs. `StringsDecode` (`Decodes`) and `StaysInBounds` follow.

The assumptions, and what in the code justifies them:

* `DaemonAssumption`, `JsonAssumption`, `StartupAssumption`, `EventListAssumption`:
  counts and limits are natural numbers, a node has a slot.
* `LimitPastNode`, `ConfigAssumption`: `MAX_EVENTS` (16) is past a node
  (`MAX_EVENTS_NODE`, 4) and past what a topic's list can hold.
* `AlertsAssumption`: the lists of topics have nodes, all of them with events, and
  at most two for a topic. `EventListProofs` proves this of every list that
  `EventList` builds (`NodesArePacked`, `SecondNodeCloses`). A port is an integer, as `atoi` returns it.
* `NumbersAssumption`: the operands of numeric comparisons are numbers, as
  `valuedouble` and the result of `atof` are.
* `FilesAssumption`: libuci's form of a file, sections with options of different
  names; and a `struct event` has all its fields, whatever is in them.
* `TextsAssumption`: the parser's buffer ends with a NUL, which
  `cJSON_ParseWithOpts` counts in, and a token is of one kind; what is left of a
  number is read as a number, as its characters are a number's.
* `GrammarAssumption`: each text comes with the ends of its values and lists. It says
  nothing of the code. That every text has them is an induction over the text, from
  its end, which the provers cannot do; TLC evaluates the equations on every text of the run.
* `InputsAssumption`: `parse_string` is called on a quote, in a buffer of bytes that
  ends with a NUL; and each buffer comes with its reading. That every buffer has one
  is again an induction; TLC evaluates `IsReading` on every input of the run.

## What the code does that its authors may not expect

Besides the five findings, the invariants name exceptions that are the code's:

* `ReleasedOnce`, `ReleasesAll`: `cleanup_data` frees the address of
  `main`'s variable (line 157) and leaves the data; with port 0 (or none)
  libmosquitto is not cleaned up (line 24); `MAIN_SUCCESS` is returned although
  `sqlite3_close` (line 215) has refused a connection with a statement left, and a
  connection that `add_msg_sqlite` closed (line 257) is closed again.
* `StopHonoured`: three hangs, see Fairness.
* `ConfigCrashExplained`: five ways in which a configuration, or one failed
  allocation, crashes the daemon at startup.
* `AttachedByName`: an event section without a topic is attached to the first
  topic of all if the bytes on the stack do not start with a NUL.
* `Decodes`, `InBounds`: `parse_hex4` returns 0 for what is not hexadecimal, so
  that `"\u12zz"` is accepted as a NUL, and `"\u123\\"` makes the second pass
  copy the closing quote; both stay in bounds.
* `CrashBetweenMembers`: a `data` that is an array crashes the callback in `strcmp`,
  as a closed connection and a `user_groups` that does not load may; what is mailed
  by then is what the members before asked for.
* `ParsesJson`: a payload with a number of more than 63 characters in a list is
  refused (`cJSON.c:316`), and handled as one without `data`.

## What is only model-checked

* Liveness: `StopHonoured`, `ConnackOrExit`, `SubscribedOrStuck`,
  `HandledIfMailAnswers`, `Finishes`. Fairness and ENABLED are beyond the prover.
* That the references exist for every text: the grammar's tables and the readings of
  strings are put together by the MC modules and checked there (see the assumptions).

## What is not modelled

* The rest of cJSON (printing, editing, comparison, minify) is vendored and
  never called. `get_time_string` and `print_events` keep no state. The init
  script runs outside the process.
* The sum that `event_hash` computes: `find_duplicate` answers before it
  compares. `ConfigLoad` has only the recipients it reads.
* The inside of `send_mail`: the lists and handles it leaks, and the recipients
  that are lost when `curl_slist_append` fails.
* Text is cut to the size of its field (`snprintf`); the instances have no text
  that long. Strings are compared only for equality, numbers are integers: NaN
  and the rounding of `atof` and `strtod` are out. Garbage strings in a `struct event`
  end somewhere.
* A payload on which cJSON runs out of memory looks to `Alerts` like one without
  `data`.
* libmosquitto's and malloc's own locks, which a cancelled thread or a signal
  handler could also leave or find locked, and the syslog lock's three
  acquisitions in one `log_event`, which are one here.
* In `JsonParse` the rest of a long number is a number too: that it begins with an
  `e`, or is one sign, at which the list fails in the same way, is not told apart.
* With an empty topic list `on_connect` hands a null pointer to `%s` (line
  232); the C libraries print "(null)", and so does the model: it goes on.
* Time is elapsed seconds; the wall clock is not set back.

## Plan

1. Proofs: action properties of `Startup`, such as that nothing is acquired once the
   release has begun.
2. `send_mail` step by step with the curl lists on a heap, like `JsonParse`.
3. `Daemon` with the message loop of `Alerts` in place of its `Alert` step, and
   the event lists with the shape `EventList` proves.
