------------------------------ MODULE Startup -------------------------------
(***************************************************************************)
(* main and main_initialize_program (main_utils.c): what is acquired in     *)
(* which order, what each cleanup label gives back, and, when the program   *)
(* ran, main_deinitialize_program down to the last node of the lists that    *)
(* ConfigLoad built.  The time in between is one step here and module        *)
(* Daemon otherwise; what it may do to the connection is kept.              *)
(***************************************************************************)
EXTENDS ConfigLoad

CONSTANTS MAX_EVENTS_NODE,
          CommandLines     \* [count, port, login, tls]: the arguments the init script gives

ASSUME StartupAssumption == MAX_EVENTS_NODE \in Nat \ {0} /\ Capacity = MAX_EVENTS_NODE + 1

VARIABLES args,            \* the command line
          at,              \* where main is, the functions it calls included
          held,            \* what has been acquired and not released
          null,            \* *data is NULL
          misused,         \* what was released, or read, without being held (observed)
          status,          \* what main returned; none before
          left,            \* how the loop left the connection: "busy" with a statement not
                           \* finalized, "lost" closed (main_utils.c:257), else "open"
          freed,           \* the list nodes freed: <<topic>>, <<topic, event node>>
          head, previous,  \* topic_list_remove_all
          ehead, eprevious \* event_list_remove_all

walkVars == <<freed, head, previous, ehead, eprevious>>
vars == <<configVars, args, at, held, null, misused, status, left, walkVars>>

None == -1
MAIN_SUCCESS == 0
MAIN_FAILURE_INIT == 1
MAIN_FAILURE_LOOP == 2
EX_USAGE == 64            \* what argp_usage exits with

Init == /\ ConfigInit
        /\ args \in CommandLines
        /\ at = "arguments" /\ held = {} /\ null = FALSE
        /\ misused = {} /\ status = None /\ left = "open"
        /\ freed = {} /\ head = NULL /\ previous = NULL /\ ehead = NULL /\ eprevious = NULL

Goto(p, q) == at = p /\ at' = q
Acquire(p, r, q) == Goto(p, q) /\ held' = held \cup {r}
Return(code) == at' = "ended" /\ status' = code
Release(R) == held' = held \ R /\ misused' = misused \cup (R \ held)

(* parse_opt: argp_usage, which exits, unless there are five arguments. *)
ParseArgs == /\ at = "arguments"
             /\ IF args.count = 5 THEN at' = "curl" /\ UNCHANGED status
                                  ELSE Return(EX_USAGE)
             /\ UNCHANGED <<configVars, args, left, held, null, misused, walkVars>>

CurlInit == /\ \/ Acquire("curl", "curl", "sqlite") /\ UNCHANGED status
               \/ at = "curl" /\ Return(MAIN_FAILURE_INIT) /\ UNCHANGED held
            /\ UNCHANGED <<configVars, args, left, null, misused, walkVars>>

(* main_init_sqlite closes what it opened when it fails. *)
SqliteInit == /\ \/ Acquire("sqlite", "db", "lib")
                 \/ Goto("sqlite", "cleanup_curl") /\ UNCHANGED held
              /\ UNCHANGED <<configVars, args, left, null, misused, status, walkVars>>

(* main_init_mosquitto.  The port is looked at before the result of         *)
(* mosquitto_lib_init, and nothing is undone.                               *)
LibInit == /\ \/ held' = held \cup {"lib"}
                 /\ Goto("lib", IF args.port = 0 THEN "cleanup_sqlite" ELSE "client")
              \/ Goto("lib", "cleanup_sqlite") /\ UNCHANGED held
           /\ UNCHANGED <<configVars, args, left, null, misused, status, walkVars>>

ClientNew == /\ \/ Acquire("client", "client", "connect") /\ UNCHANGED misused
                \/ Goto("client", "cleanup_sqlite") /\ Release({"lib"})
             /\ UNCHANGED <<configVars, args, left, null, status, walkVars>>

(* Mutant: without the cleanup. *)
ClientFailsLeaving == /\ Goto("connect", "cleanup_sqlite")
                      /\ UNCHANGED <<configVars, args, left, held, null, misused, status, walkVars>>

(* cleanup_client: the login, TLS or the connection is refused. *)
ClientFails == /\ Goto("connect", "cleanup_sqlite")
               /\ Release({"client", "lib"})
               /\ UNCHANGED <<configVars, args, left, null, status, walkVars>>

Connected == /\ Goto("connect", "alloc")
             /\ UNCHANGED <<configVars, args, left, held, null, misused, status, walkVars>>

(* The test after malloc looks at data, not at *data. *)
AllocData == /\ \/ Acquire("alloc", "data", "config") /\ UNCHANGED null
                \/ Goto("alloc", "config") /\ null' = TRUE /\ UNCHANGED held
             /\ cpc' = "topics"
             /\ UNCHANGED <<topicFile, eventFile, tpc, sec, opt, cursor, evt, dropped>>
             /\ UNCHANGED <<args, left, misused, status, walkVars>>

Configure == /\ at = "config" /\ ConfigNext
             /\ UNCHANGED <<args, left, at, held, null, misused, status, walkVars>>

(* cleanup_data frees main's variable in place of what it points to.        *)
ConfigFailed == /\ cpc = "failed"
                /\ \/ Goto("config", "cleanup_mosquitto")
                   \/ Goto("config", "crashed")
                /\ misused' = misused \cup {"main's data"}
                /\ UNCHANGED <<configVars, args, left, held, null, status, walkVars>>

Crash == /\ \/ cpc = "crashed"
            \/ cpc = "loaded" /\ null
         /\ Goto("config", "crashed")
         /\ UNCHANGED <<configVars, args, left, held, null, misused, status, walkVars>>

HandOver == /\ cpc = "loaded" /\ ~null
            /\ Goto("config", "loop")
            /\ UNCHANGED <<configVars, args, left, held, null, misused, status, walkVars>>

CleanupMosquitto == /\ Goto("cleanup_mosquitto", "cleanup_sqlite")
                    /\ Release({"client", "lib"})
                    /\ UNCHANGED <<configVars, args, left, null, status, walkVars>>

CleanupSqlite == /\ Goto("cleanup_sqlite", "cleanup_curl")
                 /\ Release({"db"})
                 /\ UNCHANGED <<configVars, args, left, null, status, walkVars>>

CleanupCurl == /\ at = "cleanup_curl"
               /\ Return(MAIN_FAILURE_INIT)
               /\ Release({"curl"})
               /\ UNCHANGED <<configVars, args, left, null, walkVars>>

(* main_loop.  A message whose INSERT cannot be prepared closes the         *)
(* connection, and a cancelled one may leave its statement (module Daemon). *)
Loop == /\ at = "loop"
        /\ \/ at' = "deinit" /\ UNCHANGED status
           \/ Return(MAIN_FAILURE_LOOP)
        /\ left' \in {"open", "busy", "lost"}
        /\ held' = IF left' = "lost" THEN held \ {"db"} ELSE held
        /\ UNCHANGED <<configVars, args, null, misused, walkVars>>

-----------------------------------------------------------------------------
(* main_deinitialize_program *)

(* The nodes of the lists, as EventList packs them. *)
EventNodes(k) == (Len(tpc[k].log) + MAX_EVENTS_NODE - 1) \div MAX_EVENTS_NODE
AllNodes == {<<k>> : k \in DOMAIN tpc}
              \cup UNION {{<<k, n>> : n \in 1..EventNodes(k)} : k \in DOMAIN tpc}

(* Mutant: the end is not noticed. *)
NextOfEver(k, last) == k + 1

NextOf(k, last) == IF k < last THEN k + 1 ELSE NULL

(* What sqlite3_close refuses with a statement left is kept, and nobody     *)
(* looks at its answer.                                                     *)
Released == {"curl", "client", "lib", "db"} \ {r \in {"db"} : left = "busy"}

Deinitialize == /\ Goto("deinit", "topics")
                /\ Release(Released)
                /\ head' = FirstOf(tpc) /\ previous' = NULL
                /\ UNCHANGED <<configVars, args, left, null, status, freed, ehead, eprevious>>

(* The connection was closed before.                                        *)
DeinitializeCrashes == /\ Goto("deinit", "crashed")
                       /\ left = "lost"
                       /\ Release(Released)
                       /\ UNCHANGED <<configVars, args, left, null, status, walkVars>>

(* free, and the reading of a node's next. *)
Free(N) == freed' = freed \cup N
Misuse(N) == misused' = misused \cup {"list node" : n \in N}
NodesAt(k, N) == {<<k, n>> : n \in N \ {NULL}}
TopicsAt(K) == {<<k>> : k \in K \ {NULL}}

(* topic_list_remove_all: at a topic, its event nodes first.  *)
EnterEvents == /\ head # NULL
               /\ Goto("topics", "events")
               /\ ehead' = IF EventNodes(head) = 0 THEN NULL ELSE 1
               /\ eprevious' = NULL
               /\ UNCHANGED <<configVars, args, left, held, null, misused, status, freed, head, previous>>

(* Mutant: the node is freed at once, and then its next is read. *)
EventStepAtOnce == /\ at = "events" /\ ehead # NULL
                   /\ Free(NodesAt(head, {ehead})) /\ Misuse(NodesAt(head, {ehead}))
                   /\ ehead' = NextOf(ehead, EventNodes(head))
                   /\ UNCHANGED <<configVars, args, left, at, held, null, status, head, previous, eprevious>>

EventStep == /\ at = "events" /\ ehead # NULL
             /\ Free(NodesAt(head, {eprevious}))
             /\ Misuse(NodesAt(head, {eprevious, ehead}) \cap freed)
             /\ eprevious' = ehead /\ ehead' = NextOf(ehead, EventNodes(head))
             /\ UNCHANGED <<configVars, args, left, at, held, null, status, head, previous>>

(* Mutant: the last event node stays. *)
TopicStepForgets == /\ at = "events" /\ ehead = NULL
                    /\ at' = "topics"
                    /\ Free(TopicsAt({previous}))
                    /\ Misuse(TopicsAt({head, previous}) \cap freed)
                    /\ previous' = head /\ head' = NextOf(head, Len(tpc))
                    /\ UNCHANGED <<configVars, args, left, held, null, status, ehead, eprevious>>

TopicStep == /\ at = "events" /\ ehead = NULL
             /\ at' = "topics"
             /\ Free(TopicsAt({previous}) \cup NodesAt(head, {eprevious}))
             /\ Misuse((TopicsAt({head, previous}) \cup NodesAt(head, {eprevious})) \cap freed)
             /\ previous' = head /\ head' = NextOf(head, Len(tpc))
             /\ UNCHANGED <<configVars, args, left, held, null, status, ehead, eprevious>>

Finish == /\ at = "topics" /\ head = NULL
          /\ Return(MAIN_SUCCESS)
          /\ Free(TopicsAt({previous}))
          /\ held' = held \ {"data"}
          /\ Misuse(TopicsAt({previous}) \cap freed)
          /\ UNCHANGED <<configVars, args, left, null, head, previous, ehead, eprevious>>

Next == \/ ParseArgs \/ CurlInit \/ SqliteInit \/ LibInit \/ ClientNew \/ ClientFails
        \/ Connected \/ AllocData \/ Configure \/ ConfigFailed \/ Crash \/ HandOver
        \/ CleanupMosquitto \/ CleanupSqlite \/ CleanupCurl \/ Loop
        \/ Deinitialize \/ DeinitializeCrashes \/ EnterEvents \/ EventStep \/ TopicStep \/ Finish

Spec == Init /\ [][Next]_vars

-----------------------------------------------------------------------------
(* Properties *)

Resources == {"curl", "db", "lib", "client", "data"}

TypeOK == /\ cpc \in {"idle", "topics", "topic", "failed", "events", "event", "option",
                     "loaded", "crashed"}
          /\ at \in {"arguments", "curl", "sqlite", "lib", "client", "connect", "alloc", "config",
                    "cleanup_mosquitto", "cleanup_sqlite", "cleanup_curl", "loop", "deinit",
                    "topics", "events", "ended", "crashed"}
          /\ held \subseteq Resources /\ null \in BOOLEAN
          /\ misused \subseteq Resources \cup {"list node", "main's data"}
          /\ status \in {None, MAIN_SUCCESS, MAIN_FAILURE_INIT, MAIN_FAILURE_LOOP, EX_USAGE}
          /\ left \in {"open", "busy", "lost"}
          /\ sec \in Nat /\ opt \in Nat /\ dropped \in Nat
          /\ cursor \in {NULL} \cup DOMAIN tpc
          /\ freed \subseteq AllNodes
          /\ head \in {NULL} \cup DOMAIN tpc /\ previous \in {NULL} \cup DOMAIN tpc
          /\ ehead \in Nat /\ eprevious \in Nat

(* Whatever fails at startup, and in the walks of the shutdown, nothing is  *)
(* released twice, or read after it was; but for the variable of main that  *)
(* cleanup_data frees when the topics do not load, and for the connection   *)
(* that add_msg_sqlite closed already.                                      *)
ReleasedOnce == misused # {} => \/ misused = {"main's data"} /\ cpc = "failed"
                                \/ misused = {"db"} /\ left = "lost"

(* A startup that fails gives back what it had acquired, but for            *)
(* libmosquitto when the port is none, and for the data when the topics do  *)
(* not load; the loop starts with everything in place; and MAIN_SUCCESS      *)
(* means that everything was given back, down to each node of each list,    *)
(* but for a connection that a statement keeps open.                        *)
ReleasesAll ==
    /\ status \in {MAIN_FAILURE_INIT, EX_USAGE} =>
           \A r \in held : \/ (r = "lib" /\ args.port = 0)
                           \/ (r = "data" /\ cpc = "failed")
    /\ at = "loop" => held = Resources /\ freed = {}
    /\ status = MAIN_SUCCESS => /\ freed = AllNodes
                                /\ held = {r \in {"db"} : left = "busy"}
=============================================================================
