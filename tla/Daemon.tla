------------------------------- MODULE Daemon -------------------------------
(***************************************************************************)
(* The running process of mqtt_subscriber: main.c, main_loop, deinit, the  *)
(* callbacks on_connect and on_message, and sig_handler (main_utils.c).    *)
(*                                                                         *)
(* Two threads share the globals running and connected and the struct data *)
(* that main_initialize_program filled in: the main thread, which polls    *)
(* once a second, and the thread that mosquitto_loop_start creates, which  *)
(* runs the callbacks.  SIGINT and SIGTERM run sig_handler on whichever    *)
(* thread the kernel picks.  The model starts where                        *)
(* main_initialize_program has returned successfully: CONNECT is sent, no  *)
(* CONNACK has been read, the database is open.                            *)
(*                                                                         *)
(* A log_event call takes the C library's syslog lock (LogEnter) and       *)
(* gives it back in the step that ends the call.  That lock, and SQLite's  *)
(* connection mutex, are not recursive across a signal handler or a        *)
(* cancelled thread.                                                       *)
(***************************************************************************)
EXTENDS Naturals, Sequences

CONSTANTS NTopics,     \* length of data->tpc
          BadTopics,   \* positions whose name mosquitto_subscribe always rejects
          Timeout,     \* timeout_seconds
          MaxSignals   \* bound: signals delivered in a behaviour

ASSUME DaemonAssumption == /\ NTopics \in Nat
                           /\ BadTopics \subseteq 1..NTopics
                           /\ Timeout \in Nat
                           /\ MaxSignals \in Nat

VARIABLES main,       \* where the main thread is
          net,        \* where mosquitto's thread is
          running, connected,    \* the globals of main_utils.c
          elapsed,    \* time(NULL) - start_time, capped at Timeout + 1
          cancel,     \* mosquitto_loop_stop has asked the thread to cancel
          libc,       \* the C library, chosen once; OpenWrt's is musl
          link,       \* the MQTT session as the library sees it
          tpc,        \* on_connect's cursor in the topic list
          subs,       \* topics subscribed in this session
          live,       \* what data and the libraries still hold, without the database
          db,         \* data->db; "lost": closed, but data->db still names it
          stmt,       \* add_msg_sqlite's statement is prepared and not finalized
          dbOwner, logOwner,     \* holders of the SQLite mutex and the syslog lock
          handler,    \* handler[t]: sig_handler frames on thread t, innermost first
          signals,    \* signals delivered so far
          exit        \* how the process ended

vars == <<main, net, running, connected, elapsed, cancel, libc, link, tpc, subs,
          live, db, stmt, dbOwner, logOwner, handler, signals, exit>>

conn == <<link, tpc, subs>>
store == <<db, stmt, dbOwner>>
flags == <<running, connected>>
cancellation == <<cancel, libc>>
sig == <<handler, signals>>

Threads == {"main", "net"}
Signals == {"SIGINT", "SIGTERM"}
Nobody == "nobody"
Resources == {"curl", "mosq", "topics"}
Topics == 1..NTopics

MainLog == {"start_log", "timeout_log", "stop_log", "disconnect_log", "finish_log"}
NetLog == {"connack_log", "topic_log", "subscribe_log", "prepare_log",
           "store_log", "step_log", "alert_log"}
PollPoints == {"while", "check", "check_time", "sleep"}
MainPoints == MainLog \cup PollPoints
                 \cup {"loop_start", "stop", "join", "deinit", "destroy", "close_db"}
OnConnectPoints == {"on_connect", "connack_log", "topic_log", "subscribe", "subscribe_log"}
OnMessagePoints == {"prepare", "prepare_log", "store_log", "step", "step_log",
                    "alert", "alert_log"}
NetPoints == {"none", "loop", "dead"} \cup OnConnectPoints \cup OnMessagePoints

Frame == [sig : Signals, at : {"log", "logging", "set"}]

TypeOK == /\ main \in MainPoints
          /\ net \in NetPoints
          /\ running \in BOOLEAN /\ connected \in BOOLEAN /\ cancel \in BOOLEAN
          /\ libc \in {"glibc", "musl"}
          /\ elapsed \in 0..(Timeout + 1)
          /\ link \in {"down", "wait", "up", "refused"}
          /\ tpc \in 1..(NTopics + 1)
          /\ subs \subseteq Topics
          /\ live \subseteq Resources
          /\ db \in {"open", "lost", "closed"} /\ stmt \in BOOLEAN
          /\ dbOwner \in {"net", Nobody}
          /\ logOwner \in Threads \cup {Nobody}
          /\ handler \in [Threads -> Seq(Frame)]
          /\ signals \in 0..MaxSignals
          /\ exit \in {"none", "success", "loop_failure", "crash"}

Init == /\ main = "loop_start" /\ net = "none"
        /\ running = TRUE /\ connected = FALSE
        /\ elapsed = 0 /\ cancel = FALSE /\ libc \in {"glibc", "musl"}
        /\ link = "wait" /\ tpc = 1 /\ subs = {}
        /\ live = Resources
        /\ db = "open" /\ stmt = FALSE
        /\ dbOwner = Nobody /\ logOwner = Nobody
        /\ handler = [t \in Threads |-> <<>>] /\ signals = 0
        /\ exit = "none"

(* A thread runs its own code only while no signal handler is on its stack. *)
MainAt(p) == main = p /\ handler["main"] = <<>> /\ exit = "none"
NetAt(p) == net = p /\ handler["net"] = <<>> /\ exit = "none"

-----------------------------------------------------------------------------
(* log_event: the lock is taken here and released by the step that leaves   *)
(* the log point.                                                           *)

AtLogPoint(t) == \/ t = "main" /\ \E p \in MainLog : MainAt(p)
                 \/ t = "net" /\ \E p \in NetLog : NetAt(p)

LogEnter(t) == /\ AtLogPoint(t)
               /\ logOwner = Nobody
               /\ logOwner' = t
               /\ UNCHANGED <<main, net, flags, elapsed, cancellation, conn, live, store, sig, exit>>

MainLogged(p) == MainAt(p) /\ logOwner = "main" /\ logOwner' = Nobody
NetLogged(p) == NetAt(p) /\ logOwner = "net" /\ logOwner' = Nobody

-----------------------------------------------------------------------------
(* main_loop *)

LoopStart == /\ MainAt("loop_start")
             /\ \/ main' = "while" /\ net' = "loop"
                \/ main' = "start_log" /\ UNCHANGED net
             /\ UNCHANGED <<flags, elapsed, cancellation, conn, live, store, logOwner, sig, exit>>

(* Mutant: the return commented out, as it is after mosquitto_disconnect. *)
LoopFailedGoesOn == /\ MainLogged("start_log") \/ MainLogged("stop_log")
                    /\ main' = "deinit"
                    /\ UNCHANGED <<net, flags, elapsed, cancellation, conn, live, store, sig, exit>>

(* main returns MAIN_FAILURE_LOOP at once: nothing is released. *)
LoopFailed == /\ MainLogged("start_log") \/ MainLogged("stop_log")
              /\ exit' = "loop_failure"
              /\ UNCHANGED <<main, net, flags, elapsed, cancellation, conn, live, store, sig>>

While == /\ MainAt("while")
         /\ main' = IF running THEN "check" ELSE "stop"
         /\ UNCHANGED <<net, flags, elapsed, cancellation, conn, live, store, logOwner, sig, exit>>

(* time(NULL) moves on between any two steps of the loop, a log call of a   *)
(* handler included; beyond Timeout + 1 nothing tells the seconds apart.    *)
Tick == /\ main \in PollPoints /\ exit = "none"
        /\ elapsed <= Timeout
        /\ elapsed' = elapsed + 1
        /\ UNCHANGED <<main, net, flags, cancellation, conn, live, store, logOwner, sig, exit>>

(* Mutant: the flag read the wrong way round. *)
CheckInverted == /\ MainAt("check")
                 /\ main' = IF connected THEN "check_time" ELSE "sleep"
                 /\ UNCHANGED <<net, flags, elapsed, cancellation, conn, live, store,
                                logOwner, sig, exit>>

(* The two operands of the && are read one after the other. *)
Check == /\ MainAt("check")
         /\ main' = IF connected THEN "sleep" ELSE "check_time"
         /\ UNCHANGED <<net, flags, elapsed, cancellation, conn, live, store, logOwner, sig, exit>>

(* Mutant: the boundary second missed. *)
TimedOutLate == elapsed > Timeout

TimedOut == elapsed >= Timeout

CheckTime == /\ MainAt("check_time")
             /\ main' = IF TimedOut THEN "timeout_log" ELSE "sleep"
             /\ UNCHANGED <<net, flags, elapsed, cancellation, conn, live, store,
                            logOwner, sig, exit>>

TimeoutStop == /\ MainLogged("timeout_log")
               /\ running' = FALSE
               /\ main' = "stop"
               /\ UNCHANGED <<net, connected, elapsed, cancellation, conn, live, store, sig, exit>>

(* sleep(1) lasts a second or, with Tick, more.  A signal cuts it short,   *)
(* but running is FALSE then and elapsed is not read again.                 *)
Sleep == /\ MainAt("sleep")
         /\ main' = "while"
         /\ elapsed' = IF elapsed > Timeout THEN elapsed ELSE elapsed + 1
         /\ UNCHANGED <<net, flags, cancellation, conn, live, store, logOwner, sig, exit>>

(* Mutant: force is false, though mosquitto_disconnect comes only later. *)
LoopStopUnforced == /\ MainAt("stop")
                    /\ main' \in {"join", "stop_log"}
                    /\ UNCHANGED <<net, flags, elapsed, cancellation, conn, live, store,
                                   logOwner, sig, exit>>

(* mosquitto_loop_stop(mosq, true): pthread_cancel, then pthread_join. *)
LoopStop == /\ MainAt("stop")
            /\ \/ main' = "join" /\ cancel' = TRUE
               \/ main' = "stop_log" /\ UNCHANGED cancel
            /\ UNCHANGED <<net, flags, elapsed, libc, conn, live, store, logOwner, sig, exit>>

(* Mutant: the thread is asked to end and not waited for. *)
JoinedAtOnce == TRUE

Joined == net = "dead"

Join == /\ MainAt("join")
        /\ Joined
        /\ main' = "deinit"
        /\ UNCHANGED <<net, flags, elapsed, cancellation, conn, live, store, logOwner, sig, exit>>

-----------------------------------------------------------------------------
(* main_deinitialize_program *)

CleanupAndDisconnect == /\ MainAt("deinit")
                        /\ live' = live \ {"curl"}
                        /\ main' \in {"destroy", "disconnect_log"}
                        /\ UNCHANGED <<net, flags, elapsed, cancellation, conn, store,
                                       logOwner, sig, exit>>

DisconnectFailed == /\ MainLogged("disconnect_log")
                    /\ main' = "destroy"
                    /\ UNCHANGED <<net, flags, elapsed, cancellation, conn, live, store, sig, exit>>

Destroy == /\ MainAt("destroy")
           /\ main' = "close_db"
           /\ live' = live \ {"mosq"}
           /\ link' = "down" /\ subs' = {}
           /\ UNCHANGED <<net, flags, elapsed, cancellation, tpc, store, logOwner, sig, exit>>

(* sqlite3_close waits for the connection mutex, refuses a connection with *)
(* an unfinalized statement, and is undefined on a connection already      *)
(* closed: reported as misuse, or a crash.                                 *)
CloseDb == /\ MainAt("close_db")
           /\ \/ /\ db = "open" /\ dbOwner = Nobody
                 /\ db' = IF stmt THEN "open" ELSE "closed"
                 /\ live' = {} /\ main' = "finish_log"
                 /\ UNCHANGED exit
              \/ /\ db # "open"
                 /\ live' = {} /\ main' = "finish_log"
                 /\ UNCHANGED <<db, exit>>
              \/ /\ db # "open"
                 /\ exit' = "crash"
                 /\ UNCHANGED <<main, live, db>>
           /\ UNCHANGED <<net, flags, elapsed, cancellation, conn, stmt, dbOwner, logOwner, sig>>

Finish == /\ MainLogged("finish_log")
          /\ exit' = "success"
          /\ UNCHANGED <<main, net, flags, elapsed, cancellation, conn, live, store, sig>>

-----------------------------------------------------------------------------
(* mosquitto_loop_forever on the library's thread, and the broker.  The     *)
(* session is clean: a lost link forgets the subscriptions.                 *)

Polling == NetAt("loop") /\ ~cancel

LinkLost == /\ Polling /\ link # "down"
            /\ link' = "down" /\ subs' = {}
            /\ UNCHANGED <<main, net, flags, elapsed, cancellation, tpc, live, store,
                           logOwner, sig, exit>>

Reconnect == /\ Polling /\ link = "down"
             /\ link' = "wait"
             /\ UNCHANGED <<main, net, flags, elapsed, cancellation, tpc, subs, live, store,
                            logOwner, sig, exit>>

(* The loop returns on an error it cannot reconnect after. *)
ThreadEnds == /\ Polling
              /\ net' = "dead"
              /\ UNCHANGED <<main, flags, elapsed, cancellation, conn, live, store, logOwner, sig, exit>>

Connack == /\ Polling /\ link = "wait"
           /\ link' \in {"up", "refused"}
           /\ net' = "on_connect"
           /\ UNCHANGED <<main, flags, elapsed, cancellation, tpc, subs, live, store,
                          logOwner, sig, exit>>

Message == /\ Polling /\ link = "up" /\ subs # {}
           /\ net' = "prepare"
           /\ UNCHANGED <<main, flags, elapsed, cancellation, conn, live, store,
                          logOwner, sig, exit>>

(* glibc's syslog is a cancellation point, musl's holds cancellation off.   *)
SyslogCancels == libc = "glibc"

(* The thread acts on a pending cancellation at a cancellation point: the   *)
(* library's poll, a socket or file access, and such a syslog's send.       *)
(* mosquitto_subscribe returns without any I/O for a name it rejects.  The  *)
(* C library releases the syslog lock; nothing releases the SQLite mutex,   *)
(* nor finalizes the statement.                                             *)
CancellationPoint ==
    IF handler["net"] = <<>>
    THEN \/ net \in {"loop", "prepare", "step", "alert"}
         \/ net = "subscribe" /\ tpc \notin BadTopics
         \/ net \in NetLog /\ logOwner = "net" /\ SyslogCancels
    ELSE Head(handler["net"]).at = "logging" /\ SyslogCancels

Cancelled == /\ exit = "none" /\ cancel /\ net # "dead"
             /\ CancellationPoint
             /\ net' = "dead"
             /\ handler' = [handler EXCEPT !["net"] = <<>>]
             /\ logOwner' = IF logOwner = "net" THEN Nobody ELSE logOwner
             /\ UNCHANGED <<main, flags, elapsed, cancellation, conn, live, store, signals, exit>>

-----------------------------------------------------------------------------
(* on_connect *)

OnConnect == /\ NetAt("on_connect")
             /\ connected' = TRUE
             /\ net' = "connack_log"
             /\ UNCHANGED <<main, running, elapsed, cancellation, conn, live, store,
                            logOwner, sig, exit>>

ConnackLogged == /\ NetLogged("connack_log")
                 /\ running' = (running /\ link = "up")
                 /\ net' = IF link = "up" THEN "topic_log" ELSE "loop"
                 /\ UNCHANGED <<main, connected, elapsed, cancellation, conn, live, store, sig, exit>>

TopicLogged == /\ NetLogged("topic_log")
               /\ tpc' = 1
               /\ net' = IF NTopics = 0 THEN "loop" ELSE "subscribe"
               /\ UNCHANGED <<main, flags, elapsed, cancellation, link, subs, live, store, sig, exit>>

(* Mutants: the cursor never moves; the loop runs one past the end. *)
SubscribeOkInPlace == /\ NetAt("subscribe") /\ tpc \in Topics \ BadTopics
                      /\ subs' = subs \cup {tpc}
                      /\ UNCHANGED <<main, net, flags, elapsed, cancellation, link, tpc, live,
                                     store, logOwner, sig, exit>>

SubscribeOkPastEnd == /\ NetAt("subscribe") /\ tpc \notin BadTopics
                      /\ subs' = subs \cup {tpc}
                      /\ tpc' = tpc + 1
                      /\ net' = IF tpc > NTopics THEN "loop" ELSE "subscribe"
                      /\ UNCHANGED <<main, flags, elapsed, cancellation, link, live, store,
                                     logOwner, sig, exit>>

SubscribeOk == /\ NetAt("subscribe") /\ tpc \in Topics \ BadTopics
               /\ subs' = subs \cup {tpc}
               /\ tpc' = tpc + 1
               /\ net' = IF tpc = NTopics THEN "loop" ELSE "subscribe"
               /\ UNCHANGED <<main, flags, elapsed, cancellation, link, live, store,
                              logOwner, sig, exit>>

SubscribeFails == /\ NetAt("subscribe")
                  /\ net' = "subscribe_log"
                  /\ UNCHANGED <<main, flags, elapsed, cancellation, conn, live, store,
                                 logOwner, sig, exit>>

(* Mutant: a failed topic is given up. *)
SubscribeLoggedSkips == /\ NetLogged("subscribe_log")
                        /\ tpc' = tpc + 1
                        /\ net' = IF tpc = NTopics THEN "loop" ELSE "subscribe"
                        /\ UNCHANGED <<main, flags, elapsed, cancellation, link, subs, live,
                                       store, sig, exit>>

(* The "continue" of on_connect retries the same topic. *)
SubscribeLogged == /\ NetLogged("subscribe_log")
                   /\ net' = "subscribe"
                   /\ UNCHANGED <<main, flags, elapsed, cancellation, conn, live, store, sig, exit>>

-----------------------------------------------------------------------------
(* on_message: add_msg_sqlite, then the alerts (module Alerts has them).    *)

(* sqlite3_prepare_v2; on a connection closed before, misuse or a crash. *)
Prepare == /\ NetAt("prepare")
           /\ \/ /\ db = "open"
                 /\ net' = "step" /\ stmt' = TRUE /\ dbOwner' = "net"
                 /\ UNCHANGED exit
              \/ /\ net' = "prepare_log"
                 /\ UNCHANGED <<stmt, dbOwner, exit>>
              \/ /\ db # "open"
                 /\ exit' = "crash"
                 /\ UNCHANGED <<net, stmt, dbOwner>>
           /\ UNCHANGED <<main, flags, elapsed, cancellation, conn, live, db, logOwner, sig>>

(* The failing path closes the connection and leaves data->db as it is; on *)
(* a connection closed before, sqlite3_close reports misuse or crashes.     *)
PrepareFailed == /\ NetLogged("prepare_log")
                 /\ \/ db' = "lost" /\ net' = "store_log" /\ UNCHANGED exit
                    \/ db # "open" /\ exit' = "crash" /\ UNCHANGED <<net, db>>
                 /\ UNCHANGED <<main, flags, elapsed, cancellation, conn, live, stmt, dbOwner, sig>>

StoreLogged == /\ NetLogged("store_log")
               /\ net' = "loop"
               /\ UNCHANGED <<main, flags, elapsed, cancellation, conn, live, store, sig, exit>>

(* sqlite3_step; its failure is logged before the statement is finalized. *)
Step == /\ NetAt("step")
        /\ dbOwner' = Nobody
        /\ \/ net' = "alert" /\ stmt' = FALSE
           \/ net' = "step_log" /\ UNCHANGED stmt
        /\ UNCHANGED <<main, flags, elapsed, cancellation, conn, live, db, logOwner, sig, exit>>

(* Mutant: a return behind the log_event, as in the branch above.           *)
StepFailedReturns == /\ NetLogged("step_log")
                     /\ net' = "alert"
                     /\ UNCHANGED <<main, flags, elapsed, cancellation, conn, live, store, sig, exit>>

StepFailed == /\ NetLogged("step_log")
              /\ stmt' = FALSE
              /\ net' = "alert"
              /\ UNCHANGED <<main, flags, elapsed, cancellation, conn, live, db, dbOwner, sig, exit>>

Alert == /\ NetAt("alert")
         /\ net' \in {"alert_log", "loop"}
         /\ UNCHANGED <<main, flags, elapsed, cancellation, conn, live, store, logOwner, sig, exit>>

AlertLogged == /\ NetLogged("alert_log")
               /\ net' = "loop"
               /\ UNCHANGED <<main, flags, elapsed, cancellation, conn, live, store, sig, exit>>

-----------------------------------------------------------------------------
(* sig_handler.  A signal is blocked on the thread that is handling it, but *)
(* the other signal can interrupt the handler (sa_mask is empty).           *)

Alive(t) == t = "main" \/ net \notin {"none", "dead"}

Deliver(t, s) == /\ exit = "none" /\ Alive(t)
                 /\ signals < MaxSignals
                 /\ \A i \in DOMAIN handler[t] : handler[t][i].sig # s
                 /\ handler' = [handler EXCEPT ![t] = <<[sig |-> s, at |-> "log"]>> \o @]
                 /\ signals' = signals + 1
                 /\ UNCHANGED <<main, net, flags, elapsed, cancellation, conn, live, store,
                                logOwner, exit>>

HandlerAt(t, p) == exit = "none" /\ handler[t] # <<>> /\ Head(handler[t]).at = p
MoveFrame(t, p) == handler' = [handler EXCEPT ![t] = <<[Head(@) EXCEPT !.at = p]>> \o Tail(@)]

HandlerLogEnter(t) == /\ HandlerAt(t, "log")
                      /\ logOwner = Nobody
                      /\ logOwner' = t
                      /\ MoveFrame(t, "logging")
                      /\ UNCHANGED <<main, net, flags, elapsed, cancellation, conn, live, store,
                                     signals, exit>>

HandlerLogged(t) == /\ HandlerAt(t, "logging")
                    /\ logOwner' = Nobody
                    /\ MoveFrame(t, "set")
                    /\ UNCHANGED <<main, net, flags, elapsed, cancellation, conn, live, store,
                                   signals, exit>>

HandlerSet(t) == /\ HandlerAt(t, "set")
                 /\ running' = FALSE
                 /\ handler' = [handler EXCEPT ![t] = Tail(@)]
                 /\ UNCHANGED <<main, net, connected, elapsed, cancellation, conn, live, store,
                                logOwner, signals, exit>>

-----------------------------------------------------------------------------
MainStep == \/ LoopStart \/ LoopFailed \/ While \/ Check \/ CheckTime
            \/ TimeoutStop \/ Sleep \/ LoopStop \/ Join \/ CleanupAndDisconnect \/ DisconnectFailed
            \/ Destroy \/ CloseDb \/ Finish

CallbackStep == \/ OnConnect \/ ConnackLogged \/ TopicLogged
                \/ SubscribeOk \/ SubscribeFails \/ SubscribeLogged
                \/ Prepare \/ PrepareFailed \/ StoreLogged \/ Step \/ StepFailed
                \/ Alert \/ AlertLogged

Environment == LinkLost \/ Reconnect \/ ThreadEnds \/ Connack \/ Message

HandlerStep(t) == HandlerLogEnter(t) \/ HandlerLogged(t) \/ HandlerSet(t)

Next == \/ MainStep \/ CallbackStep \/ Environment \/ Cancelled \/ Tick
        \/ \E t \in Threads : \/ LogEnter(t) \/ HandlerStep(t)
                              \/ \E s \in Signals : Deliver(t, s)

Spec == Init /\ [][Next]_vars

(* Threads that can run do run; a pending cancellation is acted on at one   *)
(* of the cancellation points the thread keeps passing, if it passes any;   *)
(* nobody is starved of the syslog lock; mosquitto_subscribe, which only    *)
(* queues a packet, does not fail forever on a name it accepts.  Nothing is *)
(* assumed of the broker, the link or the signals.                          *)
Fairness == /\ WF_vars(MainStep) /\ WF_vars(CallbackStep)
            /\ SF_vars(Cancelled) /\ SF_vars(SubscribeOk)
            /\ \A t \in Threads : /\ SF_vars(LogEnter(t) \/ HandlerLogEnter(t))
                                  /\ WF_vars(HandlerLogged(t) \/ HandlerSet(t))

FairSpec == Spec /\ Fairness

-----------------------------------------------------------------------------
(* Properties *)

InCallback == net \in OnConnectPoints \cup OnMessagePoints

(* While a callback may still run on the library's thread, everything it    *)
(* reaches through obj is there: main_deinitialize_program frees the topic  *)
(* list, the client and curl only after the thread has been joined, however *)
(* the stop came about.                                                     *)
CallbackOnLiveData == InCallback /\ exit = "none" => live = Resources

(* When on_connect has returned from an accepted CONNACK every topic of the *)
(* list is subscribed in the session that is up now, failed attempts and    *)
(* earlier, lost sessions notwithstanding.                                  *)
SettledSubscriptions == net = "loop" /\ link = "up" => subs = Topics

(* What the timeout decides, with the clock and the other thread running    *)
(* between the two halves of its test.  A CONNACK noted before the time is  *)
(* up is never answered with "CONNACK not received", unless it comes when   *)
(* the loop has read connected and not yet the time; and a pass of the loop *)
(* that begins after the time is the last to wait for one: from there on it *)
(* sleeps only with a CONNACK noted.                                        *)
TimeoutDecides == /\ [](connected /\ elapsed < Timeout /\ main # "check_time"
                           => [](main # "timeout_log"))
                  /\ [](main = "while" /\ elapsed >= Timeout
                           => [](main = "sleep" => connected))

(* The process crashes on its database handle only after add_msg_sqlite     *)
(* closed the connection behind data->db itself: shutdown never races the   *)
(* callbacks for it.                                                        *)
CrashOnlyOnLostDb == exit = "crash" => db = "lost"

(* A message leaves no statement and no hold of the connection's mutex to   *)
(* the next, nor to the shutdown, unless the thread was cancelled in the    *)
(* middle; and a thread that has ended, inside a signal handler even, does  *)
(* not keep the syslog lock from the other's log_event.                     *)
LeavesNothing == /\ net \in {"loop"} \cup OnConnectPoints => ~stmt /\ dbOwner = Nobody
                 /\ net = "dead" => /\ logOwner # "net"
                                    /\ stmt \/ dbOwner = "net" => cancel

(* From the join on the shutdown is alone: whatever the broker sends and    *)
(* whichever signals come, no step is one of the callbacks or undoes what   *)
(* the last of them left, and nothing is acquired again.                    *)
PastJoin == {"deinit", "disconnect_log", "destroy", "close_db", "finish_log"}
Alone == /\ main' \in PastJoin /\ live' \subseteq live
         /\ link' \in {link, "down"} /\ subs' \subseteq subs
         /\ UNCHANGED <<net, connected, tpc, stmt, dbOwner>>
ShutdownAlone == [][(main \in PastJoin) => Alone]_vars

(* A process that returns MAIN_SUCCESS was told to stop, has ended the      *)
(* callbacks, let go of everything and closed the database, unless the      *)
(* thread was cancelled while it was logging a failed INSERT: the statement *)
(* then keeps the connection open.                                          *)
CleanExit == exit = "success" =>
                /\ ~running /\ net = "dead" /\ live = {} /\ link = "down"
                /\ db = "open" => stmt

(* What the shutdown may end in: a crash with that cause, or a clean exit.  *)
EndsExplained == CrashOnlyOnLostDb /\ CleanExit

(* Three ways to hang.  A signal interrupts the thread's own log_event, or  *)
(* the handler of the other signal inside log_event: the handler waits for  *)
(* a lock its own thread holds.  Or the thread is cancelled inside          *)
(* sqlite3_step: sqlite3_close waits for a mutex nobody will release.  Or   *)
(* on_connect retries a name the library rejects and passes no cancellation *)
(* point: pthread_join waits for it for ever.                               *)
SelfDeadlock(t) == HandlerAt(t, "log") /\ logOwner = t
OrphanedMutex == net = "dead" /\ dbOwner = "net"
EndlessRetry == /\ ~SyslogCancels /\ cancel
                /\ net \in {"subscribe", "subscribe_log"} /\ tpc \in BadTopics
Hung == OrphanedMutex \/ EndlessRetry \/ \E t \in Threads : SelfDeadlock(t)

Exited == exit # "none"
StopRequested == ~running \/ \E t \in Threads : handler[t] # <<>>

(* A stop request (a signal, a refused CONNACK, the timeout) ends the       *)
(* process, whatever the broker does, even while on_connect retries a topic *)
(* that is never accepted, where syslog is a cancellation point; the only   *)
(* exceptions are the three hangs.                                          *)
StopHonoured == StopRequested ~> (Exited \/ Hung)

(* The process does not wait for a CONNACK for ever: it gets one, or ends.  *)
ConnackOrExit == <>(connected \/ Exited \/ Hung)

(* An accepted session is fully subscribed, unless the process stops or the *)
(* cursor is at a name the library rejects: on_connect never gets past it.  *)
SubscribedOrStuck == net = "topic_log" ~>
                        \/ net = "loop" \/ StopRequested
                        \/ net \in {"subscribe", "subscribe_log"} /\ tpc \in BadTopics

(* The log line of sig_handler, "Exiting", for every signal: the process    *)
(* that starts to handle a signal gives up running.                         *)
SignalStops == (\E t \in Threads : handler[t] # <<>>) ~> (~running \/ Exited)
=============================================================================
