---------------------------- MODULE DaemonProofs ----------------------------
(***************************************************************************)
(* The safety invariants of module Daemon, for every topic list, every set *)
(* of names the library rejects, every timeout and any number of signals.  *)
(***************************************************************************)
EXTENDS Daemon, TLAPS

JoinedFirst == main \in PastJoin => net = "dead"
HeldUntilJoined == main \notin PastJoin => live = Resources
NotStarted == /\ net = "none" <=> main \in {"loop_start", "start_log"}
              /\ net = "none" => link = "wait" /\ ~cancel
Settled == link = "up" /\ net \in {"loop"} \cup OnMessagePoints => subs = Topics
Cursor == net \in {"subscribe", "subscribe_log"} =>
             tpc \in Topics /\ 1..(tpc - 1) \subseteq subs
ClosedLast == db = "closed" => main = "finish_log"
LinkGone == main \in {"close_db", "finish_log"} => link = "down"
TimeIsUp == main = "timeout_log" => elapsed >= Timeout
Released == main = "finish_log" => live = {} /\ (db = "open" => stmt)
EndsThere == exit = "success" => main = "finish_log"

IInv == /\ TypeOK
        /\ JoinedFirst /\ HeldUntilJoined /\ NotStarted
        /\ Settled /\ Cursor
        /\ TimeIsUp
        /\ ClosedLast /\ CrashOnlyOnLostDb
        /\ LinkGone /\ Released /\ EndsThere

(* What the thread holds, and that the main thread stops for a reason.      *)
Told == main \in {"stop", "stop_log", "join"} \cup PastJoin => ~running
Held == /\ stmt => net \in {"step", "step_log"} \/ (net = "dead" /\ cancel)
        /\ dbOwner = "net" => net = "step" \/ (net = "dead" /\ cancel)
Ended == net \in {"none", "dead"} => handler["net"] = <<>>

(* The syslog lock is with the thread that is inside log_event, in its own  *)
(* code or in one of its handlers.                                          *)
Logging(t, k) == k \in DOMAIN handler[t] /\ handler[t][k].at = "logging"
OneLogs == \A t \in Threads, k \in Nat : Logging(t, k) =>
              /\ logOwner = t
              /\ \A j \in Nat : Logging(t, j) => j = k
LockHeld == logOwner = "net" => net \in NetLog \/ \E k \in Nat : Logging("net", k)

Holds == Told /\ Held /\ Ended /\ OneLogs /\ LockHeld
-----------------------------------------------------------------------------
(* The frames of sig_handler stay well typed when one is pushed, moved or   *)
(* popped.                                                                  *)
LEMMA HandlerTypes ==
    ASSUME handler \in [Threads -> Seq(Frame)], NEW t \in Threads
    PROVE  /\ \A s \in Signals :
                 [handler EXCEPT ![t] = <<[sig |-> s, at |-> "log"]>> \o @]
                    \in [Threads -> Seq(Frame)]
           /\ handler[t] # <<>> =>
                 /\ \A p \in {"log", "logging", "set"} :
                       [handler EXCEPT ![t] = <<[Head(@) EXCEPT !.at = p]>> \o Tail(@)]
                          \in [Threads -> Seq(Frame)]
                 /\ [handler EXCEPT ![t] = Tail(@)] \in [Threads -> Seq(Frame)]
           /\ [handler EXCEPT ![t] = <<>>] \in [Threads -> Seq(Frame)]
<1>1. handler[t] \in Seq(Frame)
  OBVIOUS
<1>2. ASSUME NEW s \in Signals
      PROVE  <<[sig |-> s, at |-> "log"]>> \o handler[t] \in Seq(Frame)
  <2>1. [sig |-> s, at |-> "log"] \in Frame
    BY DEF Frame
  <2> QED
    BY <1>1, <2>1
<1>3. ASSUME handler[t] # <<>>
      PROVE  Head(handler[t]) \in Frame /\ Tail(handler[t]) \in Seq(Frame)
  BY <1>1, <1>3
<1>4. ASSUME handler[t] # <<>>, NEW p \in {"log", "logging", "set"}
      PROVE  <<[Head(handler[t]) EXCEPT !.at = p]>> \o Tail(handler[t]) \in Seq(Frame)
  <2>1. [Head(handler[t]) EXCEPT !.at = p] \in Frame
    BY <1>3, <1>4 DEF Frame
  <2> QED
    BY <1>3, <1>4, <2>1
<1> QED
  BY <1>1, <1>2, <1>3, <1>4

(* Every step of either thread, of a handler or of the broker keeps every   *)
(* variable in its type.                                                    *)
LEMMA TypeStep == TypeOK /\ [Next]_vars => TypeOK'
<1> SUFFICES ASSUME TypeOK, [Next]_vars PROVE TypeOK'
  OBVIOUS
<1> USE DaemonAssumption
    DEF TypeOK, MainAt, NetAt, MainLogged, NetLogged, flags, cancellation, conn, store, sig
<1>1. CASE LoopStart
  BY <1>1 DEF LoopStart, MainPoints, MainLog, PollPoints, NetPoints
<1>2. CASE LoopFailed
  BY <1>2 DEF LoopFailed, Nobody
<1>3. CASE While
  BY <1>3 DEF While, MainPoints, MainLog, PollPoints
<1>4. CASE Check
  BY <1>4 DEF Check, MainPoints, MainLog, PollPoints
<1>5. CASE TimeoutStop
  BY <1>5 DEF TimeoutStop, MainPoints, MainLog, PollPoints, Nobody
<1>6. CASE Sleep
  BY <1>6 DEF Sleep, MainPoints, MainLog, PollPoints
<1>7. CASE LoopStop
  BY <1>7 DEF LoopStop, MainPoints, MainLog, PollPoints
<1>8. CASE Join
  BY <1>8 DEF Join, MainPoints, MainLog, PollPoints
<1>9. CASE CleanupAndDisconnect
  BY <1>9 DEF CleanupAndDisconnect, MainPoints, MainLog, PollPoints
<1>10. CASE DisconnectFailed
  BY <1>10 DEF DisconnectFailed, MainPoints, MainLog, PollPoints, Nobody
<1>11. CASE Destroy
  BY <1>11 DEF Destroy, MainPoints, MainLog, PollPoints
<1>12. CASE CloseDb
  BY <1>12 DEF CloseDb, MainPoints, MainLog, PollPoints, Resources
<1>13. CASE Finish
  BY <1>13 DEF Finish, Nobody
<1>14. CASE OnConnect
  BY <1>14 DEF OnConnect, NetPoints, OnConnectPoints, OnMessagePoints
<1>15. CASE ThreadEnds
  BY <1>15 DEF ThreadEnds, Polling, NetPoints
<1>16. CASE ConnackLogged
  BY <1>16 DEF ConnackLogged, NetPoints, OnConnectPoints, OnMessagePoints, Nobody
<1>17. CASE TopicLogged
  BY <1>17 DEF TopicLogged, NetPoints, OnConnectPoints, OnMessagePoints, Nobody
<1>18. CASE SubscribeOk
  BY <1>18 DEF SubscribeOk, NetPoints, OnConnectPoints, OnMessagePoints, Topics
<1>19. CASE SubscribeFails
  BY <1>19 DEF SubscribeFails, NetPoints, OnConnectPoints, OnMessagePoints
<1>20. CASE SubscribeLogged
  BY <1>20 DEF SubscribeLogged, NetPoints, OnConnectPoints, OnMessagePoints, Nobody
<1>21. CASE Prepare
  BY <1>21 DEF Prepare, NetPoints, OnConnectPoints, OnMessagePoints, Nobody
<1>22. CASE PrepareFailed
  BY <1>22 DEF PrepareFailed, NetPoints, OnConnectPoints, OnMessagePoints, Nobody
<1>23. CASE StoreLogged
  BY <1>23 DEF StoreLogged, NetPoints, OnConnectPoints, OnMessagePoints, Nobody
<1>24. CASE Step
  BY <1>24 DEF Step, NetPoints, OnConnectPoints, OnMessagePoints, Nobody
<1>25. CASE StepFailed
  BY <1>25 DEF StepFailed, NetPoints, OnConnectPoints, OnMessagePoints, Nobody
<1>26. CASE Alert
  BY <1>26 DEF Alert, NetPoints, OnConnectPoints, OnMessagePoints
<1>27. CASE AlertLogged
  BY <1>27 DEF AlertLogged, NetPoints, OnConnectPoints, OnMessagePoints, Nobody
<1>28. CASE LinkLost
  BY <1>28 DEF LinkLost, Polling
<1>29. CASE Reconnect
  BY <1>29 DEF Reconnect, Polling
<1>30. CASE Connack
  BY <1>30 DEF Connack, Polling, NetPoints, OnConnectPoints, OnMessagePoints
<1>31. CASE Message
  BY <1>31 DEF Message, Polling, NetPoints, OnConnectPoints, OnMessagePoints
<1>32. CASE Cancelled
  BY <1>32, HandlerTypes DEF Cancelled, NetPoints, Nobody, Threads
<1>33. ASSUME NEW t \in Threads, LogEnter(t) PROVE TypeOK'
  BY <1>33 DEF LogEnter
<1>34. ASSUME NEW t \in Threads, HandlerStep(t) PROVE TypeOK'
  <2>1. CASE HandlerLogEnter(t)
    BY <1>34, <2>1, HandlerTypes DEF HandlerLogEnter, HandlerAt, MoveFrame
  <2>2. CASE HandlerLogged(t)
    BY <1>34, <2>2, HandlerTypes DEF HandlerLogged, HandlerAt, MoveFrame
  <2>3. CASE HandlerSet(t)
    BY <1>34, <2>3, HandlerTypes DEF HandlerSet, HandlerAt
  <2> QED
    BY <1>34, <2>1, <2>2, <2>3 DEF HandlerStep
<1>35. ASSUME NEW t \in Threads, NEW s \in Signals, Deliver(t, s) PROVE TypeOK'
  <2>1. handler' \in [Threads -> Seq(Frame)]
    BY <1>35, HandlerTypes DEF Deliver
  <2>2. signals' \in 0..MaxSignals
    BY <1>35 DEF Deliver
  <2> QED
    BY <1>35, <2>1, <2>2 DEF Deliver
<1>36. CASE UNCHANGED vars
  BY <1>36 DEF vars
<1>37. CASE CheckTime
  BY <1>37 DEF CheckTime, MainPoints, MainLog, PollPoints
<1>38. CASE Tick
  BY <1>38 DEF Tick
<1> QED
  BY <1>1, <1>2, <1>3, <1>4, <1>5, <1>6, <1>7, <1>8, <1>9, <1>10, <1>11, <1>12,
     <1>13, <1>14, <1>15, <1>16, <1>17, <1>18, <1>19, <1>20, <1>21, <1>22, <1>23,
     <1>24, <1>25, <1>26, <1>27, <1>28, <1>29, <1>30, <1>31, <1>32, <1>33, <1>34,
     <1>35, <1>36, <1>37, <1>38
     DEF Next, MainStep, CallbackStep, Environment

(* The step of every action preserves the inductive invariant. *)
LEMMA InvStep == IInv /\ [Next]_vars => IInv'
<1> SUFFICES ASSUME IInv, [Next]_vars PROVE IInv'
  OBVIOUS
<1>0. TypeOK /\ TypeOK'
  BY TypeStep DEF IInv
<1> USE DaemonAssumption, <1>0
    DEF IInv, JoinedFirst, HeldUntilJoined, NotStarted, Settled, Cursor, TimeIsUp,
        ClosedLast, CrashOnlyOnLostDb, LinkGone, Released, EndsThere, PastJoin,
        MainAt, NetAt, MainLogged, NetLogged, flags, cancellation, conn, store, sig
<1>1. CASE LoopStart
  BY <1>1 DEF LoopStart, OnMessagePoints
<1>2. CASE LoopFailed
  BY <1>2 DEF LoopFailed
<1>3. CASE While
  BY <1>3 DEF While
<1>4. CASE Check
  BY <1>4 DEF Check
<1>5. CASE TimeoutStop
  BY <1>5 DEF TimeoutStop
<1>6. CASE Sleep
  BY <1>6 DEF Sleep, TypeOK
<1>7. CASE LoopStop
  BY <1>7 DEF LoopStop
<1>8. CASE Join
  BY <1>8 DEF Join, Joined
<1>9. CASE CleanupAndDisconnect
  BY <1>9 DEF CleanupAndDisconnect
<1>10. CASE DisconnectFailed
  BY <1>10 DEF DisconnectFailed
<1>11. CASE Destroy
  BY <1>11 DEF Destroy, TypeOK
<1>12. CASE CloseDb
  BY <1>12 DEF CloseDb, TypeOK
<1>13. CASE Finish
  BY <1>13 DEF Finish
<1>14. CASE OnConnect
  BY <1>14 DEF OnConnect, OnMessagePoints
<1>15. CASE ThreadEnds
  BY <1>15 DEF ThreadEnds, Polling, OnMessagePoints
<1>16. CASE ConnackLogged
  BY <1>16 DEF ConnackLogged, OnMessagePoints
<1>17. CASE TopicLogged
  <2>1. CASE NTopics = 0
    <3>1. subs = Topics
      BY <2>1 DEF TypeOK, Topics
    <3> QED
      BY <1>17, <2>1, <3>1 DEF TopicLogged, OnMessagePoints, Topics
  <2>2. CASE NTopics # 0
    <3>1. tpc' \in Topics /\ 1..(tpc' - 1) \subseteq subs'
      BY <1>17, <2>2 DEF TopicLogged, Topics
    <3> QED
      BY <1>17, <2>2, <3>1 DEF TopicLogged, OnMessagePoints
  <2> QED
    BY <2>1, <2>2
<1>18. CASE SubscribeOk
  <2>1. /\ tpc \in Topics /\ 1..(tpc - 1) \subseteq subs
        /\ subs' = subs \cup {tpc} /\ tpc' = tpc + 1
    BY <1>18 DEF SubscribeOk
  <2>2. 1..tpc \subseteq subs'
    BY <2>1 DEF Topics
  <2>3. CASE tpc = NTopics
    <3>1. subs' = Topics
      BY <2>1, <2>2, <2>3 DEF TypeOK, Topics
    <3> QED
      BY <1>18, <2>3, <3>1 DEF SubscribeOk, OnMessagePoints
  <2>4. CASE tpc # NTopics
    <3>1. tpc' \in Topics /\ 1..(tpc' - 1) \subseteq subs'
      BY <2>1, <2>2, <2>4 DEF Topics
    <3> QED
      BY <1>18, <2>4, <3>1 DEF SubscribeOk, OnMessagePoints
  <2> QED
    BY <2>3, <2>4
<1>19. CASE SubscribeFails
  BY <1>19 DEF SubscribeFails, OnMessagePoints
<1>20. CASE SubscribeLogged
  BY <1>20 DEF SubscribeLogged, OnMessagePoints
<1>21. CASE Prepare
  BY <1>21 DEF Prepare, OnMessagePoints, TypeOK
<1>22. CASE PrepareFailed
  BY <1>22 DEF PrepareFailed, OnMessagePoints, TypeOK
<1>23. CASE StoreLogged
  BY <1>23 DEF StoreLogged, OnMessagePoints
<1>24. CASE Step
  BY <1>24 DEF Step, OnMessagePoints
<1>25. CASE StepFailed
  BY <1>25 DEF StepFailed, OnMessagePoints
<1>26. CASE Alert
  BY <1>26 DEF Alert, OnMessagePoints
<1>27. CASE AlertLogged
  BY <1>27 DEF AlertLogged, OnMessagePoints
<1>28. CASE LinkLost
  BY <1>28 DEF LinkLost, Polling, TypeOK
<1>29. CASE Reconnect
  BY <1>29 DEF Reconnect, Polling
<1>30. CASE Connack
  BY <1>30 DEF Connack, OnMessagePoints, Polling
<1>31. CASE Message
  BY <1>31 DEF Message, OnMessagePoints, Polling
<1>32. CASE Cancelled
  BY <1>32 DEF Cancelled, OnMessagePoints
<1>33. ASSUME NEW t \in Threads, LogEnter(t) PROVE IInv'
  BY <1>33 DEF LogEnter
<1>34. ASSUME NEW t \in Threads, HandlerStep(t) PROVE IInv'
  BY <1>34 DEF HandlerStep, HandlerLogEnter, HandlerLogged, HandlerSet
<1>35. ASSUME NEW t \in Threads, NEW s \in Signals, Deliver(t, s) PROVE IInv'
  BY <1>35 DEF Deliver
<1>36. CASE UNCHANGED vars
  BY <1>36 DEF vars
<1>37. CASE CheckTime
  BY <1>37 DEF CheckTime, TimedOut, TypeOK
<1>38. CASE Tick
  BY <1>38 DEF Tick, PollPoints, TypeOK
<1> QED
  BY <1>1, <1>2, <1>3, <1>4, <1>5, <1>6, <1>7, <1>8, <1>9, <1>10, <1>11, <1>12,
     <1>13, <1>14, <1>15, <1>16, <1>17, <1>18, <1>19, <1>20, <1>21, <1>22, <1>23,
     <1>24, <1>25, <1>26, <1>27, <1>28, <1>29, <1>30, <1>31, <1>32, <1>33, <1>34,
     <1>35, <1>36, <1>37, <1>38
     DEF Next, MainStep, CallbackStep, Environment

(* main_initialize_program leaves the daemon in a state of the invariant. *)
LEMMA InitInv == Init => IInv
<1> SUFFICES ASSUME Init PROVE IInv
  OBVIOUS
<1>1. handler \in [Threads -> Seq(Frame)]
  BY DEF Init
<1>2. TypeOK
  <2>1. tpc \in 1..(NTopics + 1) /\ elapsed \in 0..(Timeout + 1) /\ signals \in 0..MaxSignals
    BY DaemonAssumption DEF Init
  <2> QED
    BY <1>1, <2>1 DEF Init, TypeOK, MainPoints, MainLog, PollPoints, NetPoints, Nobody
<1> QED
  BY <1>2 DEF Init, IInv, JoinedFirst, HeldUntilJoined, NotStarted, Settled, Cursor,
     TimeIsUp, ClosedLast, CrashOnlyOnLostDb, LinkGone, Released, EndsThere,
     PastJoin, OnMessagePoints

(* The invariant holds in every state the daemon reaches. *)
THEOREM Invariance == Spec => []IInv
BY InitInv, InvStep, PTL DEF Spec

-----------------------------------------------------------------------------
(* Every variable of the daemon keeps its type. *)
THEOREM TypeCorrect == Spec => []TypeOK
<1>1. IInv => TypeOK
  BY DEF IInv
<1> QED
  BY <1>1, Invariance, PTL

(* A callback finds everything it reaches through obj, whichever of the     *)
(* threads saw the stop: the list, the client and curl outlive the thread.  *)
THEOREM CallbackSafety == Spec => []CallbackOnLiveData
<1>1. IInv => CallbackOnLiveData
  BY DEF IInv, CallbackOnLiveData, InCallback, JoinedFirst, HeldUntilJoined,
         OnConnectPoints, OnMessagePoints
<1> QED
  BY <1>1, Invariance, PTL

(* on_connect leaves no topic of the list unsubscribed in the session that  *)
(* is up, for a list of any length.                                         *)
THEOREM SubscriptionsSettle == Spec => []SettledSubscriptions
<1>1. IInv => SettledSubscriptions
  BY DEF IInv, SettledSubscriptions, Settled
<1> QED
  BY <1>1, Invariance, PTL

(* A CONNACK noted in time is never timed out, unless it comes between the  *)
(* two halves of the test; a pass of the loop that begins after the time    *)
(* waits no more for one (TimeoutDecides).  Each half is kept by an         *)
(* invariant of the rest of the behaviour: what was read in time stays read *)
(* and keeps the loop from the clock, and time that is up stays up.         *)
NotedInTime == connected /\ main \notin {"check_time", "timeout_log"}
LastPass == elapsed >= Timeout /\ (main = "sleep" => connected)

LEMMA DecidedStep == IInv /\ [Next]_vars =>
                        (NotedInTime => NotedInTime') /\ (LastPass => LastPass')
<1> SUFFICES ASSUME IInv, [Next]_vars
             PROVE  (NotedInTime => NotedInTime') /\ (LastPass => LastPass')
  OBVIOUS
<1>1. TypeOK
  BY DEF IInv
<1> USE <1>1, DaemonAssumption
    DEF NotedInTime, LastPass, MainAt, NetAt, MainLogged, NetLogged, flags, cancellation, conn, store, sig
<1>2. CASE LoopStart \/ LoopFailed \/ While \/ Check \/ CheckTime \/ TimeoutStop
  BY <1>2 DEF LoopStart, LoopFailed, While, Check, CheckTime, TimedOut, TimeoutStop
<1>3. CASE Sleep \/ Tick
  BY <1>3 DEF Sleep, Tick, TypeOK
<1>4. CASE LoopStop \/ Join \/ CleanupAndDisconnect \/ DisconnectFailed \/ Destroy \/ CloseDb \/ Finish
  BY <1>4 DEF LoopStop, Join, CleanupAndDisconnect, DisconnectFailed, Destroy, CloseDb, Finish
<1>5. CASE CallbackStep
  BY <1>5 DEF CallbackStep, OnConnect, ConnackLogged, TopicLogged, SubscribeOk, SubscribeFails,
     SubscribeLogged, Prepare, PrepareFailed, StoreLogged, Step, StepFailed, Alert, AlertLogged
<1>6. CASE Environment \/ Cancelled
  BY <1>6 DEF Environment, LinkLost, Reconnect, ThreadEnds, Connack, Message, Polling, Cancelled
<1>7. ASSUME NEW t \in Threads, LogEnter(t) \/ HandlerStep(t) \/ \E s \in Signals : Deliver(t, s)
      PROVE  (NotedInTime => NotedInTime') /\ (LastPass => LastPass')
  <2>1. UNCHANGED <<main, connected, elapsed>>
    BY <1>7, Zenon DEF LogEnter, HandlerStep, HandlerLogEnter, HandlerLogged, HandlerSet, Deliver
  <2> QED
    BY <2>1
<1>8. CASE UNCHANGED vars
  BY <1>8 DEF vars
<1> QED
  BY <1>2, <1>3, <1>4, <1>5, <1>6, <1>7, <1>8 DEF Next, MainStep

THEOREM TimeoutIsDecided == Spec => TimeoutDecides
<1>1. /\ IInv /\ connected /\ elapsed < Timeout /\ main # "check_time" => NotedInTime
      /\ NotedInTime => main # "timeout_log"
  BY DaemonAssumption DEF IInv, TypeOK, TimeIsUp, NotedInTime
<1>2. /\ main = "while" /\ elapsed >= Timeout => LastPass
      /\ LastPass => (main = "sleep" => connected)
  BY DEF LastPass
<1> QED
  BY <1>1, <1>2, DecidedStep, Invariance, PTL DEF Spec, TimeoutDecides

-----------------------------------------------------------------------------
(* The frames of a thread when one is pushed, moved or popped. *)
LEMMA FramesStep ==
    ASSUME handler \in [Threads -> Seq(Frame)], NEW t \in Threads
    PROVE  /\ \A s \in Signals :
                 handler' = [handler EXCEPT ![t] = <<[sig |-> s, at |-> "log"]>> \o @] =>
                    /\ \A k \in Nat : Logging(t, k)' => k # 0 /\ Logging(t, k - 1)
                    /\ \A k \in Nat : Logging(t, k) => Logging(t, k + 1)'
           /\ handler[t] # <<>> =>
                 /\ handler' = [handler EXCEPT ![t] = Tail(@)] =>
                      /\ \A k \in Nat : Logging(t, k)' => Logging(t, k + 1)
                      /\ \A k \in Nat : Logging(t, k) =>
                            k = 1 \/ (k - 1 \in Nat /\ Logging(t, k - 1)')
                 /\ \A p \in {"log", "logging", "set"} : MoveFrame(t, p) =>
                      /\ Logging(t, 1)' <=> p = "logging"
                      /\ \A k \in Nat \ {1} : Logging(t, k)' <=> Logging(t, k)
           /\ \A u \in Threads : handler'[u] = handler[u] =>
                 \A k \in Nat : Logging(u, k)' <=> Logging(u, k)
<1>1. PICK f \in Seq(Frame) : f = handler[t]
  OBVIOUS
<1>2. PICK n \in Nat : n = Len(f) /\ DOMAIN f = 1..n
  BY <1>1
<1>3. ASSUME NEW s \in Signals,
             handler' = [handler EXCEPT ![t] = <<[sig |-> s, at |-> "log"]>> \o @]
      PROVE  /\ \A k \in Nat : Logging(t, k)' => k # 0 /\ Logging(t, k - 1)
             /\ \A k \in Nat : Logging(t, k) => Logging(t, k + 1)'
  <2>1. PICK g \in Frame : g = [sig |-> s, at |-> "log"]
    BY DEF Frame
  <2>2. handler'[t] = <<g>> \o f
    BY <1>1, <1>3, <2>1
  <2>3. /\ DOMAIN (<<g>> \o f) = 1..(n + 1) /\ (<<g>> \o f)[1] = g
        /\ \A k \in 1..n : (<<g>> \o f)[k + 1] = f[k]
    BY <1>2
  <2>4. \A k \in 2..(n + 1) : k - 1 \in 1..n /\ (k - 1) + 1 = k
    BY <1>2
  <2>5. \A k \in 2..(n + 1) : (<<g>> \o f)[k] = f[k - 1]
    BY <2>3, <2>4
  <2>6. \A k \in 1..(n + 1) : k = 1 \/ k \in 2..(n + 1)
    BY <1>2
  <2>7. g.at = "log"
    BY <2>1
  <2>8. ASSUME NEW k \in Nat, Logging(t, k)' PROVE k # 0 /\ Logging(t, k - 1)
    <3>1. k \in 1..(n + 1) /\ handler'[t][k].at = "logging"
      BY <2>2, <2>3, <2>8 DEF Logging
    <3>2. k \in 2..(n + 1)
      BY <2>2, <2>3, <2>6, <2>7, <3>1
    <3>3. k - 1 \in 1..n /\ f[k - 1].at = "logging"
      BY <2>2, <2>4, <2>5, <3>1, <3>2, Zenon
    <3> QED
      BY <1>1, <1>2, <3>1, <3>3 DEF Logging
  <2>9. ASSUME NEW k \in Nat, Logging(t, k) PROVE Logging(t, k + 1)'
    <3>1. k \in 1..n /\ f[k].at = "logging"
      BY <1>1, <1>2, <2>9 DEF Logging
    <3>2. k + 1 \in 1..(n + 1) /\ (<<g>> \o f)[k + 1] = f[k]
      BY <1>2, <2>3, <3>1
    <3> QED
      BY <2>2, <2>3, <3>1, <3>2, Zenon DEF Logging
  <2> QED
    BY <2>8, <2>9
<1>4. ASSUME f # <<>>, handler' = [handler EXCEPT ![t] = Tail(@)]
      PROVE  /\ \A k \in Nat : Logging(t, k)' => Logging(t, k + 1)
             /\ \A k \in Nat : Logging(t, k) => k = 1 \/ (k - 1 \in Nat /\ Logging(t, k - 1)')
  <2>1. n # 0 /\ DOMAIN Tail(f) = 1..(n - 1) /\ \A k \in 1..(n - 1) : Tail(f)[k] = f[k + 1]
    BY <1>2, <1>4
  <2>2. handler'[t] = Tail(f)
    BY <1>1, <1>4
  <2>3. ASSUME NEW k \in Nat, Logging(t, k)' PROVE Logging(t, k + 1)
    <3>1. k \in 1..(n - 1) /\ Tail(f)[k].at = "logging"
      BY <2>1, <2>2, <2>3, Zenon DEF Logging
    <3>2. k + 1 \in 1..n /\ f[k + 1].at = "logging"
      BY <1>2, <2>1, <3>1
    <3> QED
      BY <1>1, <1>2, <3>2, Zenon DEF Logging
  <2>4. ASSUME NEW k \in Nat, Logging(t, k), k # 1 PROVE k - 1 \in Nat /\ Logging(t, k - 1)'
    <3>1. k \in 1..n /\ f[k].at = "logging"
      BY <1>1, <1>2, <2>4, Zenon DEF Logging
    <3>2. k - 1 \in 1..(n - 1) /\ (k - 1) + 1 = k
      BY <1>2, <2>4, <3>1
    <3>3. Tail(f)[k - 1] = f[k]
      BY <2>1, <3>2
    <3>4. Logging(t, k - 1)'
      BY <2>1, <2>2, <3>1, <3>2, <3>3, Zenon DEF Logging
    <3> QED
      BY <3>2, <3>4
  <2> QED
    BY <2>3, <2>4
<1>5. ASSUME f # <<>>, NEW p \in {"log", "logging", "set"}, MoveFrame(t, p)
      PROVE  /\ Logging(t, 1)' <=> p = "logging"
             /\ \A k \in Nat \ {1} : Logging(t, k)' <=> Logging(t, k)
  <2>1. Head(f) \in Frame /\ Tail(f) \in Seq(Frame) /\ n # 0
        /\ Len(Tail(f)) = n - 1 /\ \A k \in 1..(n - 1) : Tail(f)[k] = f[k + 1]
    BY <1>2, <1>5
  <2>2. PICK g \in Frame : g = [Head(f) EXCEPT !.at = p]
    BY <2>1 DEF Frame
  <2>3. g.at = p
    BY <2>1, <2>2 DEF Frame
  <2>4. handler'[t] = <<g>> \o Tail(f)
    BY <1>1, <1>5, <2>2 DEF MoveFrame
  <2>5. PICK h \in Seq(Frame) : h = Tail(f)
    BY <2>1
  <2>6. /\ DOMAIN (<<g>> \o h) = 1..n /\ (<<g>> \o h)[1] = g
        /\ \A k \in 1..(n - 1) : (<<g>> \o h)[k + 1] = h[k]
    BY <1>2, <2>1, <2>5
  <2>7. ASSUME NEW k \in 2..n PROVE (<<g>> \o h)[k] = f[k]
    <3>1. k - 1 \in 1..(n - 1) /\ (k - 1) + 1 = k
      BY <1>2
    <3>2. (<<g>> \o h)[(k - 1) + 1] = h[k - 1] /\ h[k - 1] = f[(k - 1) + 1]
      BY <2>1, <2>5, <2>6, <3>1, Zenon
    <3> QED
      BY <3>1, <3>2
  <2>8. 1 \in 1..n /\ \A k \in Nat \ {1} : k \in 1..n <=> k \in 2..n
    BY <1>2, <2>1
  <2>9. Logging(t, 1)' <=> p = "logging"
    BY <2>3, <2>4, <2>5, <2>6, <2>8, Zenon DEF Logging
  <2>10. \A k \in Nat \ {1} : Logging(t, k)' <=> Logging(t, k)
    BY <1>1, <1>2, <2>4, <2>5, <2>6, <2>7, <2>8, Zenon DEF Logging
  <2> QED
    BY <2>9, <2>10
<1>6. \A u \in Threads : handler'[u] = handler[u] => \A k \in Nat : Logging(u, k)' <=> Logging(u, k)
  BY DEF Logging
<1> QED
  BY <1>1, <1>3, <1>4, <1>5, <1>6

(* What the thread holds of the database, and whether the loop was told to  *)
(* stop, at each step.                                                      *)
LEMMA HeldStep == IInv /\ Told /\ Held /\ [Next]_vars => Told' /\ Held'
<1> SUFFICES ASSUME IInv, Told, Held, [Next]_vars PROVE Told' /\ Held'
  OBVIOUS
<1>1. JoinedFirst /\ NotStarted
  BY DEF IInv
<1> USE <1>1 DEF Told, Held, JoinedFirst, NotStarted, PastJoin, MainAt, NetAt, MainLogged, NetLogged,
        flags, cancellation, conn, store, sig
<1>2. CASE MainStep
  BY <1>2 DEF MainStep, LoopStart, LoopFailed, While, Check, CheckTime, TimeoutStop, Sleep, LoopStop, Join, Joined,
     CleanupAndDisconnect, DisconnectFailed, Destroy, CloseDb, Finish
<1>3. CASE CallbackStep
  <2>1. main' = main /\ (running' => running) /\ cancel' = cancel
    <3>1. main' = main /\ cancel' = cancel
      BY <1>3 DEF CallbackStep, OnConnect, ConnackLogged, TopicLogged, SubscribeOk, SubscribeFails,
         SubscribeLogged, Prepare, PrepareFailed, StoreLogged, Step, StepFailed, Alert, AlertLogged
    <3>2. ConnackLogged \/ running' = running
      BY <1>3 DEF CallbackStep, OnConnect, TopicLogged, SubscribeOk, SubscribeFails,
         SubscribeLogged, Prepare, PrepareFailed, StoreLogged, Step, StepFailed, Alert, AlertLogged
    <3>3. ConnackLogged => (running' => running)
      <4>1. running \in BOOLEAN
        BY DEF IInv, TypeOK
      <4>2. CASE running
        BY <4>2
      <4>3. CASE running = FALSE
        BY <4>3 DEF ConnackLogged
      <4> QED
        BY <4>1, <4>2, <4>3
    <3>4. CASE running' = running
      BY <3>1, <3>4
    <3> QED
      BY <3>1, <3>2, <3>3, <3>4, Zenon
  <2>2. CASE Prepare \/ Step \/ StepFailed
    BY <2>1, <2>2 DEF Prepare, Step, StepFailed, Nobody
  <2>3. CASE ~(Prepare \/ Step \/ StepFailed)
    <3>1. stmt' = stmt /\ dbOwner' = dbOwner /\ net \notin {"step", "step_log", "dead"}
      BY <1>3, <2>3 DEF CallbackStep, OnConnect, ConnackLogged, TopicLogged, SubscribeOk, SubscribeFails,
         SubscribeLogged, PrepareFailed, StoreLogged, Alert, AlertLogged
    <3> QED
      BY <2>1, <3>1
  <2> QED
    BY <2>2, <2>3
<1>4. CASE Environment
  BY <1>4 DEF Environment, LinkLost, Reconnect, ThreadEnds, Connack, Message, Polling
<1>5. CASE Cancelled
  BY <1>5 DEF Cancelled
<1>6. ASSUME NEW t \in Threads, LogEnter(t) \/ HandlerStep(t) \/ \E s \in Signals : Deliver(t, s)
      PROVE  Told' /\ Held'
  <2>1. /\ main' = main /\ net' = net /\ cancel' = cancel /\ stmt' = stmt /\ dbOwner' = dbOwner
        /\ running' = running \/ running' = FALSE
    BY <1>6, Zenon DEF LogEnter, HandlerStep, HandlerLogEnter, HandlerLogged, HandlerSet, Deliver
  <2> QED
    BY <2>1
<1>7. CASE Tick \/ UNCHANGED vars
  BY <1>7 DEF Tick, vars
<1> QED
  BY <1>2, <1>3, <1>4, <1>5, <1>6, <1>7 DEF Next

(* A signal pushes, moves or pops a frame, and only on a thread that runs.  *)
LEMMA HandlersStep ==
    ASSUME TypeOK, Ended, OneLogs, LockHeld, NEW t \in Threads,
           HandlerStep(t) \/ \E s \in Signals : Deliver(t, s)
    PROVE  Ended' /\ OneLogs' /\ LockHeld'
<1>1. /\ handler \in [Threads -> Seq(Frame)] /\ net' = net
      /\ \A u \in Threads \ {t} : handler'[u] = handler[u]
      /\ "net" \in Threads
  BY DEF TypeOK, HandlerStep, HandlerLogEnter, HandlerLogged, HandlerSet, Deliver, MoveFrame, Threads
<1>2. \A u \in Threads \ {t}, k \in Nat : Logging(u, k)' <=> Logging(u, k)
  BY <1>1, FramesStep, Zenon
<1>3. t = "net" => net \notin {"none", "dead"}
  BY DEF HandlerStep, HandlerLogEnter, HandlerLogged, HandlerSet, HandlerAt, Deliver, Alive, Ended
<1>4. Ended'
  BY <1>1, <1>3 DEF Ended, Threads
<1>5. CASE HandlerLogEnter(t)
  <2>1. /\ handler[t] # <<>> /\ MoveFrame(t, "logging") /\ logOwner = Nobody /\ logOwner' = t
        /\ Nobody \notin Threads
    BY <1>5 DEF HandlerLogEnter, HandlerAt, Nobody, Threads
  <2>2. \A u \in Threads, k \in Nat : ~Logging(u, k)
    BY <2>1, Zenon DEF OneLogs
  <2>3. Logging(t, 1)' /\ \A k \in Nat \ {1} : ~Logging(t, k)'
    BY <1>1, <2>1, <2>2, FramesStep, Zenon
  <2>4. OneLogs'
    BY <1>2, <2>1, <2>2, <2>3, Zenon DEF OneLogs
  <2>5. LockHeld'
    BY <2>1, <2>3 DEF LockHeld
  <2> QED
    BY <1>4, <2>4, <2>5
<1>6. CASE HandlerLogged(t)
  <2>1. handler[t] # <<>> /\ Head(handler[t]).at = "logging" /\ MoveFrame(t, "set") /\ logOwner' = Nobody
    BY <1>6 DEF HandlerLogged, HandlerAt
  <2>2. Logging(t, 1)
    BY <1>1, <2>1 DEF Logging
  <2>3. logOwner = t /\ \A j \in Nat : Logging(t, j) => j = 1
    BY <2>2 DEF OneLogs
  <2>4. \A k \in Nat : ~Logging(t, k)'
    <3>1. ~Logging(t, 1)' /\ \A k \in Nat \ {1} : ~Logging(t, k)'
      BY <1>1, <2>1, <2>3, FramesStep
    <3> QED
      BY <3>1, Zenon
  <2>5. \A u \in Threads \ {t}, k \in Nat : ~Logging(u, k)'
    BY <1>2, <2>3, Zenon DEF OneLogs
  <2>6. OneLogs' /\ LockHeld'
    BY <2>1, <2>4, <2>5, Zenon DEF OneLogs, LockHeld, Nobody
  <2> QED
    BY <1>4, <2>6
<1>7. CASE HandlerSet(t)
  <2>1. /\ handler[t] # <<>> /\ Head(handler[t]).at = "set" /\ logOwner' = logOwner
        /\ handler' = [handler EXCEPT ![t] = Tail(@)]
    BY <1>7 DEF HandlerSet, HandlerAt
  <2>2. ~Logging(t, 1)
    BY <1>1, <2>1 DEF Logging
  <2>3. /\ \A k \in Nat : Logging(t, k)' => Logging(t, k + 1)
        /\ \A k \in Nat : Logging(t, k) => k - 1 \in Nat /\ Logging(t, k - 1)'
    BY <1>1, <2>1, <2>2, FramesStep, Zenon
  <2>4. OneLogs'
    <3>1. ASSUME NEW k \in Nat, NEW j \in Nat, Logging(t, k)', Logging(t, j)'
          PROVE  logOwner' = t /\ j = k
      <4>1. Logging(t, k + 1) /\ Logging(t, j + 1) /\ k + 1 \in Nat /\ j + 1 \in Nat
        BY <2>3, <3>1
      <4>2. logOwner = t /\ j + 1 = k + 1
        BY <4>1, Zenon DEF OneLogs
      <4> QED
        BY <2>1, <4>2
    <3>2. \A u \in Threads, k \in Nat : Logging(u, k)' =>
             logOwner' = u /\ \A j \in Nat : Logging(u, j)' => j = k
      BY <1>2, <2>1, <3>1, Zenon DEF OneLogs
    <3> QED
      BY <3>2 DEF OneLogs
  <2>5. LockHeld'
    <3> SUFFICES ASSUME logOwner = "net", net \notin NetLog PROVE \E k \in Nat : Logging("net", k)'
      BY <1>1, <2>1 DEF LockHeld
    <3>1. PICK k \in Nat : Logging("net", k)
      BY DEF LockHeld
    <3>2. t # "net" => Logging("net", k)'
      BY <1>1, <1>2, <3>1, Zenon
    <3>3. t = "net" => k - 1 \in Nat /\ Logging(t, k - 1)'
      BY <2>3, <3>1, Zenon
    <3>4. CASE t = "net"
      <4>1. Logging("net", k - 1)'
        BY <3>3, <3>4
      <4> QED
        BY <3>3, <3>4, <4>1, Zenon
    <3> QED
      BY <3>2, <3>4, Zenon
  <2> QED
    BY <1>4, <2>4, <2>5
<1>8. ASSUME NEW s \in Signals, Deliver(t, s) PROVE OneLogs' /\ LockHeld'
  <2>1. logOwner' = logOwner /\ handler' = [handler EXCEPT ![t] = <<[sig |-> s, at |-> "log"]>> \o @]
    BY <1>8 DEF Deliver
  <2>2. /\ \A k \in Nat : Logging(t, k)' => k # 0 /\ Logging(t, k - 1)
        /\ \A k \in Nat : Logging(t, k) => k + 1 \in Nat /\ Logging(t, k + 1)'
    <3>1. /\ \A k \in Nat : Logging(t, k)' => k # 0 /\ Logging(t, k - 1)
          /\ \A k \in Nat : Logging(t, k) => Logging(t, k + 1)'
      BY <1>1, <2>1, FramesStep, Zenon
    <3>2. \A k \in Nat : k + 1 \in Nat
      OBVIOUS
    <3> QED
      BY <3>1, <3>2, Zenon
  <2>3. OneLogs'
    <3>1. ASSUME NEW k \in Nat, NEW j \in Nat, Logging(t, k)', Logging(t, j)'
          PROVE  logOwner' = t /\ j = k
      <4>1. Logging(t, k - 1) /\ Logging(t, j - 1) /\ k - 1 \in Nat /\ j - 1 \in Nat
        BY <2>2, <3>1
      <4>2. logOwner = t /\ j - 1 = k - 1
        BY <4>1, Zenon DEF OneLogs
      <4> QED
        BY <2>1, <4>2
    <3>2. \A u \in Threads, k \in Nat : Logging(u, k)' =>
             logOwner' = u /\ \A j \in Nat : Logging(u, j)' => j = k
      BY <1>2, <2>1, <3>1, Zenon DEF OneLogs
    <3> QED
      BY <3>2 DEF OneLogs
  <2>4. LockHeld'
    <3> SUFFICES ASSUME logOwner = "net", net \notin NetLog PROVE \E k \in Nat : Logging("net", k)'
      BY <1>1, <2>1 DEF LockHeld
    <3>1. PICK k \in Nat : Logging("net", k)
      BY DEF LockHeld
    <3>2. t # "net" => Logging("net", k)'
      BY <1>1, <1>2, <3>1, Zenon
    <3>3. t = "net" => k + 1 \in Nat /\ Logging(t, k + 1)'
      BY <2>2, <3>1, Zenon
    <3>4. CASE t = "net"
      <4>1. Logging("net", k + 1)'
        BY <3>3, <3>4
      <4> QED
        BY <3>3, <3>4, <4>1, Zenon
    <3> QED
      BY <3>2, <3>4, Zenon
  <2> QED
    BY <2>3, <2>4
<1> QED
  BY <1>4, <1>5, <1>6, <1>7, <1>8 DEF HandlerStep

(* The threads' own code takes the lock for a log_event, gives it back with *)
(* it, and lets go of it when it is cancelled.                              *)
LEMMA LockStep == IInv /\ Ended /\ OneLogs /\ LockHeld /\ [Next]_vars => Ended' /\ OneLogs' /\ LockHeld'
<1> SUFFICES ASSUME IInv, Ended, OneLogs, LockHeld, [Next]_vars PROVE Ended' /\ OneLogs' /\ LockHeld'
  OBVIOUS
<1>0. TypeOK /\ NotStarted
  BY DEF IInv
<1>1. ASSUME handler' = handler, logOwner' = logOwner,
             logOwner = "net" => (net \in NetLog => net' \in NetLog), Ended'
      PROVE  Ended' /\ OneLogs' /\ LockHeld'
  BY <1>1 DEF OneLogs, LockHeld, Logging
<1>2. ASSUME handler' = handler, logOwner' = Nobody, Ended',
             NEW t \in Threads, logOwner = t, handler[t] = <<>>
      PROVE  Ended' /\ OneLogs' /\ LockHeld'
  <2>1. \A u \in Threads, k \in Nat : ~Logging(u, k)
    BY <1>2 DEF OneLogs, Logging
  <2> QED
    BY <1>2, <2>1 DEF OneLogs, LockHeld, Logging, Nobody
<1> USE DEF MainAt, NetAt, MainLogged, NetLogged, flags, cancellation, conn, store, sig
<1>3. CASE MainStep
  <2>1. handler' = handler /\ (net' = net \/ (net \notin NetLog /\ net' = "loop"))
    BY <1>0, <1>3 DEF MainStep, LoopStart, LoopFailed, While, Check, CheckTime, TimeoutStop, Sleep, LoopStop, Join,
       CleanupAndDisconnect, DisconnectFailed, Destroy, CloseDb, Finish, NetLog, NotStarted
  <2>2. Ended'
    BY <2>1 DEF Ended
  <2>3. logOwner' = logOwner \/ (logOwner' = Nobody /\ logOwner = "main" /\ handler["main"] = <<>>)
    BY <1>3 DEF MainStep, LoopStart, LoopFailed, While, Check, CheckTime, TimeoutStop, Sleep, LoopStop, Join,
       CleanupAndDisconnect, DisconnectFailed, Destroy, CloseDb, Finish
  <2> QED
    BY <1>1, <1>2, <2>1, <2>2, <2>3 DEF Threads
<1>4. CASE CallbackStep
  <2>1. handler' = handler /\ Ended'
    BY <1>4 DEF CallbackStep, OnConnect, ConnackLogged, TopicLogged, SubscribeOk, SubscribeFails,
       SubscribeLogged, Prepare, PrepareFailed, StoreLogged, Step, StepFailed, Alert, AlertLogged, Ended
  <2>2. \/ logOwner' = Nobody /\ logOwner = "net" /\ handler["net"] = <<>>
        \/ logOwner' = logOwner /\ net \notin NetLog
    BY <1>4 DEF CallbackStep, OnConnect, ConnackLogged, TopicLogged, SubscribeOk, SubscribeFails,
       SubscribeLogged, Prepare, PrepareFailed, StoreLogged, Step, StepFailed, Alert, AlertLogged, NetLog
  <2> QED
    BY <1>1, <1>2, <2>1, <2>2 DEF Threads
<1>5. CASE Environment
  <2>1. handler' = handler /\ logOwner' = logOwner /\ net = "loop" /\ handler["net"] = <<>>
    BY <1>5 DEF Environment, LinkLost, Reconnect, ThreadEnds, Connack, Message, Polling
  <2>2. Ended' /\ net \notin NetLog
    BY <2>1 DEF Ended, NetLog
  <2> QED
    BY <1>1, <2>1, <2>2
<1>6. CASE Cancelled
  <2>1. /\ handler' = [handler EXCEPT !["net"] = <<>>] /\ net' = "dead"
        /\ logOwner' = IF logOwner = "net" THEN Nobody ELSE logOwner
    BY <1>6 DEF Cancelled
  <2>2. handler'["net"] = <<>> /\ handler'["main"] = handler["main"]
    BY <1>0, <2>1 DEF TypeOK, Threads
  <2>3. /\ \A k \in Nat : ~Logging("net", k)' /\ (Logging("main", k)' <=> Logging("main", k))
        /\ \A k \in Nat : Logging("main", k) => logOwner' = "main"
    BY <2>1, <2>2 DEF Logging, OneLogs, Threads
  <2>4. OneLogs'
    BY <2>3, Zenon DEF OneLogs, Threads
  <2> QED
    BY <2>1, <2>2, <2>4 DEF Ended, LockHeld, Nobody
<1>7. ASSUME NEW t \in Threads, LogEnter(t) PROVE Ended' /\ OneLogs' /\ LockHeld'
  <2>1. /\ handler' = handler /\ net' = net /\ logOwner = Nobody /\ logOwner' = t
        /\ t = "net" => net \in NetLog
    BY <1>7 DEF LogEnter, AtLogPoint
  <2>2. \A u \in Threads, k \in Nat : ~Logging(u, k)
    BY <2>1 DEF OneLogs, Nobody, Threads
  <2> QED
    BY <2>1, <2>2 DEF Ended, OneLogs, LockHeld, Logging
<1>8. ASSUME NEW t \in Threads, HandlerStep(t) \/ \E s \in Signals : Deliver(t, s)
      PROVE  Ended' /\ OneLogs' /\ LockHeld'
  BY <1>0, <1>8, HandlersStep
<1>9. CASE Tick \/ UNCHANGED vars
  BY <1>9 DEF Tick, vars, Ended, OneLogs, LockHeld, Logging
<1> QED
  BY <1>3, <1>4, <1>5, <1>6, <1>7, <1>8, <1>9 DEF Next

LEMMA HoldsInvariant == Spec => []Holds
<1>1. Init => Holds
  BY DEF Init, Holds, Told, Held, Ended, OneLogs, LockHeld, Logging, PastJoin, Nobody, Threads
<1>2. IInv /\ Holds /\ [Next]_vars => Holds'
  BY HeldStep, LockStep, Zenon DEF Holds, IInv
<1> QED
  BY <1>1, <1>2, Invariance, PTL DEF Spec

(* Nothing of a message is held when its callback is over, and a thread     *)
(* that has ended, cancelled in a signal handler even, holds neither the    *)
(* syslog lock nor, unless it was cancelled, anything of the database       *)
(* (LeavesNothing).                                                         *)
THEOREM NothingKept == Spec => []LeavesNothing
<1>1. IInv /\ Holds => LeavesNothing
  <2> SUFFICES ASSUME IInv, Holds PROVE LeavesNothing
    OBVIOUS
  <2>1. /\ dbOwner \in {"net", Nobody} /\ Held
        /\ net = "dead" => handler["net"] = <<>> /\ net \notin NetLog
    BY DEF IInv, TypeOK, Holds, Ended, NetLog
  <2>2. net = "dead" => logOwner # "net"
    BY <2>1 DEF Holds, LockHeld, Logging
  <2> QED
    BY <2>1, <2>2 DEF LeavesNothing, Held, OnConnectPoints
<1> QED
  BY <1>1, Invariance, HoldsInvariant, PTL

(* Once the thread is joined, main_deinitialize_program runs alone, signal  *)
(* handlers apart (ShutdownAlone).                                          *)
THEOREM ShutdownRunsAlone == Spec => ShutdownAlone
<1>1. IInv /\ [Next]_vars => [(main \in PastJoin) => Alone]_vars
  <2> SUFFICES ASSUME IInv, [Next]_vars, main \in PastJoin PROVE Alone
    OBVIOUS
  <2>1. net = "dead" /\ TypeOK
    BY DEF IInv, JoinedFirst
  <2> USE <2>1 DEF Alone, PastJoin, MainAt, NetAt, MainLogged, NetLogged, flags, cancellation, conn, store, sig
  <2>2. CASE MainStep
    BY <2>2 DEF MainStep, LoopStart, LoopFailed, While, Check, CheckTime, TimeoutStop, Sleep, LoopStop, Join,
       CleanupAndDisconnect, DisconnectFailed, Destroy, CloseDb, Finish
  <2>3. ~CallbackStep
    BY DEF CallbackStep, OnConnect, ConnackLogged, TopicLogged, SubscribeOk, SubscribeFails,
       SubscribeLogged, Prepare, PrepareFailed, StoreLogged, Step, StepFailed, Alert, AlertLogged
  <2>4. ~Environment /\ ~Cancelled /\ ~Tick
    BY DEF Tick, PollPoints, Environment, LinkLost, Reconnect, ThreadEnds, Connack, Message, Polling, Cancelled
  <2>5. ASSUME NEW t \in Threads, LogEnter(t) \/ HandlerStep(t) \/ \E s \in Signals : Deliver(t, s)
        PROVE  Alone
    BY <2>5 DEF LogEnter, HandlerStep, HandlerLogEnter, HandlerLogged, HandlerSet, Deliver
  <2>6. CASE UNCHANGED vars
    BY <2>6 DEF vars
  <2> QED
    BY <2>2, <2>3, <2>4, <2>5, <2>6 DEF Next
<1> QED
  BY <1>1, Invariance, PTL DEF Spec, ShutdownAlone

(* Only add_msg_sqlite, by closing the connection behind data->db, can make *)
(* the daemon crash on it.  MAIN_SUCCESS is returned only when the process  *)
(* was told to stop, the thread has ended and everything is released; the   *)
(* database stays open only on an unfinalized statement.                    *)
THEOREM EndsAreExplained == Spec => []EndsExplained
<1>1. IInv => CrashOnlyOnLostDb
  BY DEF IInv
<1>2. IInv /\ Holds => CleanExit
  BY DEF IInv, CleanExit, EndsThere, Released, LinkGone, JoinedFirst, PastJoin, Holds, Told
<1> QED
  BY <1>1, <1>2, Invariance, HoldsInvariant, PTL DEF EndsExplained
=============================================================================
