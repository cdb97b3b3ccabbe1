----------------------- MODULE ServerLifecycleProofs -----------------------
(***************************************************************************)
(* Proofs of the safety properties of ServerLifecycle, for every finite    *)
(* set of connections and every configuration.                             *)
(***************************************************************************)
EXTENDS ServerLifecycle, FiniteSetTheorems, TLAPS

Released == {"deinit", "free", "returned"}

(***************************************************************************)
(* How the listen task's position constrains everything else: it holds at  *)
(* most one accepted stream, no task lives before the loop or after the    *)
(* group was awaited, and the resources exist exactly in between.          *)
(***************************************************************************)
ControlInv ==
  /\ listener \in {"start", "bind"} => \A c \in Conns : conn[c] = "new"
  /\ listener \in Released => \A c \in Conns : conn[c] \in {"new", "done"}
  /\ \A c \in Conns : conn[c] = "accepted" => listener = "spawn"
  /\ \A c, d \in Conns : conn[c] = "accepted" /\ conn[d] = "accepted" => c = d
  /\ socket <=> listener \notin {"start", "bind", "free", "returned"}
  /\ listener \notin {"start", "returned"} => tls_auth = Tls
  /\ drained # "no" => listener \in {"defers", "await"} \cup Released

(***************************************************************************)
(* OneLateKeepalive is not inductive: a second late keep-alive response is *)
(* impossible because, after the first one, the flag is up and whatever    *)
(* the task writes next has read it.                                       *)
(***************************************************************************)
LateInv ==
  \A c \in Conns :
    late[c] # 0 => /\ late[c] = 1
                   /\ shutting_down
                   /\ conn[c] = "write" => ~keepalive[c]

-----------------------------------------------------------------------------
\* The type invariant holds: in particular the accept backoff never leaves its
\* bounds, however many accepts fail in a row.
THEOREM TypeCorrect == Spec => []TypeOK
<1>1. ASSUME Init
      PROVE  TypeOK
  <2>1. keepalive \in [Conns -> BOOLEAN]
    BY <1>1, Zenon DEF Init
  <2>2. conn \in [Conns -> ConnAt] /\ late \in [Conns -> 0..2]
    BY <1>1 DEF Init, ConnAt
  <2>3. /\ cancel_requested \in BOOLEAN /\ exhausted \in BOOLEAN
        /\ shutting_down \in BOOLEAN /\ tls_auth \in BOOLEAN
        /\ socket \in BOOLEAN /\ group_canceled \in BOOLEAN
    BY <1>1, Zenon DEF Init
  <2>4. /\ listener \in ListenerAt
        /\ deadline \in {"unset", "none", "ahead", "passed"}
        /\ drained \in {"no", "empty", "expired"}
    BY <1>1, Zenon DEF Init, ListenerAt
  <2>5. /\ backoff_ms \in {0} \cup MinBackoff..MaxBackoff
        /\ remaining \in Int /\ active_connections \in Int
    BY <1>1, SMT DEF Init
  <2> QED
    BY <2>1, <2>2, <2>3, <2>4, <2>5, Zenon DEF TypeOK
<1>2. TypeOK /\ [Next]_vars => TypeOK'
  <2> SUFFICES ASSUME TypeOK, [Next]_vars
               PROVE  TypeOK'
    OBVIOUS
  <2> USE LifecycleAssumption DEF TypeOK, ListenerAt, ConnAt, machineVars, drainVars,
          serverVars, resourceVars, taskVars, listenVars
  <2>1. CASE Listener
    <3>1. NextBackoff \in {0} \cup MinBackoff..MaxBackoff
      BY DEF NextBackoff
    <3>2. CASE LoadAuth
      BY <3>2 DEF LoadAuth
    <3>3. CASE Bind
      <4>1. socket' \in BOOLEAN /\ listener' \in ListenerAt
        BY <3>3, Zenon DEF Bind
      <4> QED
        BY <3>3, <4>1 DEF Bind
    <3>4. CASE \E c \in Conns : SpawnTask(c) \/ SpawnFailed(c)
      BY <3>4 DEF SpawnTask, SpawnFailed
    <3>5. CASE AcceptExhausted
      BY <3>1, <3>5 DEF AcceptExhausted
    <3>6. CASE BackoffElapsed
      BY <3>6 DEF BackoffElapsed, ListenerMove
    <3>7. CASE BackoffCanceled
      BY <3>7 DEF BackoffCanceled, BeginDrain
    <3>8. CASE DrainDone \/ DrainExpired
      BY <3>8 DEF DrainDone, DrainExpired
    <3>9. CASE DrainWait
      BY <3>9 DEF DrainWait
    <3>10. CASE FutexWait \/ FutexTimeout \/ AwaitGroup
      BY <3>10 DEF FutexWait, FutexTimeout, AwaitGroup, ListenerMove
    <3>11. CASE CancelGroup \/ DeinitServer \/ FreeAuth
      BY <3>11 DEF CancelGroup, DeinitServer, FreeAuth
    <3> QED
      BY <2>1, <3>2, <3>3, <3>4, <3>5, <3>6, <3>7, <3>8, <3>9, <3>10, <3>11
         DEF Listener
  <2>2. CASE Accept
    <3>1. ASSUME NEW c \in Conns, AcceptConnection(c) \/ AcceptAborted(c)
          PROVE  TypeOK'
      BY <3>1 DEF AcceptConnection, AcceptAborted
    <3>2. CASE AcceptCanceled
      BY <3>2 DEF AcceptCanceled, BeginDrain
    <3>3. CASE AcceptFatal
      BY <3>3 DEF AcceptFatal, ListenerMove
    <3> QED
      BY <2>2, <3>1, <3>2, <3>3 DEF Accept
  <2>3. ASSUME NEW c \in Conns, Task(c)
        PROVE  TypeOK'
    <3>1. CASE StartTask(c) \/ HandshakeDone(c) \/ RequestParsed(c)
      BY <3>1 DEF StartTask, HandshakeDone, RequestParsed, Move, Serving
    <3>2. CASE \E ka \in BOOLEAN : HandlerDone(c, ka)
      BY <3>2 DEF HandlerDone, Move, Serving
    <3>3. CASE ResponseWritten(c)
      BY <3>3 DEF ResponseWritten, Move, Serving
    <3>4. CASE NextRequest(c) \/ TaskFails(c) \/ TaskCanceled(c) \/ CloseStream(c)
      BY <3>4 DEF NextRequest, TaskFails, TaskCanceled, CloseStream, Move, Serving
    <3>5. CASE ReleaseCount(c) \/ FutexWake(c)
      BY <3>5 DEF ReleaseCount, FutexWake
    <3> QED
      BY <2>3, <3>1, <3>2, <3>3, <3>4, <3>5 DEF Task
  <2>4. CASE Environment
    <3>1. CASE CancelListen
      BY <3>1 DEF CancelListen
    <3>2. CASE ResourcesChange
      BY <3>2 DEF ResourcesChange
    <3>3. CASE DeadlinePasses
      BY <3>3 DEF DeadlinePasses
    <3>4. CASE FutexSpurious
      BY <3>4 DEF FutexSpurious, ListenerMove
    <3> QED
      BY <2>4, <3>1, <3>2, <3>3, <3>4 DEF Environment
  <2>5. CASE UNCHANGED vars
    BY <2>5 DEF vars
  <2> QED
    BY <2>1, <2>2, <2>3, <2>4, <2>5 DEF Next, Finished
<1> QED
  BY <1>1, <1>2, PTL DEF Spec

-----------------------------------------------------------------------------
\* A step either leaves the set of counted connections alone, or adds or
\* removes exactly one, together with the counter.
LEMMA CountStep ==
  ASSUME TypeOK, [Next]_vars
  PROVE  \/ Counted' = Counted /\ active_connections' = active_connections
         \/ \E c \in Conns \ Counted :
              /\ Counted' = Counted \cup {c}
              /\ active_connections' = active_connections + 1
         \/ \E c \in Counted :
              /\ Counted' = Counted \ {c}
              /\ active_connections' = active_connections - 1
<1> USE DEF TypeOK, Counted, Serving, machineVars, drainVars, serverVars,
        resourceVars, taskVars, listenVars
<1>1. CASE UNCHANGED <<conn, active_connections>>
  BY <1>1
<1>2. ASSUME NEW c \in Conns, AcceptConnection(c)
      PROVE  /\ c \in Conns \ Counted
             /\ Counted' = Counted \cup {c}
             /\ active_connections' = active_connections + 1
  BY <1>2 DEF AcceptConnection
<1>3. ASSUME NEW c \in Conns, SpawnFailed(c) \/ ReleaseCount(c)
      PROVE  /\ c \in Counted
             /\ Counted' = Counted \ {c}
             /\ active_connections' = active_connections - 1
  BY <1>3 DEF SpawnFailed, ReleaseCount
<1>4. ASSUME NEW c \in Conns, SpawnTask(c) \/ AcceptAborted(c) \/ FutexWake(c)
      PROVE  Counted' = Counted /\ active_connections' = active_connections
  BY <1>4 DEF SpawnTask, AcceptAborted, FutexWake
<1>5. ASSUME NEW c \in Conns, NEW from \in Serving \cup {"spawned", "ending"},
             NEW to \in Serving \cup {"ending", "closed"}, Move(c, from, to)
      PROVE  Counted' = Counted /\ active_connections' = active_connections
  BY <1>5 DEF Move
<1>6. ASSUME NEW c \in Conns, Task(c), ~ReleaseCount(c), ~FutexWake(c)
      PROVE  Counted' = Counted /\ active_connections' = active_connections
  <2>1. \E from \in Serving \cup {"spawned", "ending"},
           to \in Serving \cup {"ending", "closed"} : Move(c, from, to)
    BY <1>6 DEF Task, StartTask, HandshakeDone, RequestParsed, HandlerDone,
                ResponseWritten, NextRequest, TaskFails, TaskCanceled,
                CloseStream
  <2> QED
    BY <2>1, <1>5
<1>7. CASE Listener /\ ~\E c \in Conns : SpawnTask(c) \/ SpawnFailed(c)
  <2>1. UNCHANGED <<conn, active_connections>>
    BY <1>7 DEF Listener, LoadAuth, Bind, AcceptExhausted, BackoffElapsed,
                BackoffCanceled, BeginDrain, DrainDone, DrainExpired, DrainWait,
                FutexWait, FutexTimeout, CancelGroup, AwaitGroup, DeinitServer,
                FreeAuth, ListenerMove
  <2> QED
    BY <2>1, <1>1
<1>8. CASE Environment \/ AcceptCanceled \/ AcceptFatal \/ UNCHANGED vars
  <2>1. UNCHANGED <<conn, active_connections>>
    BY <1>8 DEF Environment, CancelListen, ResourcesChange, DeadlinePasses,
                FutexSpurious, AcceptCanceled, AcceptFatal, BeginDrain,
                ListenerMove, vars
  <2> QED
    BY <2>1, <1>1
<1>9. CASE \E c \in Conns : Task(c)
  BY <1>9, <1>3, <1>4, <1>6
<1>10. CASE Accept
  BY <1>10, <1>2, <1>4, <1>8 DEF Accept
<1>11. CASE Listener
  BY <1>11, <1>3, <1>4, <1>7
<1> QED
  BY <1>8, <1>9, <1>10, <1>11 DEF Next, Finished

\* active_connections is the number of connections not yet given up, for any
\* number of connections: no path through a failed spawn, a failed handshake, a
\* task error or a cancel leaks a count or takes one twice.
THEOREM CountExact == Spec => []CountIsExact
<1>1. Init => CountIsExact
  <2> SUFFICES ASSUME Init
               PROVE  CountIsExact
    OBVIOUS
  <2>1. Counted = {}
    BY DEF Init, Counted, Serving
  <2> QED
    BY <2>1, FS_EmptySet DEF Init, CountIsExact
<1>2. TypeOK /\ CountIsExact /\ [Next]_vars => CountIsExact'
  <2> SUFFICES ASSUME TypeOK, CountIsExact, [Next]_vars
               PROVE  CountIsExact'
    OBVIOUS
  <2>1. IsFiniteSet(Counted)
    BY LifecycleAssumption, FS_Subset DEF Counted
  <2>2. ASSUME NEW c \in Conns \ Counted, Counted' = Counted \cup {c},
               active_connections' = active_connections + 1
        PROVE  CountIsExact'
    BY <2>1, <2>2, FS_AddElement DEF CountIsExact
  <2>3. ASSUME NEW c \in Counted, Counted' = Counted \ {c},
               active_connections' = active_connections - 1
        PROVE  CountIsExact'
    BY <2>1, <2>3, FS_RemoveElement DEF CountIsExact
  <2>4. CASE Counted' = Counted /\ active_connections' = active_connections
    BY <2>4 DEF CountIsExact
  <2> QED
    BY <2>2, <2>3, <2>4, CountStep
<1> QED
  BY <1>1, <1>2, TypeCorrect, PTL DEF Spec

-----------------------------------------------------------------------------
\* The drain's sleep is never lost: with the compare in the futex and the
\* counter lowered before the wake, a sleeping drain has its count unchanged or
\* a waker on the way.
THEOREM WakeupNotLost == Spec => []NoLostWakeup
<1>1. Init => NoLostWakeup
  BY DEF Init, NoLostWakeup
<1>2. TypeOK /\ NoLostWakeup /\ [Next]_vars => NoLostWakeup'
  <2> SUFFICES ASSUME TypeOK, NoLostWakeup, [Next]_vars, listener' = "parked"
               PROVE  \/ active_connections' = remaining'
                      \/ \E c \in Conns : conn'[c] = "waking"
    BY DEF NoLostWakeup
  <2> USE DEF TypeOK, machineVars, drainVars, serverVars, resourceVars,
          taskVars, listenVars
  <2>1. CASE Listener
    BY <2>1 DEF Listener, LoadAuth, Bind, SpawnTask, SpawnFailed,
                AcceptExhausted, BackoffElapsed, BackoffCanceled, BeginDrain,
                DrainDone, DrainExpired, DrainWait, FutexWait, FutexTimeout,
                CancelGroup, AwaitGroup, DeinitServer, FreeAuth, ListenerMove
  <2>2. CASE Accept
    BY <2>2 DEF Accept, AcceptConnection, AcceptAborted, AcceptCanceled,
                AcceptFatal, BeginDrain, ListenerMove, NoLostWakeup
  <2>3. ASSUME NEW c \in Conns, Task(c)
        PROVE  \/ active_connections' = remaining'
               \/ \E d \in Conns : conn'[d] = "waking"
    <3>1. CASE ReleaseCount(c)
      BY <3>1 DEF ReleaseCount
    <3>2. CASE FutexWake(c)
      BY <3>2 DEF FutexWake
    <3>3. ASSUME NEW from \in ConnAt \ {"waking"}, NEW to, Move(c, from, to)
          PROVE  \/ active_connections' = remaining'
                 \/ \E d \in Conns : conn'[d] = "waking"
      BY <3>3 DEF Move, NoLostWakeup
    <3>4. CASE ~ReleaseCount(c) /\ ~FutexWake(c)
      <4>1. \E from \in ConnAt \ {"waking"} : \E to : Move(c, from, to)
        BY <2>3, <3>4 DEF Task, StartTask, HandshakeDone, RequestParsed, HandlerDone,
             ResponseWritten, NextRequest, TaskFails, TaskCanceled, CloseStream,
             ConnAt, Serving
      <4> QED
        BY <4>1, <3>3
    <3> QED
      BY <3>1, <3>2, <3>4
  <2>4. CASE Environment
    BY <2>4 DEF Environment, CancelListen, ResourcesChange, DeadlinePasses,
                FutexSpurious, ListenerMove, NoLostWakeup
  <2>5. CASE UNCHANGED vars
    BY <2>5 DEF vars, NoLostWakeup
  <2> QED
    BY <2>1, <2>2, <2>3, <2>4, <2>5 DEF Next, Finished
<1> QED
  BY <1>1, <1>2, TypeCorrect, PTL DEF Spec

-----------------------------------------------------------------------------
(***************************************************************************)
(* Frames: what a step of a task, of the environment, or of the listen     *)
(* task can do to conn and to the listen task's position.                  *)
(***************************************************************************)

\* A task's step moves one live connection and, if it moves the listen task at
\* all, wakes it from its sleep.
LEMMA TaskFrame ==
  ASSUME TypeOK, NEW c \in Conns, Task(c)
  PROVE  /\ Live(c)
         /\ \E to \in ConnAt \ {"new", "accepted"} : conn' = [conn EXCEPT ![c] = to]
         /\ UNCHANGED <<drained, socket, tls_auth, shutting_down>>
         /\ listener' = listener \/ (listener = "parked" /\ listener' = "drain")
<1> USE DEF listenVars, drainVars, resourceVars, serverVars, machineVars
<1>1. CASE ReleaseCount(c)
  BY <1>1 DEF ReleaseCount, Live, ConnAt
<1>2. CASE FutexWake(c)
  BY <1>2 DEF FutexWake, Live, ConnAt
<1>3. ASSUME NEW from \in Serving \cup {"spawned", "ending"},
             NEW to \in Serving \cup {"ending", "closed"}, Move(c, from, to)
      PROVE  /\ Live(c)
             /\ to \in ConnAt \ {"new", "accepted"}
             /\ conn' = [conn EXCEPT ![c] = to]
             /\ UNCHANGED <<listener, drained, socket, tls_auth, shutting_down>>
  BY <1>3 DEF Move, Live, ConnAt, Serving
<1>4. CASE ~ReleaseCount(c) /\ ~FutexWake(c)
  <2>1. \E from \in Serving \cup {"spawned", "ending"},
           to \in Serving \cup {"ending", "closed"} : Move(c, from, to)
    BY <1>4 DEF Task, StartTask, HandshakeDone, RequestParsed, HandlerDone,
                ResponseWritten, NextRequest, TaskFails, TaskCanceled,
                CloseStream, Serving
  <2> QED
    BY <2>1, <1>3
<1> QED
  BY <1>1, <1>2, <1>4

\* ControlInv is an invariant.
LEMMA ControlCorrect == Spec => []ControlInv
<1>1. Init => ControlInv
  BY DEF Init, ControlInv, Released
<1>2. TypeOK /\ ControlInv /\ [Next]_vars => ControlInv'
  <2> SUFFICES ASSUME TypeOK, ControlInv, [Next]_vars
               PROVE  ControlInv'
    OBVIOUS
  <2> USE DEF ControlInv, Released, machineVars, drainVars, serverVars,
          resourceVars, taskVars
  <2>1. CASE LoadAuth
    BY <2>1 DEF LoadAuth, TypeOK
  <2>2. CASE Bind
    <3>1. /\ \A c \in Conns : conn'[c] = "new"
          /\ drained' = "no"
          /\ listener' \in {"accept", "free"}
          /\ tls_auth' = Tls
      BY <2>2 DEF Bind
    <3>2. (socket <=> listener \notin {"start", "bind", "free", "returned"})'
      <4>1. CASE listener' = "accept" /\ socket' = TRUE
        BY <4>1, Zenon
      <4>2. CASE listener' = "free" /\ UNCHANGED socket
        <5>1. ~socket
          BY <2>2, Zenon DEF Bind
        <5> QED
          BY <4>2, <5>1, Zenon
      <4> QED
        BY <4>1, <4>2, <2>2, Zenon DEF Bind
    <3> QED
      BY <3>1, <3>2
  <2>3. ASSUME NEW c \in Conns, AcceptConnection(c)
        PROVE  ControlInv'
    BY <2>3 DEF AcceptConnection, TypeOK
  <2>4. ASSUME NEW c \in Conns, SpawnTask(c)
        PROVE  ControlInv'
    BY <2>4 DEF SpawnTask, TypeOK
  <2>5. ASSUME NEW c \in Conns, SpawnFailed(c)
        PROVE  ControlInv'
    BY <2>5 DEF SpawnFailed, TypeOK
  <2>6. ASSUME NEW c \in Conns, AcceptAborted(c)
        PROVE  ControlInv'
    BY <2>6 DEF AcceptAborted, TypeOK
  <2>7. CASE AcceptExhausted
    BY <2>7 DEF AcceptExhausted
  <2>8. CASE BackoffElapsed \/ AcceptFatal \/ FutexWait \/ FutexTimeout \/ FutexSpurious
    BY <2>8 DEF BackoffElapsed, AcceptFatal, FutexWait, FutexTimeout,
                FutexSpurious, ListenerMove
  <2>9. CASE BackoffCanceled \/ AcceptCanceled
    BY <2>9 DEF BackoffCanceled, AcceptCanceled, BeginDrain
  <2>10. CASE DrainDone \/ DrainExpired \/ DrainWait
    BY <2>10 DEF DrainDone, DrainExpired, DrainWait
  <2>11. CASE CancelGroup
    BY <2>11 DEF CancelGroup
  <2>12. CASE AwaitGroup
    <3>1. \A c \in Conns : conn[c] \in {"new", "done"}
      BY <2>12 DEF AwaitGroup, ListenerMove, Live, TypeOK, ConnAt
    <3> QED
      BY <2>12, <3>1 DEF AwaitGroup, ListenerMove
  <2>13. CASE DeinitServer
    BY <2>13 DEF DeinitServer, TypeOK
  <2>14. CASE FreeAuth
    BY <2>14 DEF FreeAuth, TypeOK
  <2>15. CASE CancelListen \/ ResourcesChange \/ DeadlinePasses
    BY <2>15 DEF CancelListen, ResourcesChange, DeadlinePasses
  <2>16. ASSUME NEW c \in Conns, Task(c)
         PROVE  ControlInv'
    BY <2>16, TaskFrame DEF TypeOK, Live, Serving
  <2>17. CASE UNCHANGED vars
    BY <2>17 DEF vars
  <2> QED
    BY <2>1, <2>2, <2>3, <2>4, <2>5, <2>6, <2>7, <2>8, <2>9, <2>10, <2>11,
       <2>12, <2>13, <2>14, <2>15, <2>16, <2>17
       DEF Next, Listener, Accept, Environment, Finished
<1> QED
  BY <1>1, <1>2, TypeCorrect, PTL DEF Spec

\* listen never frees the certificate, closes the listener or returns while a
\* connection task still runs, in every configuration.
THEOREM TasksOutlived == Spec => []ResourcesOutliveTasks
<1>1. TypeOK /\ ControlInv => ResourcesOutliveTasks
  BY DEF TypeOK, ControlInv, Released, ResourcesOutliveTasks, Live, Serving,
         ListenerAt
<1> QED
  BY <1>1, TypeCorrect, ControlCorrect, PTL

-----------------------------------------------------------------------------
\* A drain that ended with a count of zero really saw every stream closed: the
\* exact count carries "zero" to "nobody", and nothing is accepted afterwards.
THEOREM DrainedClosed == Spec => []DrainedMeansClosed
<1>1. Init => DrainedMeansClosed
  BY DEF Init, DrainedMeansClosed
<1>2. /\ TypeOK /\ ControlInv /\ CountIsExact /\ DrainedMeansClosed
      /\ [Next]_vars
      => DrainedMeansClosed'
  <2> SUFFICES ASSUME TypeOK, ControlInv, CountIsExact, DrainedMeansClosed,
                      [Next]_vars, drained' = "empty", NEW d \in Conns
               PROVE  conn'[d] \in {"new", "waking", "done"}
    BY DEF DrainedMeansClosed
  <2> USE DEF TypeOK, machineVars, drainVars, serverVars, resourceVars, taskVars
  <2>1. CASE DrainDone
    <3>1. IsFiniteSet(Counted)
      BY LifecycleAssumption, FS_Subset DEF Counted
    <3>2. Counted = {}
      BY <2>1, <3>1, FS_EmptySet DEF DrainDone, CountIsExact
    <3> QED
      BY <2>1, <3>2 DEF DrainDone, Counted, ConnAt
  <2>2. ASSUME NEW c \in Conns, Task(c)
        PROVE  conn'[d] \in {"new", "waking", "done"}
    <3>1. drained = "empty" /\ conn[c] = "waking"
      BY <2>2, TaskFrame DEF DrainedMeansClosed, Live, Serving
    <3>2. FutexWake(c)
      BY <2>2, <3>1 DEF Task, StartTask, HandshakeDone, RequestParsed,
           HandlerDone, ResponseWritten, NextRequest, TaskFails, TaskCanceled,
           CloseStream, ReleaseCount, Move, Serving
    <3> QED
      BY <3>1, <3>2 DEF FutexWake, DrainedMeansClosed
  <2>3. CASE Accept
    BY <2>3 DEF Accept, AcceptConnection, AcceptAborted, AcceptCanceled,
                AcceptFatal, BeginDrain, ListenerMove, ControlInv, Released
  <2>4. ASSUME NEW c \in Conns, SpawnTask(c) \/ SpawnFailed(c)
        PROVE  conn'[d] \in {"new", "waking", "done"}
    BY <2>4 DEF SpawnTask, SpawnFailed, ControlInv, Released
  <2>5. CASE UNCHANGED <<conn, drained>>
    BY <2>5 DEF DrainedMeansClosed
  <2>6. CASE LoadAuth \/ Bind \/ AcceptExhausted \/ BackoffElapsed
               \/ BackoffCanceled \/ DrainWait \/ FutexWait \/ FutexTimeout
               \/ CancelGroup \/ AwaitGroup \/ DeinitServer \/ FreeAuth
               \/ Environment \/ UNCHANGED vars
    <3>1. UNCHANGED <<conn, drained>>
      BY <2>6 DEF LoadAuth, Bind, AcceptExhausted, BackoffElapsed,
           BackoffCanceled, BeginDrain, DrainWait, FutexWait, FutexTimeout,
           CancelGroup, AwaitGroup, DeinitServer, FreeAuth, Environment,
           CancelListen, ResourcesChange, DeadlinePasses, FutexSpurious,
           ListenerMove, vars
    <3> QED
      BY <3>1, <2>5
  <2>7. CASE DrainExpired
    BY <2>7 DEF DrainExpired
  <2> QED
    BY <2>1, <2>2, <2>3, <2>4, <2>6, <2>7 DEF Next, Listener, Finished
<1> QED
  BY <1>1, <1>2, TypeCorrect, ControlCorrect, CountExact, PTL DEF Spec

\* After shutting_down is set, no connection keeps alive more than one further
\* response: the one whose task had already read the flag.
THEOREM LateBounded == Spec => []OneLateKeepalive
<1>1. Init => LateInv
  BY DEF Init, LateInv
<1>2. TypeOK /\ LateInv /\ [Next]_vars => LateInv'
  <2> SUFFICES ASSUME TypeOK, LateInv, [Next]_vars, NEW d \in Conns,
                      late'[d] # 0
               PROVE  /\ late'[d] = 1
                      /\ shutting_down'
                      /\ conn'[d] = "write" => ~keepalive'[d]
    BY DEF LateInv
  <2> USE DEF TypeOK, LateInv, machineVars, drainVars, serverVars,
          resourceVars, taskVars, listenVars
  <2>1. ASSUME NEW c \in Conns, NEW ka \in BOOLEAN, HandlerDone(c, ka)
        PROVE  /\ late'[d] = 1
               /\ shutting_down'
               /\ conn'[d] = "write" => ~keepalive'[d]
    BY <2>1 DEF HandlerDone, Move
  <2>2. ASSUME NEW c \in Conns, ResponseWritten(c)
        PROVE  /\ late'[d] = 1
               /\ shutting_down'
               /\ conn'[d] = "write" => ~keepalive'[d]
    BY <2>2 DEF ResponseWritten, Move
  <2>3. ASSUME UNCHANGED <<late, keepalive>>, shutting_down => shutting_down',
               conn'[d] = "write" => conn[d] = "write"
        PROVE  /\ late'[d] = 1
               /\ shutting_down'
               /\ conn'[d] = "write" => ~keepalive'[d]
    BY <2>3
  <2>4. ASSUME NEW c \in Conns, Task(c), ~ResponseWritten(c),
               ~\E ka \in BOOLEAN : HandlerDone(c, ka)
        PROVE  /\ UNCHANGED <<late, keepalive, shutting_down>>
               /\ conn'[d] = "write" => conn[d] = "write"
    BY <2>4 DEF Task, StartTask, HandshakeDone, RequestParsed, NextRequest,
         TaskFails, TaskCanceled, CloseStream, ReleaseCount, FutexWake, Move
  <2>5. CASE Listener
    <3>1. /\ UNCHANGED <<late, keepalive>>
          /\ shutting_down => shutting_down'
          /\ conn'[d] = "write" => conn[d] = "write"
      BY <2>5 DEF Listener, LoadAuth, Bind, SpawnTask, SpawnFailed,
           AcceptExhausted, BackoffElapsed, BackoffCanceled, BeginDrain,
           DrainDone, DrainExpired, DrainWait, FutexWait, FutexTimeout,
           CancelGroup, AwaitGroup, DeinitServer, FreeAuth, ListenerMove
    <3> QED
      BY <3>1, <2>3
  <2>6. CASE Accept \/ Environment \/ UNCHANGED vars
    <3>1. /\ UNCHANGED <<late, keepalive>>
          /\ shutting_down => shutting_down'
          /\ conn'[d] = "write" => conn[d] = "write"
      BY <2>6 DEF Accept, AcceptConnection, AcceptAborted, AcceptCanceled,
           AcceptFatal, BeginDrain, Environment, CancelListen, ResourcesChange,
           DeadlinePasses, FutexSpurious, ListenerMove, vars
    <3> QED
      BY <3>1, <2>3
  <2>7. ASSUME NEW c \in Conns, Task(c)
        PROVE  /\ late'[d] = 1
               /\ shutting_down'
               /\ conn'[d] = "write" => ~keepalive'[d]
    BY <2>7, <2>1, <2>2, <2>3, <2>4
  <2> QED
    BY <2>5, <2>6, <2>7 DEF Next, Finished
<1>3. TypeOK /\ LateInv => OneLateKeepalive
  BY DEF TypeOK, LateInv, OneLateKeepalive
<1> QED
  BY <1>1, <1>2, <1>3, TypeCorrect, PTL DEF Spec
=============================================================================
