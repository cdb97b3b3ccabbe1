-------------------------- MODULE ServerLifecycle --------------------------
(***************************************************************************)
(* The server's life: Server.listen, its accept loop, the graceful drain,  *)
(* the deferred teardown, and the connection tasks the loop spawns.        *)
(*                                                                         *)
(* The listen task and the connection tasks share two atomics of the       *)
(* Server struct: shutting_down and active_connections.  The second one is *)
(* also the futex word the drain sleeps on.  One step of this module is    *)
(* one access to that shared state (or one blocking call), so TLC explores *)
(* every order in which the tasks can make them.                           *)
(*                                                                         *)
(* A connection task is seen here from outside: what it does to the shared *)
(* state and where it can block.  RequestLoop has its inside.              *)
(***************************************************************************)
EXTENDS Integers, FiniteSets

CONSTANTS
  Conns,            \* the connections that peers may open (bounds the model)
  MinBackoff,       \* min_accept_backoff_ms
  MaxBackoff,       \* max_accept_backoff_ms
  Tls,              \* config.tls is set
  ShutdownTimeout,  \* config.timeout.shutdown is set
  TaskTimeouts      \* config.timeout.request and .keepalive are set

ASSUME LifecycleAssumption ==
  /\ IsFiniteSet(Conns)
  /\ MinBackoff \in Nat \ {0}
  /\ MaxBackoff \in Nat
  /\ MinBackoff <= MaxBackoff
  /\ Tls \in BOOLEAN
  /\ ShutdownTimeout \in BOOLEAN
  /\ TaskTimeouts \in BOOLEAN

VARIABLES
  listener,             \* where the listen task is
  cancel_requested,     \* a cancel of the listen task is armed, undelivered
  exhausted,            \* the machine has no file descriptor to accept with
  backoff_ms,           \* listen's local of the same name
  remaining,            \* drainConnections' local of the same name
  deadline,             \* the drain's deadline
  drained,              \* how the drain ended
  shutting_down,        \* Server.shutting_down
  active_connections,   \* Server.active_connections
  tls_auth,             \* Server.tls_auth holds a certificate
  socket,               \* the listening socket is open
  group_canceled,       \* group.cancel was called
  conn,                 \* where each connection (task) is
  keepalive,            \* each task's response.keepalive
  late                  \* keep-alive responses written while shutting down

machineVars == <<cancel_requested, exhausted, backoff_ms>>
drainVars == <<remaining, deadline, drained>>
serverVars == <<shutting_down, active_connections>>
resourceVars == <<tls_auth, socket, group_canceled>>
taskVars == <<conn, keepalive, late>>
vars == <<listener, machineVars, drainVars, serverVars, resourceVars, taskVars>>

(***************************************************************************)
(* listener: "start" -> "bind" -> "accept" (-> "spawn" or "backoff" and    *)
(* back) -> "drain" <-> "futex" -> "parked" -> "defers" -> "await" ->      *)
(* "deinit" -> "free" -> "returned".                                       *)
(***************************************************************************)
ListenerAt == {"start", "bind", "accept", "spawn", "backoff", "drain", "futex",
               "parked", "defers", "await", "deinit", "free", "returned"}

(***************************************************************************)
(* conn: "accepted" is a stream the listen task holds; a task exists from  *)
(* "spawned" on.  The last four are the deferred clean-up of               *)
(* handleConnection: stream still open, stream closed, counter lowered but *)
(* futex not woken yet, and gone.                                          *)
(***************************************************************************)
Serving == {"handshake", "receive", "handle", "write", "idle"}
ConnAt == {"new", "accepted", "spawned", "ending", "closed", "waking", "done"}
             \cup Serving

\* The task exists and has not finished, so group.cancel has to wait for it.
Live(c) == conn[c] \in Serving \cup {"spawned", "ending", "closed", "waking"}

\* The connections that active_connections stands for.
Counted == {c \in Conns :
              conn[c] \in Serving \cup {"accepted", "spawned", "ending", "closed"}}

Init ==
  /\ listener = "start"
  /\ cancel_requested = FALSE
  /\ exhausted = FALSE
  /\ backoff_ms = 0
  /\ remaining = 0
  /\ deadline = "unset"
  /\ drained = "no"
  /\ shutting_down = FALSE
  /\ active_connections = 0
  /\ tls_auth = FALSE
  /\ socket = FALSE
  /\ group_canceled = FALSE
  /\ conn = [c \in Conns |-> "new"]
  /\ keepalive = [c \in Conns |-> FALSE]
  /\ late = [c \in Conns |-> 0]

-----------------------------------------------------------------------------
(* Environment *)

\* Whoever runs listen cancels it; the request stays armed until delivered.
\* A further cancel may come at any time: the drain is protected from it.
CancelListen ==
  /\ listener \notin {"start", "bind", "returned"}
  /\ ~cancel_requested
  /\ cancel_requested' = TRUE
  /\ UNCHANGED <<listener, exhausted, backoff_ms, drainVars, serverVars,
                 resourceVars, taskVars>>

\* File descriptors or memory run out, and may come back.
ResourcesChange ==
  /\ exhausted' = ~exhausted
  /\ UNCHANGED <<listener, cancel_requested, backoff_ms, drainVars, serverVars,
                 resourceVars, taskVars>>

\* The clock reaches the drain's deadline.
DeadlinePasses ==
  /\ deadline = "ahead"
  /\ deadline' = "passed"
  /\ UNCHANGED <<listener, machineVars, remaining, drained, serverVars,
                 resourceVars, taskVars>>

-----------------------------------------------------------------------------
(* listen: set-up *)

\* A step of the listen task that touches nothing but its own control.
ListenerMove(from, to) ==
  /\ listener = from
  /\ listener' = to
  /\ UNCHANGED <<machineVars, drainVars, serverVars, resourceVars, taskVars>>

\* Load the certificate; a failure returns before anything else exists.
LoadAuth ==
  /\ listener = "start"
  /\ \/ listener' = "bind" /\ tls_auth' = Tls
     \/ Tls /\ listener' = "returned" /\ UNCHANGED tls_auth
  /\ UNCHANGED <<machineVars, drainVars, serverVars, socket, group_canceled,
                 taskVars>>

\* Bind and listen; a failure runs the one defer registered so far.
Bind ==
  /\ listener = "bind"
  /\ \/ listener' = "accept" /\ socket' = TRUE
     \/ listener' = "free" /\ UNCHANGED socket
  /\ UNCHANGED <<machineVars, drainVars, serverVars, tls_auth, group_canceled,
                 taskVars>>

-----------------------------------------------------------------------------
(* listen: the accept loop *)

\* Mutant: the counter is not raised for a connection about to be spawned.
AcceptConnection_Uncounted(c) ==
  /\ listener = "accept"
  /\ ~exhausted
  /\ conn[c] = "new"
  /\ backoff_ms' = 0
  /\ conn' = [conn EXCEPT ![c] = "accepted"]
  /\ listener' = "spawn"
  /\ UNCHANGED <<cancel_requested, exhausted, drainVars, serverVars,
                 resourceVars, keepalive, late>>

\* A stream is accepted: the backoff is over and the counter goes up.
AcceptConnection(c) ==
  /\ listener = "accept"
  /\ ~exhausted
  /\ conn[c] = "new"
  /\ backoff_ms' = 0
  /\ active_connections' = active_connections + 1
  /\ conn' = [conn EXCEPT ![c] = "accepted"]
  /\ listener' = "spawn"
  /\ UNCHANGED <<cancel_requested, exhausted, drainVars, shutting_down,
                 resourceVars, keepalive, late>>

\* The task is spawned into the group, and the loop goes round.
SpawnTask(c) ==
  /\ listener = "spawn"
  /\ conn[c] = "accepted"
  /\ conn' = [conn EXCEPT ![c] = "spawned"]
  /\ listener' = "accept"
  /\ UNCHANGED <<machineVars, drainVars, serverVars, resourceVars, keepalive,
                 late>>

\* Mutant: the failed spawn closes the stream and forgets the counter.
SpawnFailed_NoUndo(c) ==
  /\ listener = "spawn"
  /\ conn[c] = "accepted"
  /\ conn' = [conn EXCEPT ![c] = "done"]
  /\ listener' = "accept"
  /\ UNCHANGED <<machineVars, drainVars, serverVars, resourceVars, keepalive,
                 late>>

\* group.concurrent failed: undo the count, close the stream, go round.
SpawnFailed(c) ==
  /\ listener = "spawn"
  /\ conn[c] = "accepted"
  /\ active_connections' = active_connections - 1
  /\ conn' = [conn EXCEPT ![c] = "done"]
  /\ listener' = "accept"
  /\ UNCHANGED <<machineVars, drainVars, shutting_down, resourceVars,
                 keepalive, late>>

\* error.ConnectionAborted: the peer left between its SYN and the accept.
AcceptAborted(c) ==
  /\ listener = "accept"
  /\ ~exhausted
  /\ conn[c] = "new"
  /\ conn' = [conn EXCEPT ![c] = "done"]
  /\ UNCHANGED <<listener, machineVars, drainVars, serverVars, resourceVars,
                 keepalive, late>>

\* Mutant: the delay doubles without a cap.
NextBackoff_Uncapped ==
  IF backoff_ms = 0 THEN MinBackoff ELSE backoff_ms * 2

\* 0 becomes the minimum, anything else doubles up to the cap.
NextBackoff ==
  IF backoff_ms = 0 THEN MinBackoff
  ELSE IF backoff_ms * 2 < MaxBackoff THEN backoff_ms * 2 ELSE MaxBackoff

\* Out of descriptors or memory.  The accept completes with this result of
\* its own even when a cancel is armed, and the cancel stays armed.
AcceptExhausted ==
  /\ listener = "accept"
  /\ exhausted
  /\ backoff_ms' = NextBackoff
  /\ listener' = "backoff"
  /\ UNCHANGED <<cancel_requested, exhausted, drainVars, serverVars,
                 resourceVars, taskVars>>

\* The sleep is over before any cancel.
BackoffElapsed ==
  /\ ~cancel_requested
  /\ ListenerMove("backoff", "accept")

\* The first line of drainConnections: from here on no cancel is delivered,
\* tasks are told to stop after their response, and the deadline is fixed.
BeginDrain ==
  /\ shutting_down' = TRUE
  /\ deadline' = IF ShutdownTimeout THEN "ahead" ELSE "none"
  /\ listener' = "drain"

\* The cancel is delivered to a blocked accept.
AcceptCanceled ==
  /\ listener = "accept"
  /\ cancel_requested
  /\ ~exhausted
  /\ cancel_requested' = FALSE
  /\ BeginDrain
  /\ UNCHANGED <<exhausted, backoff_ms, remaining, drained, active_connections,
                 resourceVars, taskVars>>

\* Mutant: the cancel is re-armed and left for the next accept to report.
BackoffCanceled_Recancel ==
  /\ cancel_requested
  /\ ListenerMove("backoff", "accept")

\* The cancel is delivered to the backoff sleep, and acted on there.
BackoffCanceled ==
  /\ listener = "backoff"
  /\ cancel_requested
  /\ cancel_requested' = FALSE
  /\ BeginDrain
  /\ UNCHANGED <<exhausted, backoff_ms, remaining, drained, active_connections,
                 resourceVars, taskVars>>

\* Any other accept error leaves listen without a drain.
AcceptFatal == ListenerMove("accept", "defers")

-----------------------------------------------------------------------------
(* drainConnections: the loop *)

\* The count is zero.
DrainDone ==
  /\ listener = "drain"
  /\ active_connections = 0
  /\ drained' = "empty"
  /\ listener' = "defers"
  /\ UNCHANGED <<machineVars, remaining, deadline, serverVars, resourceVars,
                 taskVars>>

\* The deadline is behind us: the rest is left to group.cancel.
DrainExpired ==
  /\ listener = "drain"
  /\ active_connections # 0
  /\ deadline = "passed"
  /\ drained' = "expired"
  /\ listener' = "defers"
  /\ UNCHANGED <<machineVars, remaining, deadline, serverVars, resourceVars,
                 taskVars>>

\* Remember the count that was read, then call the futex with it.
DrainWait ==
  /\ listener = "drain"
  /\ active_connections # 0
  /\ deadline # "passed"
  /\ remaining' = active_connections
  /\ listener' = "futex"
  /\ UNCHANGED <<machineVars, deadline, drained, serverVars, resourceVars,
                 taskVars>>

\* Mutant: the wait does not compare the word with the count that was read.
FutexWait_NoCompare == ListenerMove("futex", "parked")

\* The futex sleeps only if the word still holds the expected value.
FutexWait ==
  ListenerMove("futex",
               IF active_connections = remaining THEN "parked" ELSE "drain")

\* The futex gives up at the deadline.
FutexTimeout ==
  /\ deadline = "passed"
  /\ ListenerMove("parked", "drain")

\* "Spurious wakeups just re-read the count."
FutexSpurious == ListenerMove("parked", "drain")

-----------------------------------------------------------------------------
(* listen: the deferred teardown, last registered first *)

CancelGroup ==
  /\ listener = "defers"
  /\ shutting_down' = TRUE
  /\ group_canceled' = TRUE
  /\ listener' = "await"
  /\ UNCHANGED <<machineVars, drainVars, active_connections, tls_auth, socket,
                 taskVars>>

\* Mutant: the tasks are canceled but not waited for.
AwaitGroup_NoWait == ListenerMove("await", "deinit")

\* group.cancel returns when every task of the group has finished.
AwaitGroup ==
  /\ \A c \in Conns : ~Live(c)
  /\ ListenerMove("await", "deinit")

DeinitServer ==
  /\ listener = "deinit"
  /\ socket' = FALSE
  /\ listener' = "free"
  /\ UNCHANGED <<machineVars, drainVars, serverVars, tls_auth, group_canceled,
                 taskVars>>

FreeAuth ==
  /\ listener = "free"
  /\ tls_auth' = FALSE
  /\ listener' = "returned"
  /\ UNCHANGED <<machineVars, drainVars, serverVars, socket, group_canceled,
                 taskVars>>

-----------------------------------------------------------------------------
(* A connection task: handleConnection and, from outside, handleRequests *)

listenVars == <<listener, machineVars, drainVars, shutting_down, resourceVars>>

\* What every step inside a task leaves alone.
Move(c, from, to) ==
  /\ conn[c] = from
  /\ conn' = [conn EXCEPT ![c] = to]
  /\ UNCHANGED <<listenVars, active_connections>>

\* The task runs and looks for a certificate.
StartTask(c) ==
  /\ Move(c, "spawned", IF tls_auth THEN "handshake" ELSE "receive")
  /\ UNCHANGED <<keepalive, late>>

HandshakeDone(c) ==
  /\ Move(c, "handshake", "receive")
  /\ UNCHANGED <<keepalive, late>>

\* A request's headers are parsed and its handler starts.
RequestParsed(c) ==
  /\ Move(c, "receive", "handle")
  /\ UNCHANGED <<keepalive, late>>

\* Mutant: the response does not look at shutting_down.
HandlerDone_IgnoresShutdown(c, ka) ==
  /\ Move(c, "handle", "write")
  /\ keepalive' = [keepalive EXCEPT ![c] = ka]
  /\ UNCHANGED late

\* The handler is done (ka: the request and the handler allow another
\* request on the connection) and shutting_down is read, before the write.
HandlerDone(c, ka) ==
  /\ Move(c, "handle", "write")
  /\ keepalive' = [keepalive EXCEPT ![c] = ka /\ ~shutting_down]
  /\ UNCHANGED late

\* The response is written; late counts the ones that keep the connection.
ResponseWritten(c) ==
  /\ Move(c, "write", IF keepalive[c] THEN "idle" ELSE "ending")
  /\ late' = [late EXCEPT ![c] = IF keepalive[c] /\ shutting_down /\ @ < 2
                                 THEN @ + 1 ELSE @]
  /\ UNCHANGED keepalive

\* The first bytes of the next request end the keep-alive wait.
NextRequest(c) ==
  /\ Move(c, "idle", "receive")
  /\ UNCHANGED <<keepalive, late>>

\* The peer closes or breaks the connection, the request or the handshake is
\* bad, or the write fails: every one of them ends the task.
TaskFails(c) ==
  /\ \E from \in Serving : Move(c, from, "ending")
  /\ UNCHANGED <<keepalive, late>>

\* error.Canceled at a blocking call: from group.cancel, or from the task's
\* own timer.
TaskCanceled(c) ==
  /\ group_canceled \/ TaskTimeouts
  /\ \E from \in Serving : Move(c, from, "ending")
  /\ UNCHANGED <<keepalive, late>>

\* Deferred clean-up, last registered first: close the stream, lower the
\* counter, wake the drain.
CloseStream(c) ==
  /\ Move(c, "ending", "closed")
  /\ UNCHANGED <<keepalive, late>>

ReleaseCount(c) ==
  /\ conn[c] = "closed"
  /\ conn' = [conn EXCEPT ![c] = "waking"]
  /\ active_connections' = active_connections - 1
  /\ UNCHANGED <<listenVars, keepalive, late>>

FutexWake(c) ==
  /\ conn[c] = "waking"
  /\ conn' = [conn EXCEPT ![c] = "done"]
  /\ listener' = IF listener = "parked" THEN "drain" ELSE listener
  /\ UNCHANGED <<machineVars, drainVars, serverVars, resourceVars, keepalive,
                 late>>

-----------------------------------------------------------------------------
Listener ==
  \/ LoadAuth \/ Bind
  \/ \E c \in Conns : SpawnTask(c) \/ SpawnFailed(c)
  \/ AcceptExhausted \/ BackoffElapsed \/ BackoffCanceled
  \/ DrainDone \/ DrainExpired \/ DrainWait \/ FutexWait \/ FutexTimeout
  \/ CancelGroup \/ AwaitGroup \/ DeinitServer \/ FreeAuth

\* The accept's outcomes, which the network or the machine decides.
Accept ==
  \/ \E c \in Conns : AcceptConnection(c) \/ AcceptAborted(c)
  \/ AcceptCanceled \/ AcceptFatal

Task(c) ==
  \/ StartTask(c) \/ HandshakeDone(c) \/ RequestParsed(c)
  \/ \E ka \in BOOLEAN : HandlerDone(c, ka)
  \/ ResponseWritten(c) \/ NextRequest(c) \/ TaskFails(c) \/ TaskCanceled(c)
  \/ CloseStream(c) \/ ReleaseCount(c) \/ FutexWake(c)

Environment == CancelListen \/ ResourcesChange \/ DeadlinePasses \/ FutexSpurious

\* listen has returned and no task is left: the server is at rest.
Finished == listener = "returned" /\ UNCHANGED vars

Next ==
  \/ Listener
  \/ Accept
  \/ \E c \in Conns : Task(c)
  \/ Environment
  \/ Finished

Spec == Init /\ [][Next]_vars

(***************************************************************************)
(* Fairness.  The runtime schedules the listen task and the tasks' own     *)
(* steps (start, clean-up), the clock advances, and a canceled task or one *)
(* whose timer fired comes out of its blocking call and ends: a handler    *)
(* that swallows error.Canceled and blocks again is the application's.     *)
(* Nothing is assumed of peers or of the machine's descriptors.  A cancel  *)
(* that is armed while accepts could block again and again is delivered in *)
(* the end (strong fairness): the accept reports a result of its own only  *)
(* when one is ready at that moment.                                       *)
(***************************************************************************)
Fairness ==
  /\ WF_vars(Listener)
  /\ WF_vars(DeadlinePasses)
  /\ SF_vars(AcceptCanceled)
  /\ \A c \in Conns :
       WF_vars(StartTask(c) \/ TaskCanceled(c) \/ CloseStream(c)
                 \/ ReleaseCount(c) \/ FutexWake(c))

FairSpec == Spec /\ Fairness

-----------------------------------------------------------------------------
(* Properties *)

TypeOK ==
  /\ listener \in ListenerAt
  /\ cancel_requested \in BOOLEAN
  /\ exhausted \in BOOLEAN
  /\ backoff_ms \in {0} \cup MinBackoff..MaxBackoff
  /\ remaining \in Int
  /\ deadline \in {"unset", "none", "ahead", "passed"}
  /\ drained \in {"no", "empty", "expired"}
  /\ shutting_down \in BOOLEAN
  /\ active_connections \in Int
  /\ tls_auth \in BOOLEAN
  /\ socket \in BOOLEAN
  /\ group_canceled \in BOOLEAN
  /\ conn \in [Conns -> ConnAt]
  /\ keepalive \in [Conns -> BOOLEAN]
  /\ late \in [Conns -> 0..2]

\* The counter the drain trusts is exactly the number of connections whose
\* stream is not yet given up: whatever mix of spawn failures, task errors and
\* cancels happened, it neither leaks (a drain that never ends) nor goes below.
CountIsExact == active_connections = Cardinality(Counted)

\* A drain asleep on the futex is never forgotten: either the count still is
\* what it went to sleep on, or some task has lowered it and is about to wake it.
NoLostWakeup ==
  listener = "parked" =>
    \/ active_connections = remaining
    \/ \E c \in Conns : conn[c] = "waking"

\* Tasks use the Server struct, the certificate and the listener's group up to
\* their last step (the futex wake), so listen must not pass the point where it
\* releases them while a task lives.
ResourcesOutliveTasks ==
  \A c \in Conns : Live(c) =>
    /\ listener \notin {"start", "bind", "deinit", "free", "returned"}
    /\ socket
    /\ tls_auth = Tls

\* A drain that reports every connection gone is right: each stream it waited
\* for has been closed, none is still being served.
DrainedMeansClosed ==
  drained = "empty" => \A c \in Conns : conn[c] \in {"new", "waking", "done"}

\* Once shutting_down is set a connection keeps alive at most one more
\* response, the one whose task had read the flag before.
OneLateKeepalive == \A c \in Conns : late[c] <= 1

\* A cancel of listen is always obeyed: whatever the machine's descriptors do
\* and however long peers stall, listen returns.
CancelLeadsToReturn ==
  (cancel_requested /\ listener \in {"accept", "spawn", "backoff"})
    ~> listener = "returned"
=============================================================================
