------------------------------- MODULE Server -------------------------------
(***************************************************************************)
(* A process from its start to its exit: the accept loop and its           *)
(* connections (transport.rs), the upgrade to a session (session.rs), the  *)
(* tasks of receipt streams and background loops, and the shutdown         *)
(* sequence that waits for them (shutdown.rs, lib.rs).  A connection       *)
(* serves one request at a time.  hyper, axum and TaskTracker are          *)
(* external.                                                               *)
(***************************************************************************)
EXTENDS Integers, FiniteSets

CONSTANTS
    Conns,            \* clients, one connection each
    Stuck,            \* clients that never finish what they began
    MaxConnections,   \* public.max_connections
    MaxRequests,      \* bound on the requests of all clients
    MaxFailures,      \* bound on the failures of accept()
    Tls               \* whether the listener speaks TLS

ASSUME ServerAssumption ==
    /\ IsFiniteSet(Conns) /\ Stuck \subseteq Conns
    /\ MaxConnections \in Nat \ {0} /\ MaxRequests \in Nat /\ MaxFailures \in Nat
    /\ Tls \in BOOLEAN

VARIABLES
    mode,        \* of Shutdown::run()
    timed_out,   \* whether run() returned without waiting to the end
    loop,        \* what the accept loop does
    permits,     \* permits left in the semaphore
    conn,        \* client -> what its connection does
    told,        \* the connections told to shut down
    session,     \* client -> its session
    pump,        \* client -> the task that writes its receipt stream
    refs,        \* client -> who shares its ConnectionPermit
    background,  \* what the background loop does
    side,        \* the tasks that listeners have spawned
    tasks,       \* the number of tasks that TaskTracker counts
    emptied,     \* whether TaskTracker has been closed and empty
    overlooked,  \* the upgrades under way when it was
    begun,       \* requests so far
    failed       \* failures of accept() so far

shutdownVars == <<mode, timed_out>>
watchVars == <<emptied, overlooked>>
loopVars == <<loop, failed>>
connVars == <<conn, told, session, pump, refs, begun>>

serverVars ==
    <<shutdownVars, watchVars, loopVars, connVars, permits, background, side, tasks>>

Exchanges == {"request", "stream", "upgrade"}

Stages == {"outside", "backlog", "handshake", "idle", "closed"} \cup Exchanges

ServerInit ==
    /\ mode = "serving" /\ timed_out = FALSE
    /\ loop = "permit" /\ failed = 0
    /\ permits = MaxConnections
    /\ conn = [c \in Conns |-> "outside"]
    /\ told = {}
    /\ session = [c \in Conns |-> "none"]
    /\ pump = [c \in Conns |-> "none"]
    /\ refs = [c \in Conns |-> {}]
    /\ background = "waiting"
    /\ side = 0
    /\ tasks = 2
    /\ emptied = FALSE /\ overlooked = {}
    /\ begun = 0

-----------------------------------------------------------------------------

Stopping == mode = "stopping"

(***************************************************************************)
(* The connection runs on a task of its own.                               *)
(***************************************************************************)
Served(c) == conn[c] \notin {"outside", "backlog", "closed"}

(***************************************************************************)
(* The last clone of a ConnectionPermit returns the permit.                *)
(***************************************************************************)
Release(c, holder) ==
    /\ refs' = [refs EXCEPT ![c] = @ \ {holder}]
    /\ permits' = IF refs[c] = {holder} THEN permits + 1 ELSE permits

ReleaseAll(c) ==
    /\ refs' = [refs EXCEPT ![c] = {}]
    /\ permits' = IF refs[c] # {} THEN permits + 1 ELSE permits

-----------------------------------------------------------------------------
(* serve() *)

(***************************************************************************)
(* External: a client connects; the kernel keeps it in its backlog.        *)
(***************************************************************************)
arrive(c) ==
    /\ conn[c] = "outside"
    /\ conn' = [conn EXCEPT ![c] = "backlog"]
    /\ UNCHANGED <<shutdownVars, loopVars, told, session, pump, refs, begun, permits, background, side, tasks>>

acquire ==
    /\ loop = "permit" /\ permits > 0
    /\ loop' = "accept"
    /\ permits' = permits - 1
    /\ UNCHANGED <<shutdownVars, failed, connVars, background, side, tasks>>

(***************************************************************************)
(* The permit goes with the connection.                                    *)
(***************************************************************************)
accept(c) ==
    /\ loop = "accept" /\ conn[c] = "backlog"
    /\ loop' = "permit"
    /\ conn' = [conn EXCEPT ![c] = IF Tls THEN "handshake" ELSE "idle"]
    /\ refs' = [refs EXCEPT ![c] = {"connection"}]
    /\ tasks' = tasks + 1
    /\ UNCHANGED <<shutdownVars, failed, told, session, pump, begun, permits, background, side>>

accept_fails ==
    /\ loop = "accept" /\ failed < MaxFailures
    /\ loop' = "backoff"
    /\ failed' = failed + 1
    /\ UNCHANGED <<shutdownVars, connVars, permits, background, side, tasks>>

(***************************************************************************)
(* Faulty: the permit is returned after the failure and again here.        *)
(***************************************************************************)
continue_twice ==
    /\ loop = "backoff"
    /\ loop' = "permit"
    /\ permits' = permits + 2
    /\ UNCHANGED <<shutdownVars, failed, connVars, background, side, tasks>>

(***************************************************************************)
(* After 50 ms the loop begins anew, and its permit is dropped.            *)
(***************************************************************************)
continue ==
    /\ loop = "backoff"
    /\ loop' = "permit"
    /\ permits' = permits + 1
    /\ UNCHANGED <<shutdownVars, failed, connVars, background, side, tasks>>

(***************************************************************************)
(* Faulty: the loop does not look at shutdown while it waits for a permit. *)
(***************************************************************************)
stop_loop_accepting ==
    /\ Stopping /\ loop = "accept"
    /\ loop' = "ended"
    /\ permits' = permits + 1
    /\ tasks' = tasks - 1
    /\ UNCHANGED <<shutdownVars, failed, connVars, background, side>>

(***************************************************************************)
(* Both waits of the loop end with shutdown.                               *)
(***************************************************************************)
stop_loop ==
    /\ Stopping /\ loop \in {"permit", "accept"}
    /\ loop' = "ended"
    /\ permits' = IF loop = "accept" THEN permits + 1 ELSE permits
    /\ tasks' = tasks - 1
    /\ UNCHANGED <<shutdownVars, failed, connVars, background, side>>

-----------------------------------------------------------------------------
(* A connection *)

handshake(c) ==
    /\ conn[c] = "handshake"
    /\ conn' = [conn EXCEPT ![c] = "idle"]
    /\ UNCHANGED <<shutdownVars, loopVars, told, session, pump, refs, begun, permits, background, side, tasks>>

(***************************************************************************)
(* The connection is closed and its task ends.                             *)
(***************************************************************************)
Close(c) ==
    /\ conn' = [conn EXCEPT ![c] = "closed"]
    /\ tasks' = tasks - 1
    /\ UNCHANGED <<shutdownVars, loopVars, told, session, pump, begun, background, side>>

(***************************************************************************)
(* The handshake fails or takes longer than handshake_timeout.             *)
(***************************************************************************)
handshake_fails(c) ==
    /\ conn[c] = "handshake"
    /\ ReleaseAll(c)
    /\ Close(c)

(***************************************************************************)
(* connection() sees the shutdown and calls graceful_shutdown().           *)
(***************************************************************************)
graceful_shutdown(c) ==
    /\ Stopping /\ c \notin told /\ Served(c) /\ conn[c] # "handshake"
    /\ told' = told \cup {c}
    /\ UNCHANGED <<shutdownVars, loopVars, conn, session, pump, refs, begun, permits, background, side, tasks>>

(***************************************************************************)
(* hyper closes a connection that was told to as soon as it is idle.       *)
(***************************************************************************)
close_idle(c) ==
    /\ conn[c] = "idle" /\ c \in told
    /\ ReleaseAll(c)
    /\ Close(c)

(***************************************************************************)
(* Faulty: the handler does not keep the permit for the session.           *)
(***************************************************************************)
upgrade_unpermitted(c) ==
    /\ conn[c] = "idle" /\ c \notin told /\ begun < MaxRequests
    /\ begun' = begun + 1
    /\ conn' = [conn EXCEPT ![c] = "upgrade"]
    /\ UNCHANGED <<shutdownVars, loopVars, told, session, pump, refs, permits, background, side, tasks>>

(***************************************************************************)
(* session::upgrade(): the session to be shares the permit.                *)
(***************************************************************************)
upgrade(c) ==
    /\ conn[c] = "idle" /\ c \notin told /\ begun < MaxRequests
    /\ begun' = begun + 1
    /\ conn' = [conn EXCEPT ![c] = "upgrade"]
    /\ refs' = [refs EXCEPT ![c] = @ \cup {"session"}]
    /\ UNCHANGED <<shutdownVars, loopVars, told, session, pump, permits, background, side, tasks>>

(***************************************************************************)
(* receipts::stream() spawns the pump that writes the response.  listen()  *)
(* may spawn a task that tells another node.                               *)
(***************************************************************************)
stream(c) ==
    /\ conn[c] = "idle" /\ c \notin told /\ begun < MaxRequests
    /\ begun' = begun + 1
    /\ conn' = [conn EXCEPT ![c] = "stream"]
    /\ pump' = [pump EXCEPT ![c] = "running"]
    /\ \E spawned \in 0..1 : side' = side + spawned /\ tasks' = tasks + 1 + spawned
    /\ UNCHANGED <<shutdownVars, loopVars, told, session, refs, permits, background>>

(***************************************************************************)
(* Any other request, and its answer.                                      *)
(***************************************************************************)
request(c) ==
    /\ conn[c] = "idle" /\ c \notin told /\ begun < MaxRequests
    /\ begun' = begun + 1
    /\ conn' = [conn EXCEPT ![c] = "request"]
    /\ UNCHANGED <<shutdownVars, loopVars, told, session, pump, refs, permits, background, side, tasks>>

answer(c) ==
    /\ conn[c] = "request" \/ (conn[c] = "stream" /\ pump[c] # "running")
    /\ conn' = [conn EXCEPT ![c] = "idle"]
    /\ UNCHANGED <<shutdownVars, loopVars, told, session, pump, refs, begun, permits, background, side, tasks>>

(***************************************************************************)
(* The 101 is written.  The connection's task ends and hands the socket to *)
(* a task of axum's, which TaskTracker does not count.                     *)
(***************************************************************************)
switch(c) ==
    /\ conn[c] = "upgrade"
    /\ Release(c, "connection")
    /\ conn' = [conn EXCEPT ![c] = "closed"]
    /\ session' = [session EXCEPT ![c] = "pending"]
    /\ tasks' = tasks - 1
    /\ UNCHANGED <<shutdownVars, loopVars, told, pump, begun, background, side>>

(***************************************************************************)
(* External: the client closes the connection, or it fails.  An upgrade    *)
(* that was not finished drops its share of the permit.                    *)
(***************************************************************************)
disconnect(c) ==
    /\ Served(c) /\ conn[c] # "handshake"
    /\ ReleaseAll(c)
    /\ Close(c)

-----------------------------------------------------------------------------
(* Sessions, receipt streams and background work *)

(***************************************************************************)
(* axum's task calls track_future().                                       *)
(***************************************************************************)
track_future(c) ==
    /\ session[c] = "pending"
    /\ session' = [session EXCEPT ![c] = "running"]
    /\ \E spawned \in 0..1 : side' = side + spawned /\ tasks' = tasks + 1 + spawned
    /\ UNCHANGED <<shutdownVars, loopVars, conn, told, pump, refs, begun, permits, background>>

(***************************************************************************)
(* Session::run() returns, at shutdown or for another reason.  Its         *)
(* listener is dropped first and may spawn a task that clears its route.   *)
(***************************************************************************)
session_ends(c) ==
    /\ session[c] = "running"
    /\ session' = [session EXCEPT ![c] = "ended"]
    /\ Release(c, "session")
    /\ \E spawned \in 0..1 : side' = side + spawned /\ tasks' = tasks - 1 + spawned
    /\ UNCHANGED <<shutdownVars, loopVars, conn, told, pump, begun, background>>

(***************************************************************************)
(* Pump::run() returns, at shutdown, when its client has gone or for       *)
(* another reason.                                                         *)
(***************************************************************************)
pump_ends(c) ==
    /\ pump[c] = "running"
    /\ pump' = [pump EXCEPT ![c] = "ended"]
    /\ \E spawned \in 0..1 : side' = side + spawned /\ tasks' = tasks - 1 + spawned
    /\ UNCHANGED <<shutdownVars, loopVars, conn, told, session, refs, begun, permits, background>>

(***************************************************************************)
(* clear_route() or a forward is done.                                     *)
(***************************************************************************)
side_done ==
    /\ side > 0
    /\ side' = side - 1
    /\ tasks' = tasks - 1
    /\ UNCHANGED <<shutdownVars, loopVars, connVars, permits, background>>

(***************************************************************************)
(* every(): the work is done, or begins when it is due.                    *)
(***************************************************************************)
work ==
    /\ background \in {"waiting", "working"}
    /\ background' = IF background = "waiting" THEN "working" ELSE "waiting"
    /\ UNCHANGED <<shutdownVars, loopVars, connVars, permits, side, tasks>>

stop_work ==
    /\ Stopping /\ background = "waiting"
    /\ background' = "ended"
    /\ tasks' = tasks - 1
    /\ UNCHANGED <<shutdownVars, loopVars, connVars, permits, side>>

-----------------------------------------------------------------------------
(* Shutdown::run() *)

drain ==
    /\ mode = "serving"
    /\ mode' = "draining"
    /\ UNCHANGED <<timed_out, loopVars, connVars, permits, background, side, tasks>>

(***************************************************************************)
(* After the drain delay the work is told to stop, and TaskTracker closed. *)
(***************************************************************************)
stop ==
    /\ mode = "draining"
    /\ mode' = "stopping"
    /\ UNCHANGED <<timed_out, loopVars, connVars, permits, background, side, tasks>>

(***************************************************************************)
(* Faulty: TaskTracker is not waited for.                                  *)
(***************************************************************************)
return_at_once ==
    /\ Stopping
    /\ mode' = "returned"
    /\ UNCHANGED <<timed_out, loopVars, connVars, permits, background, side, tasks>>

(***************************************************************************)
(* tasks.wait() is over once TaskTracker has been closed and empty.        *)
(***************************************************************************)
return ==
    /\ Stopping /\ emptied
    /\ mode' = "returned"
    /\ UNCHANGED <<timed_out, loopVars, connVars, permits, background, side, tasks>>

time_out ==
    /\ Stopping
    /\ mode' = "returned"
    /\ timed_out' = TRUE
    /\ UNCHANGED <<loopVars, connVars, permits, background, side, tasks>>

(***************************************************************************)
(* External: TaskTracker notices when it is empty.                         *)
(***************************************************************************)
Watch ==
    /\ emptied' = (emptied \/ (mode' = "stopping" /\ tasks' = 0))
    /\ overlooked' = IF emptied' /\ ~emptied THEN {c \in Conns : session'[c] = "pending"} ELSE overlooked

ServerNext ==
    /\ mode # "returned"
    /\ \/ acquire \/ accept_fails \/ continue \/ stop_loop
       \/ \E c \in Conns :
              \/ arrive(c) \/ accept(c) \/ handshake(c) \/ handshake_fails(c)
              \/ graceful_shutdown(c) \/ close_idle(c) \/ disconnect(c)
              \/ upgrade(c) \/ stream(c) \/ request(c) \/ answer(c) \/ switch(c)
              \/ track_future(c) \/ session_ends(c) \/ pump_ends(c)
       \/ side_done \/ work \/ stop_work
       \/ drain \/ stop \/ return \/ time_out
    /\ Watch

(***************************************************************************)
(* Tasks are scheduled and timers fire, but shutdown.timeout is left out:  *)
(* the question is whether shutdown can do without it.  Store calls and    *)
(* forwards end.  Clients that are not stuck read what they are sent.      *)
(***************************************************************************)
WillEnd(c) ==
    \/ handshake_fails(c) \/ graceful_shutdown(c) \/ close_idle(c) \/ track_future(c)
    \/ conn[c] = "closed" /\ pump_ends(c)
    \/ /\ c \notin Stuck
       /\ \/ answer(c) \/ switch(c)
          \/ Stopping /\ (session_ends(c) \/ pump_ends(c))

ServerFairness ==
    /\ WF_serverVars(continue /\ Watch) /\ WF_serverVars(stop_loop /\ Watch)
    /\ WF_serverVars(background = "working" /\ work /\ Watch) /\ SF_serverVars(stop_work /\ Watch)
    /\ WF_serverVars(side_done /\ Watch)
    /\ WF_serverVars(stop /\ Watch) /\ WF_serverVars(return /\ Watch)
    /\ \A c \in Conns : WF_serverVars(WillEnd(c) /\ Watch)

ServerSpec == ServerInit /\ [][ServerNext]_serverVars /\ ServerFairness

-----------------------------------------------------------------------------

(***************************************************************************)
(* The types of the process's state.                                       *)
(***************************************************************************)
ServerTypeOK ==
    /\ mode \in {"serving", "draining", "stopping", "returned"} /\ timed_out \in BOOLEAN
    /\ loop \in {"permit", "accept", "backoff", "ended"} /\ failed \in 0..MaxFailures
    /\ permits \in 0..MaxConnections
    /\ conn \in [Conns -> Stages] /\ told \subseteq Conns
    /\ session \in [Conns -> {"none", "pending", "running", "ended"}]
    /\ pump \in [Conns -> {"none", "running", "ended"}]
    /\ refs \in [Conns -> SUBSET {"connection", "session"}]
    /\ background \in {"waiting", "working", "ended"}
    /\ side \in Nat /\ tasks \in Nat /\ begun \in 0..MaxRequests
    /\ emptied \in BOOLEAN /\ overlooked \subseteq Conns

(***************************************************************************)
(* "A WebSocket session, which outlives the HTTP connection it was         *)
(* upgraded from, keeps counting against the limit until it closes": what  *)
(* the semaphore lacks is in use, by the accept loop, an open connection   *)
(* or a session, so these never exceed max_connections; and no permit is   *)
(* lost, however an accept, a handshake, an upgrade or a session ends.     *)
(***************************************************************************)
Open(c) == Served(c) \/ session[c] \in {"pending", "running"}

PermitsInUse ==
    permits + Cardinality({c \in Conns : Open(c)}) + (IF loop \in {"accept", "backoff"} THEN 1 ELSE 0)
        = MaxConnections

(***************************************************************************)
(* "Waiting for the tracker waits for all of them": when run() returns in  *)
(* time, no request, stream, session or route cleanup is cut short; but    *)
(* for the upgrades whose session nobody counted yet.                      *)
(***************************************************************************)
NothingCutShort ==
    mode = "returned" /\ ~timed_out =>
        /\ loop = "ended" /\ background = "ended"
        /\ \A c \in Conns \ overlooked :
               ~Open(c) /\ pump[c] # "running"
        /\ side > 0 => overlooked # {}

(***************************************************************************)
(* Shutdown does not depend on its timeout: once told to stop, everything  *)
(* ends, the accept loop at its limit too, but for the tasks of a client   *)
(* that does not finish its request or read what it is sent.               *)
(***************************************************************************)
OnlyStuckLeft ==
    /\ loop = "ended" /\ background = "ended" /\ side = 0
    /\ \A c \in Conns \ Stuck : ~Open(c) /\ pump[c] # "running"
    /\ \E c \in Stuck : Served(c) \/ pump[c] = "running" \/ session[c] = "running"

ShutdownDrains == Stopping ~> (mode = "returned" \/ OnlyStuckLeft)
=============================================================================
