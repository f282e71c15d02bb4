------------------------------- MODULE Notify -------------------------------
(***************************************************************************)
(* Delivering events to connections on this node or on another,            *)
(* crates/webpush-server/src/notify.rs, with the receiving side of a       *)
(* forward, internal.rs.  It composes the store, whose routes say which    *)
(* node holds a connection, and the nodes' hubs.  Delivery (sessions) and  *)
(* ReceiptStream (receipt streams) are built on it.                        *)
(*                                                                         *)
(* Every await is a point where other tasks run, so each call to the store *)
(* or to a hub is a step of its own.  A connection is identified with its  *)
(* hub registration.                                                       *)
(***************************************************************************)
EXTENDS MemoryStore, Sequences

CONSTANTS
    Clustered,     \* whether the nodes are configured with [cluster]
    Events,        \* the events other than Gone
    ListenerIds,   \* connections that may coexist (or, without Revisit, occur)
    Capacity,      \* websocket.queue
    Revisit,       \* whether a client returns to a node it has left
    MaxFaults,     \* bound on crashes, failed forwards and cancelled handlers
    Gone           \* Event::Gone

ASSUME NotifyAssumption ==
    /\ Clustered \in BOOLEAN /\ Revisit \in BOOLEAN
    /\ MaxFaults \in Nat
    /\ Capacity \in Nat \ {0}
    /\ Gone \notin Events
    /\ None \notin ListenerIds \cup (Nodes \X Recipients)

VARIABLES
    slots, place, phase, queues,   \* the hubs
    newest,    \* recipient -> the last connection to have completed listen()
    tasks,     \* announcements, forwards and route cleanups under way
    faults     \* how many faults there were

Hub == INSTANCE Hub WITH
    HubNodes <- Nodes, HubTo <- Recipients, Payloads <- Events, Stuck <- {}, Vacant <- None

hubVars == <<slots, place, phase, queues>>
notifyVars == <<hubVars, newest, tasks, faults>>

NodeOf(id) == place[id][1]
RecipientOf(id) == place[id][2]

\* A task on `node` that has `events` left to announce to `to`, one after the
\* other, and is at `step` with the first of them.  `job` tells tasks apart.
IsTask(t) ==
    /\ DOMAIN t = {"job", "node", "to", "events", "step", "target"}
    /\ t.node \in Nodes /\ t.to \in Recipients
    /\ t.events \in Seq(Events \cup {Gone})
    /\ t.step \in {"notify", "route", "forward", "clear"}
    /\ t.target \in Maybe(Nodes)

Announce(job, node, to, events) ==
    [job |-> job, node |-> node, to |-> to, events |-> events,
     step |-> "notify", target |-> None]

\* Task `t` goes on to `step`, with the node it has to do with.
Goto(t, step, target) == tasks' = (tasks \ {t}) \cup {[t EXCEPT !.step = step, !.target = target]}

\* Task `t` is done with an event, and with the last one it ends.
Done(t) ==
    tasks' = (tasks \ {t}) \cup
        {Announce(t.job, t.node, t.to, rest) :
            rest \in {r \in {SubSeq(t.events, 2, Len(t.events))} : r # <<>>}}

------------------------------------------------------------------------------
(***************************************************************************)
(* App::notify and App::forward.                                           *)
(***************************************************************************)

\* The local hub comes first.  Only an absent listener sends the task on, and
\* only in a cluster.
notify_local(t) ==
    /\ t.step = "notify"
    /\ Hub!notify(t.node, t.to, Head(t.events))
    /\ IF Hub!Notified(t.node, t.to) = "Absent" /\ Clustered
       THEN Goto(t, "route", None) ELSE Done(t)
    /\ UNCHANGED <<storeVars, newest, faults>>

\* A route to this very node without a listener is left behind, and cleared.
read_route(t) ==
    LET node == routes[t.to]
    IN  /\ t.step = "route"
        /\ IF node = None THEN Done(t)
           ELSE Goto(t, IF node = t.node THEN "clear" ELSE "forward", node)
        /\ UNCHANGED <<storeVars, hubVars, newest, faults>>

\* A forward answered by internal::deliver: 404 if the target has no listener,
\* and the route is cleared.
forward(t) ==
    /\ t.step = "forward"
    /\ Hub!notify(t.target, t.to, Head(t.events))
    /\ IF Hub!Notified(t.target, t.to) = "Absent"
       THEN Goto(t, "clear", t.target) ELSE Done(t)
    /\ UNCHANGED <<storeVars, newest, faults>>

\* A forward without an answer: the target cannot be connected to, and the
\* route is cleared; or the request times out, and nothing happens.
forward_fails(t, connected) ==
    /\ faults < MaxFaults
    /\ faults' = faults + 1
    /\ t.step = "forward"
    /\ IF connected THEN Done(t) ELSE Goto(t, "clear", t.target)
    /\ UNCHANGED <<storeVars, hubVars, newest>>

\* clear_stale, and the task that a Listener's drop spawns.
clear_stale(t) ==
    /\ t.step = "clear"
    /\ clear_route(t.to, t.target)
    /\ Done(t)
    /\ UNCHANGED <<hubVars, newest, faults>>

\* The client of a request hangs up and its handler, which is announcing
\* events, is dropped at an await.  This cannot happen to a spawned task.
cancelled(t) ==
    /\ faults < MaxFaults
    /\ faults' = faults + 1
    /\ tasks' = tasks \ {t}
    /\ UNCHANGED <<storeVars, hubVars, newest>>

TaskStep(t) == notify_local(t) \/ read_route(t) \/ forward(t) \/ clear_stale(t)

------------------------------------------------------------------------------
(***************************************************************************)
(* App::listen and the end of a Listener.                                  *)
(***************************************************************************)

\* listen(), first half: this node's hub.
listen(n, to, id) ==
    /\ Revisit \/ \A other \in ListenerIds : place[other] # <<n, to>>
    /\ Hub!register(n, to, id)
    /\ newest' = IF Clustered THEN newest ELSE [newest EXCEPT ![to] = id]
    /\ UNCHANGED <<tasks, faults>>

\* A forward of Gone to `target`, spawned by connection `id`.
GoneTo(target, id) ==
    [Announce(id, NodeOf(id), RecipientOf(id), <<Gone>>) EXCEPT
        !.step = "forward", !.target = target]

\* The node to tell: the one that held the route, if it was another.
Superseded(id) == {routes[RecipientOf(id)]} \ {None, NodeOf(id)}

\* What taking over the route leaves alone, and the completion of listen().
RouteTaken(id) ==
    /\ newest' = [newest EXCEPT ![RecipientOf(id)] = id]
    /\ UNCHANGED <<hubVars, faults>>

\* Faulty: Gone goes to the node that took over.
take_route_closing_itself(id) ==
    /\ RouteTaken(id)
    /\ set_route(RecipientOf(id), NodeOf(id))
    /\ tasks' = tasks \cup {GoneTo(NodeOf(id), id) : p \in Superseded(id)}

\* Faulty: nobody tells the superseded node.
take_route_silently(id) ==
    /\ RouteTaken(id)
    /\ set_route(RecipientOf(id), NodeOf(id))
    /\ UNCHANGED tasks

\* listen(), second half, in a cluster: take over the route, and spawn a
\* forward of Gone to the node that held it.
take_route(id) ==
    /\ RouteTaken(id)
    /\ set_route(RecipientOf(id), NodeOf(id))
    /\ tasks' = tasks \cup {GoneTo(p, id) : p \in Superseded(id)}

\* The Listener is dropped.  Only one that was still registered removes its
\* node's route, in a task of its own.
drop_listener(id) ==
    /\ Hub!drop_listener(id)
    /\ tasks' = tasks \cup
          {[Announce(id, NodeOf(id), RecipientOf(id), <<>>) EXCEPT
              !.step = "clear", !.target = n] :
           n \in {x \in {NodeOf(id)} : Clustered /\ Hub!Attached(id)}}
    /\ UNCHANGED <<storeVars, newest, faults>>

------------------------------------------------------------------------------
(***************************************************************************)
(* The environment.                                                        *)
(***************************************************************************)

\* The connections that end when the process of node `n` dies.
LostWith(n) == {id \in ListenerIds : phase[id] \in {"listening", "ended"} /\ NodeOf(id) = n}

\* A process dies with its hub, its connections and its tasks, and restarts.
crash(n) ==
    /\ faults < MaxFaults
    /\ faults' = faults + 1
    /\ slots' = [slots EXCEPT ![n] = [to \in Recipients |-> None]]
    /\ phase' = [id \in ListenerIds |-> IF id \in LostWith(n) THEN "dropped" ELSE phase[id]]
    /\ queues' = [id \in ListenerIds |-> IF id \in LostWith(n) THEN <<>> ELSE queues[id]]
    /\ tasks' = {t \in tasks : t.node # n}
    /\ UNCHANGED <<storeVars, place, newest>>

\* Reuse the id of a connection that is over.
forget(id) ==
    /\ Revisit
    /\ \A t \in tasks : t.job # id
    /\ \A to \in Recipients : newest[to] # id
    /\ Hub!forget(id)
    /\ UNCHANGED <<storeVars, newest, tasks, faults>>

NotifyInit ==
    /\ routes = [to \in Recipients |-> None]
    /\ Hub!HubInit
    /\ newest = [to \in Recipients |-> None]
    /\ tasks = {}
    /\ faults = 0

\* The types of the tasks and the bookkeeping.
NotifyTypeOK ==
    /\ newest \in [Recipients -> Maybe(ListenerIds)]
    /\ \A t \in tasks : IsTask(t)
    /\ faults \in 0..MaxFaults

=============================================================================
