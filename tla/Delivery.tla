------------------------------- MODULE Delivery -------------------------------
(***************************************************************************)
(* Delivery of push messages to user agent sessions, on one node or in a   *)
(* cluster: the push handler's store_and_notify (endpoint.rs) and the      *)
(* session (session.rs), which meet in the store and through Notify.       *)
(*                                                                         *)
(* Subscriptions exist from the start and messages ask for no receipt:     *)
(* neither matters to delivery.  What it promises is Mail.                 *)
(***************************************************************************)
EXTENDS Notify

CONSTANTS
    ConnectNodes,   \* nodes whose role holds sessions
    EndpointNodes,  \* nodes whose role serves the application server API
    Batch,          \* websocket.backlog_batch
    Ttls,           \* the TTLs pushes use
    AckCodes,       \* the codes acknowledgements carry, see AckStatus
    MaxClock        \* bound on the clock

ASSUME DeliveryAssumption ==
    /\ Events = MsgIds
    /\ ConnectNodes \cup EndpointNodes = Nodes
    /\ Batch \in Nat \ {0}   \* config.rs refuses 0
    /\ Ttls \subseteq Nat /\ MaxClock \in Nat
    /\ \A now \in 0..MaxClock : now \in Times /\ \A ttl \in Ttls : now + ttl \in Times
    /\ AckCodes \subseteq {"delivered", "undeliverable", "other"}
    /\ None \notin {204, 410}   \* see AckStatus

VARIABLES
    session,   \* listener -> the state of its session
    clock,     \* now_ms
    asked      \* <<id, who>> if the last step removed message `id` because it was
               \* asked to: by its user agent, which acknowledged it, or by
               \* whoever withdrew it, None

vars == <<storeVars, notifyVars, session, clock, asked>>

\* "registered": in the hub, set_route not yet called; "reading": about to read
\* a batch of the backlog; "sending": sending what is left of that batch;
\* "serving": in the select loop.
Session == [stage : {"idle", "registered", "reading", "sending", "serving"},
            batch : SUBSET MsgIds, sent : SUBSET MsgIds, unacked : SUBSET MsgIds,
            more : BOOLEAN]

NoSession == [stage |-> "idle", batch |-> {}, sent |-> {}, unacked |-> {}, more |-> FALSE]

\* A step that removes nothing, or what expired or was replaced.
NothingAsked == asked' = {}

\* The session's task is running and its loop has not returned.
Running(id, stage) == phase[id] = "listening" /\ session[id].stage = stage

------------------------------------------------------------------------------
(***************************************************************************)
(* endpoint.rs and maintenance.rs.                                         *)
(***************************************************************************)

\* A push for a session user agent is stored, then announced.
store_and_notify(n, s, id, topic, ttl) ==
    /\ insert_message([id |-> id, uaid |-> s.uaid, channel_id |-> s.channel_id,
                       topic |-> topic, accepted |-> clock,
                       expiry |-> clock + ttl, rsub |-> None])
    /\ tasks' = tasks \cup {Announce(id, n, s.uaid, <<id>>)}
    /\ UNCHANGED <<hubVars, newest, faults, session, clock>> /\ NothingAsked

withdraw_message(id) ==
    /\ delete_message(id, None)
    /\ asked' = {<<id, None>>}
    /\ UNCHANGED <<notifyVars, session, clock>>

reap_loop ==
    /\ \E m \in messages : m.expiry <= clock
    /\ reap(clock)
    /\ UNCHANGED <<notifyVars, session, clock>> /\ NothingAsked

------------------------------------------------------------------------------
(***************************************************************************)
(* session.rs.                                                             *)
(***************************************************************************)

\* hello with a known uaid: touch it, then listen.
hello(n, u, id) ==
    /\ user_agents[u] # None
    /\ user_agents[u].bridge = None
    /\ touch_user_agent(u, clock)
    /\ listen(n, u, id)
    /\ session' = [session EXCEPT ![id].stage = IF Clustered THEN "registered" ELSE "reading"]
    /\ UNCHANGED clock /\ NothingAsked

listen_done(id) ==
    /\ Running(id, "registered")
    /\ take_route(id)
    /\ session' = [session EXCEPT ![id].stage = "reading"]
    /\ UNCHANGED clock /\ NothingAsked

\* Send a set of messages, each once per connection.
notify(s, ids) == [s EXCEPT !.sent = @ \cup ids, !.unacked = @ \cup (ids \ s.sent)]

\* Read a batch, to send those that were not sent yet.  A full batch, of `full`
\* messages, means that more may be stored; one that was all sent already makes
\* no progress.
ReadBatch(id, full) ==
    /\ Running(id, "reading")
    /\ \E b \in pending(RecipientOf(id), clock, Batch) :
          session' = [session EXCEPT ![id] =
              [@ EXCEPT
                  !.stage = IF b = {} THEN "serving" ELSE "sending",
                  !.batch = Ids(b),
                  !.more = Cardinality(b) = full /\ ~(Ids(b) \subseteq session[id].sent)]]
    /\ UNCHANGED <<storeVars, notifyVars, clock>> /\ NothingAsked

\* Faulty: no batch is ever full.
next_batch_once(id) == ReadBatch(id, Batch + 1)

next_batch(id) == ReadBatch(id, Batch)

\* With the last message of a batch the session enters its loop.
SentOne(s, m) ==
    [notify(s, {m}) EXCEPT !.batch = @ \ {m},
                           !.stage = IF s.batch = {m} THEN "serving" ELSE "sending"]

\* Send one message of the batch, whatever became of it since it was read.
send_stored(id) ==
    /\ Running(id, "sending")
    /\ \E m \in session[id].batch : session' = [session EXCEPT ![id] = SentOne(@, m)]
    /\ UNCHANGED <<storeVars, notifyVars, clock>> /\ NothingAsked

\* An event from the hub.  Gone closes the session.
hub_event(id) ==
    /\ Running(id, "serving")
    /\ Hub!recv(id)
    /\ session' = [session EXCEPT ![id] = notify(@, {Head(queues[id])} \ {Gone})]
    /\ UNCHANGED <<storeVars, newest, tasks, faults, clock>> /\ NothingAsked

\* The hub dropped the listener: close with "try again".
hub_closed(id) ==
    /\ Running(id, "serving")
    /\ Hub!recv_closed(id)
    /\ UNCHANGED <<storeVars, newest, tasks, faults, session, clock>> /\ NothingAsked

\* The receipt status of an acknowledgement; None if its code is not known and
\* the update is ignored.
AckStatus(code) == IF code = "delivered" THEN 204
                   ELSE IF code = "undeliverable" THEN 410 ELSE None

\* Faulty: any user agent may acknowledge it.
Settle_of_anyone(id, m, code) ==
    IF AckStatus(code) # None /\ \E x \in messages : x.id = m
    THEN delete_message(m, None) /\ asked' = {<<m, RecipientOf(id)>>}
    ELSE UNCHANGED storeVars /\ NothingAsked

\* What an acknowledgement does to the store.  A message that is gone by now,
\* replaced, expired or withdrawn, is ignored, and so is an unknown code.
Settle(id, m, code) ==
    LET held == {x \in messages : x.id = m /\ x.uaid = RecipientOf(id)}
    IN  IF AckStatus(code) # None /\ held # {}
        THEN /\ \E x \in held : delete_message(m, <<x.uaid, x.channel_id>>)
             /\ asked' = {<<m, RecipientOf(id)>>}
        ELSE UNCHANGED storeVars /\ NothingAsked

\* The client acknowledges a message, also one that an earlier session was
\* sent.  Once everything sent is acknowledged, and if there may be more, the
\* session goes on to `next`.
Acknowledged(id, m, code, next) ==
    LET left == session[id].unacked \ {m}
    IN  /\ Running(id, "serving")
        /\ session' = [session EXCEPT
              ![id].unacked = left,
              ![id].stage = IF left = {} /\ session[id].more THEN next ELSE @]
        /\ Settle(id, m, code)
        /\ UNCHANGED <<notifyVars, clock>>

\* Faulty: the rest of the backlog is forgotten.
ack_without_next(id, m, code) == Acknowledged(id, m, code, "serving")

ack(id, m, code) == Acknowledged(id, m, code, "reading")

\* The client left, was idle too long, the session's lifetime is over, an
\* error, or shutdown.
session_ends(id) ==
    /\ Hub!leave(id)
    /\ UNCHANGED <<storeVars, newest, tasks, faults, session, clock>> /\ NothingAsked

\* Session::run returns and its Listener is dropped.
drop_session(id) ==
    /\ drop_listener(id)
    /\ session' = [session EXCEPT ![id] = NoSession]
    /\ UNCHANGED clock /\ NothingAsked

\* A process dies and restarts; see Notify.
crash_session_node(n) ==
    /\ crash(n)
    /\ session' = [id \in ListenerIds |-> IF id \in LostWith(n) THEN NoSession ELSE session[id]]
    /\ UNCHANGED clock /\ NothingAsked

tick ==
    /\ clock < MaxClock
    /\ clock' = clock + 1
    /\ UNCHANGED <<storeVars, notifyVars, session>> /\ NothingAsked

------------------------------------------------------------------------------
\* One registered user agent with one subscription, nobody connected.
DeliveryInit ==
    /\ user_agents = [u \in Uaids |-> [bridge |-> None, last_seen |-> 0]]
    /\ \E s \in Subscription :
          /\ channels = {s}
          /\ granted = {s}
          /\ push = [p \in PushIds |-> IF p = s.push THEN <<s.uaid, s.channel_id>> ELSE None]
    /\ messages = {}
    /\ topics = [s \in Slots |-> None]
    /\ receipt_subs = {} /\ receipts = {} /\ settled = {} /\ returned = {}
    /\ last_seq = 0
    /\ issued = Uaids
    /\ NotifyInit
    /\ session = [id \in ListenerIds |-> NoSession]
    /\ clock = 0
    /\ asked = {}

PushSteps ==
    \/ \E n \in EndpointNodes, s \in channels, id \in MsgIds,
          topic \in Maybe(Topics), ttl \in Ttls : store_and_notify(n, s, id, topic, ttl)
    \/ \E id \in MsgIds : withdraw_message(id)
    \/ reap_loop

\* Tasks do not touch the sessions.
TaskSteps ==
    /\ \/ \E t \in tasks : notify_local(t)
       \/ \E t \in tasks : read_route(t)
       \/ \E t \in tasks : forward(t)
       \/ \E t \in tasks : clear_stale(t)
    /\ UNCHANGED <<session, clock>> /\ NothingAsked

\* The steps of a session's task; its stage allows one of them at a time.
SessionStep(id) ==
    \/ listen_done(id)
    \/ next_batch(id)
    \/ send_stored(id)
    \/ hub_event(id)
    \/ hub_closed(id)
    \/ drop_session(id)

SessionSteps == \E id \in ListenerIds : SessionStep(id)

ClientSteps ==
    \/ \E n \in ConnectNodes, u \in Uaids, id \in ListenerIds : hello(n, u, id)
    \/ \E id \in ListenerIds, m \in MsgIds, code \in AckCodes : ack(id, m, code)
    \/ \E id \in ListenerIds : session_ends(id)

TaskFaults ==
    /\ \/ \E t \in tasks, connected \in BOOLEAN : forward_fails(t, connected)
       \/ \E t \in tasks : t.job \in MsgIds /\ cancelled(t)
    /\ UNCHANGED <<session, clock>> /\ NothingAsked

DeliveryNext ==
    \/ PushSteps
    \/ TaskSteps
    \/ SessionSteps
    \/ ClientSteps
    \/ TaskFaults
    \/ \E n \in Nodes : crash_session_node(n)
    \/ tick
    \/ \E id \in ListenerIds : forget(id) /\ UNCHANGED <<session, clock>> /\ NothingAsked

DeliverySpec == DeliveryInit /\ [][DeliveryNext]_vars

\* The runtime polls every task, and a forward ends: it is answered or times
\* out after cluster.notify_timeout.
ServerFairness ==
    /\ \A job \in MsgIds \cup ListenerIds :
          WF_vars(/\ \E t \in tasks : t.job = job /\ TaskStep(t)
                  /\ UNCHANGED <<session, clock>> /\ NothingAsked)
    /\ \A id \in ListenerIds : WF_vars(SessionStep(id))

\* A client acknowledges what it is sent for as long as it stays connected.
ClientFairness ==
    \A id \in ListenerIds :
        WF_vars(\E m \in session[id].unacked : ack(id, m, "delivered"))

FairDeliverySpec == DeliverySpec /\ ServerFairness /\ ClientFairness

------------------------------------------------------------------------------
(***************************************************************************)
(* Properties.                                                             *)
(***************************************************************************)

\* The types of the sessions, tasks and bookkeeping.
DeliveryTypeOK ==
    /\ NotifyTypeOK
    /\ session \in [ListenerIds -> Session]
    /\ clock \in 0..MaxClock
    /\ asked \subseteq MsgIds \X (Uaids \cup {None})

\* The session that completed listen() last is in its loop and still
\* registered, no other is in the middle of listen(), and nothing has failed:
\* the session that a push should reach.
Current(id) ==
    /\ faults = 0
    /\ Running(id, "serving")
    /\ newest[RecipientOf(id)] = id
    /\ Hub!Attached(id)
    /\ \A other \in ListenerIds : ~Running(other, "registered")

\* A task that will still try to hand message `m` to session `id`.
OnItsWay(m, id) ==
    \E t \in tasks : /\ t.events = <<m>>
                     /\ \/ t.step \in {"notify", "route"}
                        \/ t.step = "forward" /\ t.target = NodeOf(id)

\* "Every message is either in that backlog or forwarded to the new node": a
\* stored message that has not expired has been sent to the current session,
\* is queued for it or on its way to it, or is in the part of the backlog that
\* the session has yet to read.
NothingMissed ==
    \A id \in ListenerIds : Current(id) /\ ~session[id].more =>
        \A m \in Unexpired(RecipientOf(id), clock) :
            \/ m.id \in session[id].sent
            \/ \E i \in 1..Len(queues[id]) : queues[id][i] = m.id
            \/ OnItsWay(m.id, id)

\* "A stale cleanup never removes a newer route": the route leads to the
\* current session as long as it is registered.
RouteKept ==
    \A id \in ListenerIds : Clustered /\ Current(id) => routes[RecipientOf(id)] = NodeOf(id)

\* A session is told that it was replaced only if it was: the current one
\* never finds Gone in its channel.
NewestNotReplaced ==
    \A id \in ListenerIds : Current(id) =>
        \A i \in 1..Len(queues[id]) : queues[id][i] # Gone

\* A session that may have more of its backlog to read waits for an
\* acknowledgement: the one after which it reads on.
AsksForMore ==
    \A id \in ListenerIds :
        session[id].stage = "serving" /\ session[id].more => session[id].unacked # {}

\* The current session is served: it misses nothing, does not stop in the middle
\* of its backlog and is not told to go.
DeliveryInv == DeliveryTypeOK /\ NothingMissed /\ AsksForMore /\ NewestNotReplaced

\* "A failed forward loses nothing: the session reads it from storage on its
\* next connect".  A session that begins while a message is stored ends, or
\* gets the message acknowledged (or it expires, or is withdrawn or replaced),
\* one batch after the other, whatever crashed or was lost before.
Redelivered ==
    \A id \in ListenerIds, mid \in MsgIds :
        (Running(id, "reading") /\ mid \in Ids(Unexpired(RecipientOf(id), clock)))
        ~> (phase[id] # "listening" \/ mid \notin Ids(Unexpired(RecipientOf(id), clock)))

\* "A new hello for a uaid closes the older connection", on this node or on
\* another: a session that is no longer the newest ends, unless a fault lost
\* the Gone it is sent.
OlderSessionsEnd ==
    \A id \in ListenerIds :
        (/\ phase[id] = "listening"
         /\ session[id].stage \in {"reading", "serving"}
         /\ newest[RecipientOf(id)] # id)
        ~> (phase[id] # "listening" \/ newest[RecipientOf(id)] = id \/ faults > 0)

\* What the older and the newer session of a user agent can count on.
SessionsServed == Redelivered /\ OlderSessionsEnd

\* Delivery as Mail sees it: what is under way to the connections of a user
\* agent, in tasks, in the channels of connections and in the batches they read;
\* whose each open connection is; and what it was sent.
UnderWay ==
    {p \in MsgIds \X Uaids :
        \/ \E t \in tasks : t.to = p[2] /\ \E i \in 1..Len(t.events) : t.events[i] = p[1]
        \/ \E id \in ListenerIds :
              /\ \/ \E i \in 1..Len(queues[id]) : queues[id][i] = p[1]
                 \/ p[1] \in session[id].batch
              /\ RecipientOf(id) = p[2]}

Owners == [id \in ListenerIds |->
              IF phase[id] \in {"listening", "ended"} THEN RecipientOf(id) ELSE None]

SentTo == [id \in ListenerIds |-> session[id].sent]

Post == INSTANCE Mail WITH
    Agents <- Uaids, Connections <- ListenerIds, MessageIds <- MsgIds,
    held <- messages, used <- issued, underway <- UnderWay, owner <- Owners,
    sent <- SentTo, now <- clock

\* "A failed forward loses nothing", and a session gets what is its own: a
\* message stays until its own user agent acknowledges it, it is withdrawn or
\* replaced, or it has expired, and a connection is sent what was announced, or
\* was read while it was stored and unexpired, for its own user agent.
MailDelivered == Post!MailSpec

==============================================================================
