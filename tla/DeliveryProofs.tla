--------------------------- MODULE DeliveryProofs ---------------------------
(***************************************************************************)
(* Delivery to sessions, for any number of user agents, messages, nodes    *)
(* and connections.  The store's steps are those of MemoryStore, and the   *)
(* hubs' steps those of Hub, except for crashes, so their invariants are   *)
(* taken from MemoryStoreProofs and HubProofs.                             *)
(***************************************************************************)
EXTENDS Delivery, NotifyProofs

-----------------------------------------------------------------------------
(***************************************************************************)
(* What holds in every deployment.                                         *)
(***************************************************************************)

\* The message ids in use.
Known == MsgIds \cap issued

\* A task announces one message, tells a superseded node, or cleans up after a
\* connection.  It announces the message to the user agent it is stored for.
TaskFits(t) ==
    /\ \/ t.events = <<>> /\ t.step = "clear"
       \/ t.events = <<Gone>> /\ t.step \in {"forward", "clear"}
       \/ t.node \in EndpointNodes /\ \E m \in Known : t.events = <<m>>
    /\ t.step \in {"forward", "clear"} => t.target \in Nodes
    /\ ~Clustered => t.step = "notify"
    /\ \A m \in messages : t.events = <<m.id>> => t.to = m.uaid

\* What was sent of a batch awaits its acknowledgement, and a session that may
\* have more to read sends something new of it first.
ReadsOn(s) ==
    /\ s.stage \notin {"sending", "serving"} => s.unacked = {}
    /\ s.stage # "sending" => s.batch = {}
    /\ s.stage = "serving" /\ s.more => s.unacked # {}
    /\ s.stage = "sending" /\ s.more => s.unacked # {} \/ ~(s.batch \subseteq s.sent)

\* Connections are of user agents, on nodes that hold sessions, and what they
\* were sent was stored once.  Ids of dropped connections are as good as new.
SessionFits(id) ==
    /\ phase[id] # "unused" => NodeOf(id) \in ConnectNodes /\ RecipientOf(id) \in Uaids
    /\ phase[id] \in {"unused", "dropped"} => session[id] = NoSession /\ queues[id] = <<>>
    /\ session[id].sent \subseteq Known /\ session[id].batch \subseteq Known
    /\ ReadsOn(session[id])
    /\ session[id].stage = "registered" => Clustered
    /\ Items(queues[id]) \subseteq Known \cup {Gone}

NewestFits(to) ==
    newest[to] # None =>
        /\ phase[newest[to]] # "unused"
        /\ RecipientOf(newest[to]) = to
        /\ session[newest[to]].stage # "registered"

BaseInv ==
    /\ StoreInv
    /\ Hub!HubInv
    /\ DeliveryTypeOK
    /\ \A t \in tasks : TaskFits(t)
    /\ \A id \in ListenerIds : SessionFits(id)
    /\ \A to \in Recipients : NewestFits(to)

-----------------------------------------------------------------------------
(***************************************************************************)
(* The tasks.                                                              *)
(***************************************************************************)

\* Every task has one event at most.
LEMMA TaskEvents ==
    ASSUME BaseInv, NEW t \in tasks
    PROVE  /\ IsTask(t) /\ TaskFits(t)
           /\ Len(t.events) <= 1
           /\ t.step # "clear" => t.events # <<>> /\ Head(t.events) \in Known \cup {Gone}
           /\ t.step # "clear" => t.events = <<Head(t.events)>>
<1>1. IsTask(t) /\ TaskFits(t)
  BY DEF BaseInv, DeliveryTypeOK, NotifyTypeOK
<1>2. CASE t.events = <<>> /\ t.step = "clear"
  BY <1>1, <1>2
<1>3. CASE t.events = <<Gone>>
  BY <1>1, <1>3
<1>4. CASE \E m \in Known : t.events = <<m>>
  BY <1>1, <1>4
<1> QED
  BY <1>1, <1>2, <1>3, <1>4 DEF TaskFits

\* So a task that is done with an event has ended.
LEMMA DoneEnds ==
    ASSUME BaseInv, NEW t \in tasks, Done(t)
    PROVE  tasks' = tasks \ {t}
<1>1. t.events \in Seq(Events \cup {Gone}) /\ Len(t.events) <= 1 /\ Len(t.events) \in Nat
  BY TaskEvents, LenProperties DEF IsTask
<1>2. SubSeq(t.events, 2, Len(t.events)) = <<>>
  BY <1>1
<1> QED
  BY <1>2 DEF Done

-----------------------------------------------------------------------------
(***************************************************************************)
(* The steps of Delivery as the store sees them.                           *)
(***************************************************************************)

\* The clock reads a time that messages may be stamped with.
LEMMA ClockFits ==
    ASSUME BaseInv
    PROVE  clock \in Times /\ clock \in Nat /\ \A ttl \in Ttls : clock + ttl \in Times
<1>1. clock \in 0..MaxClock
  BY DEF BaseInv, DeliveryTypeOK
<1>2. clock \in Nat
  BY <1>1, DeliveryAssumption
<1>3. \A now \in 0..MaxClock : now \in Times /\ \A ttl \in Ttls : now + ttl \in Times
  BY DeliveryAssumption
<1> QED
  BY <1>1, <1>2, <1>3

\* The message a push stores.
LEMMA PushIsAcceptable ==
    ASSUME BaseInv, NEW s \in channels, NEW id \in MsgIds, NEW topic \in Maybe(Topics),
           NEW ttl \in Ttls, NEW m,
           m = [id |-> id, uaid |-> s.uaid, channel_id |-> s.channel_id, topic |-> topic,
                accepted |-> clock, expiry |-> clock + ttl, rsub |-> None]
    PROVE  m \in Message /\ Acceptable(m)
<1>1. s \in granted /\ s \in Subscription
  BY DEF BaseInv, StoreInv, StoreTypeOK, PushIndexed
<1>2. clock <= clock + ttl
  BY ClockFits, DeliveryAssumption
<1>3. m \in Message
  BY <1>1, ClockFits DEF Message, Subscription, Maybe
<1> QED
  BY <1>1, <1>2, <1>3 DEF Acceptable, Maybe

\* Acknowledging a message deletes it for its owner.
LEMMA SettleIsStoreStep ==
    ASSUME BaseInv, NEW id, NEW m \in MsgIds, NEW code, Settle(id, m, code)
    PROVE  StoreNext \/ UNCHANGED storeVars
<1> SUFFICES ASSUME ~UNCHANGED storeVars PROVE StoreNext
  OBVIOUS
<1>1. PICK x \in messages : delete_message(m, <<x.uaid, x.channel_id>>)
  BY DEF Settle
<1>2. <<x.uaid, x.channel_id>> \in Maybe(Uaids \X ChannelIds)
  BY DEF BaseInv, StoreInv, StoreTypeOK, Message, Maybe
<1>3. \E mid \in MsgIds, owner \in Maybe(Uaids \X ChannelIds) : delete_message(mid, owner)
  BY <1>1, <1>2
<1> QED
  BY <1>3 DEF StoreNext

\* Every step of Delivery is a step of the store or leaves it alone.
LEMMA StepOfStore ==
    ASSUME BaseInv, DeliveryNext
    PROVE  StoreNext \/ UNCHANGED storeVars
<1>1. ASSUME NEW n \in EndpointNodes, NEW s \in channels, NEW id \in MsgIds,
             NEW topic \in Maybe(Topics), NEW ttl \in Ttls,
             store_and_notify(n, s, id, topic, ttl)
      PROVE  StoreNext
  <2>1. PICK m : m = [id |-> id, uaid |-> s.uaid, channel_id |-> s.channel_id, topic |-> topic,
                      accepted |-> clock, expiry |-> clock + ttl, rsub |-> None]
    OBVIOUS
  <2>2. m \in Message /\ Acceptable(m)
    BY <2>1, PushIsAcceptable
  <2>3. insert_message(m)
    BY <1>1, <2>1 DEF store_and_notify
  <2> QED
    BY <2>2, <2>3 DEF StoreNext
<1>2. ASSUME NEW id \in MsgIds, withdraw_message(id)
      PROVE  StoreNext
  <2>1. delete_message(id, None) /\ None \in Maybe(Uaids \X ChannelIds)
    BY <1>2 DEF withdraw_message, Maybe
  <2> QED
    BY <2>1 DEF StoreNext
<1>3. ASSUME reap_loop
      PROVE  StoreNext
  BY <1>3, ClockFits DEF reap_loop, StoreNext
<1>4. ASSUME NEW n \in ConnectNodes, NEW u \in Uaids, NEW id \in ListenerIds, hello(n, u, id)
      PROVE  StoreNext
  BY <1>4, ClockFits DEF hello, StoreNext
<1>5. ASSUME NEW id \in ListenerIds, listen_done(id)
      PROVE  StoreNext
  <2>1. set_route(RecipientOf(id), NodeOf(id)) /\ phase[id] # "unused"
    BY <1>5 DEF listen_done, take_route, Running
  <2>2. RecipientOf(id) \in Recipients /\ NodeOf(id) \in Nodes
    BY <2>1, PlaceFacts DEF BaseInv
  <2> QED
    BY <2>1, <2>2 DEF StoreNext
<1>6. ASSUME NEW t \in tasks, clear_stale(t)
      PROVE  StoreNext
  <2>1. clear_route(t.to, t.target) /\ t.step = "clear"
    BY <1>6 DEF clear_stale
  <2>2. t.to \in Recipients /\ t.target \in Nodes
    BY <2>1, TaskEvents DEF IsTask, TaskFits
  <2> QED
    BY <2>1, <2>2 DEF StoreNext
<1>7. ASSUME NEW id \in ListenerIds, NEW m \in MsgIds, NEW code \in AckCodes, ack(id, m, code)
      PROVE  StoreNext \/ UNCHANGED storeVars
  BY <1>7, SettleIsStoreStep DEF ack, Acknowledged
<1>8. CASE PushSteps
  BY <1>8, <1>1, <1>2, <1>3 DEF PushSteps
<1>9. CASE TaskSteps
  <2>1. ASSUME NEW t \in tasks, notify_local(t) \/ read_route(t) \/ forward(t)
        PROVE  UNCHANGED storeVars
    BY <2>1 DEF notify_local, read_route, forward
  <2> QED
    BY <1>9, <1>6, <2>1 DEF TaskSteps
<1>10. CASE SessionSteps
  <2>1. ASSUME NEW id \in ListenerIds,
               \/ next_batch(id) \/ send_stored(id)
               \/ hub_event(id) \/ hub_closed(id) \/ drop_session(id)
        PROVE  UNCHANGED storeVars
    BY <2>1 DEF next_batch, ReadBatch, send_stored, hub_event, hub_closed, drop_session, drop_listener
  <2> QED
    BY <1>10, <1>5, <2>1 DEF SessionSteps, SessionStep
<1>11. CASE ClientSteps
  <2>1. ASSUME NEW id \in ListenerIds, session_ends(id)
        PROVE  UNCHANGED storeVars
    BY <2>1 DEF session_ends
  <2> QED
    BY <1>11, <1>4, <1>7, <2>1 DEF ClientSteps
<1>12. CASE TaskFaults
  BY <1>12 DEF TaskFaults, forward_fails, cancelled
<1>13. ASSUME NEW n \in Nodes, crash_session_node(n)
       PROVE  UNCHANGED storeVars
  BY <1>13 DEF crash_session_node, crash
<1>14. CASE tick
  BY <1>14 DEF tick
<1>15. ASSUME NEW id \in ListenerIds, forget(id)
       PROVE  UNCHANGED storeVars
  BY <1>15 DEF forget
<1> QED
  BY <1>8, <1>9, <1>10, <1>11, <1>12, <1>13, <1>14, <1>15 DEF DeliveryNext

\* The store's messages only change by new ones with fresh ids.
LEMMA MailGrows ==
    ASSUME BaseInv, StoreNext \/ UNCHANGED storeVars
    PROVE  /\ StoreInv'
           /\ issued \subseteq issued'
           /\ \A m \in messages' : m \in messages \/ m.id \notin issued
<1>1. StoreInv'
  BY StepKeepsInv, StutterKeepsInv DEF BaseInv
<1>2. CASE UNCHANGED storeVars
  BY <1>1, <1>2 DEF storeVars
<1>3. ASSUME UNCHANGED mailVars, issued \subseteq issued'
      PROVE  /\ issued \subseteq issued'
             /\ \A m \in messages' : m \in messages \/ m.id \notin issued
  BY <1>3 DEF mailVars
<1>4. ASSUME NEW gone, remove_message(gone), UNCHANGED issued
      PROVE  /\ issued \subseteq issued'
             /\ \A m \in messages' : m \in messages \/ m.id \notin issued
  BY <1>4 DEF remove_message
<1>5. ASSUME NEW m, insert_message(m)
      PROVE  /\ issued \subseteq issued'
             /\ \A x \in messages' : x \in messages \/ x.id \notin issued
  BY <1>5 DEF insert_message
<1>6. ASSUME NEW subs, remove_subscription(subs), UNCHANGED issued
      PROVE  /\ issued \subseteq issued'
             /\ \A m \in messages' : m \in messages \/ m.id \notin issued
  BY <1>4, <1>6 DEF remove_subscription
<1>7. ASSUME NEW id, NEW owner, delete_message(id, owner)
      PROVE  /\ issued \subseteq issued'
             /\ \A m \in messages' : m \in messages \/ m.id \notin issued
  BY <1>4, <1>7 DEF delete_message
<1>8. ASSUME NEW now, reap(now)
      PROVE  /\ issued \subseteq issued'
             /\ \A m \in messages' : m \in messages \/ m.id \notin issued
  BY <1>4, <1>8 DEF reap
<1>9. ASSUME NEW uaids, remove_user_agent(uaids)
      PROVE  /\ issued \subseteq issued'
             /\ \A m \in messages' : m \in messages \/ m.id \notin issued
  BY <1>6, <1>9 DEF remove_user_agent
<1>10. ASSUME StoreNext, ~(UNCHANGED mailVars /\ issued \subseteq issued')
       PROVE  \/ \E m : insert_message(m)
              \/ \E subs : remove_subscription(subs) /\ UNCHANGED issued
              \/ \E id, owner : delete_message(id, owner)
              \/ \E now : reap(now)
              \/ \E uaids : remove_user_agent(uaids)
  BY <1>10
  DEF StoreNext, create_user_agent, touch_user_agent, update_bridge_token, delete_user_agent,
      expire_user_agents, create_subscription, delete_subscription, create_receipt_sub,
      delete_receipt_sub, enqueue_receipt, withdraw_done, delete_receipt, set_route, clear_route
<1> QED
  BY <1>1, <1>2, <1>3, <1>5, <1>6, <1>7, <1>8, <1>9, <1>10

-----------------------------------------------------------------------------
(***************************************************************************)
(* The steps of Delivery as the hubs see them.                             *)
(***************************************************************************)

\* What a task hands to a hub is an event.
LEMMA TaskNotifies ==
    ASSUME BaseInv, NEW t \in tasks, t.step # "clear"
    PROVE  /\ Head(t.events) \in Events \cup {Gone}
           /\ t.node \in Nodes /\ t.to \in Recipients
           /\ t.step = "forward" => t.target \in Nodes
BY TaskEvents, DeliveryAssumption DEF IsTask, TaskFits, Known

\* Every step of Delivery but a crash is a step of the hubs or leaves them
\* alone.
LEMMA StepOfHub ==
    ASSUME BaseInv, DeliveryNext
    PROVE  Hub!HubInv'
<1>0. ASSUME UNCHANGED hubVars
      PROVE  Hub!HubInv'
  BY <1>0 DEF BaseInv, hubVars, Hub!HubInv, Hub!HubTypeOK, Hub!SlotsHoldOpenListeners
<1>1. ASSUME Hub!HubNext
      PROVE  Hub!HubInv'
  BY <1>1, HubStep DEF BaseInv
<1>2. CASE PushSteps
  BY <1>0, <1>2
  DEF PushSteps, store_and_notify, withdraw_message, reap_loop, notifyVars
<1>3. CASE TaskSteps
  <2>1. ASSUME NEW t \in tasks, notify_local(t)
        PROVE  Hub!HubNext
    BY <2>1, TaskNotifies DEF notify_local, Hub!HubNext, Hub!Event
  <2>2. ASSUME NEW t \in tasks, forward(t)
        PROVE  Hub!HubNext
    BY <2>2, TaskNotifies DEF forward, Hub!HubNext, Hub!Event
  <2>3. ASSUME NEW t \in tasks, read_route(t) \/ clear_stale(t)
        PROVE  UNCHANGED hubVars
    BY <2>3 DEF read_route, clear_stale
  <2> QED
    BY <1>0, <1>1, <1>3, <2>1, <2>2, <2>3 DEF TaskSteps
<1>4. CASE SessionSteps
  <2>1. ASSUME NEW id \in ListenerIds, hub_event(id) \/ hub_closed(id) \/ drop_session(id)
        PROVE  Hub!HubNext
    BY <2>1 DEF hub_event, hub_closed, drop_session, drop_listener, Hub!HubNext
  <2>2. ASSUME NEW id \in ListenerIds, listen_done(id) \/ next_batch(id) \/ send_stored(id)
        PROVE  UNCHANGED hubVars
    BY <2>2
    DEF listen_done, take_route, RouteTaken, next_batch, ReadBatch, send_stored, notifyVars
  <2> QED
    BY <1>0, <1>1, <1>4, <2>1, <2>2 DEF SessionSteps, SessionStep
<1>5. CASE ClientSteps
  <2>1. ASSUME NEW n \in ConnectNodes, NEW u \in Uaids, NEW id \in ListenerIds, hello(n, u, id)
        PROVE  Hub!HubNext
    <3>1. n \in Nodes /\ u \in Recipients
      BY DeliveryAssumption DEF Recipients
    <3> QED
      BY <2>1, <3>1 DEF hello, listen, Hub!HubNext
  <2>2. ASSUME NEW id \in ListenerIds, session_ends(id)
        PROVE  Hub!HubNext
    BY <2>2 DEF session_ends, Hub!HubNext
  <2>3. ASSUME NEW id, NEW m, NEW code, ack(id, m, code)
        PROVE  UNCHANGED hubVars
    BY <2>3 DEF ack, Acknowledged, notifyVars
  <2> QED
    BY <1>0, <1>1, <1>5, <2>1, <2>2, <2>3 DEF ClientSteps
<1>6. CASE TaskFaults
  BY <1>0, <1>6 DEF TaskFaults, forward_fails, cancelled
<1>7. ASSUME NEW n \in Nodes, crash_session_node(n)
      PROVE  Hub!HubInv'
  BY <1>7, CrashKeepsHub DEF BaseInv, crash_session_node
<1>8. CASE tick
  BY <1>0, <1>8 DEF tick, notifyVars
<1>9. ASSUME NEW id \in ListenerIds, forget(id)
      PROVE  Hub!HubInv'
  BY <1>1, <1>9 DEF forget, Hub!HubNext
<1> QED
  BY <1>2, <1>3, <1>4, <1>5, <1>6, <1>7, <1>8, <1>9 DEF DeliveryNext

-----------------------------------------------------------------------------
(***************************************************************************)
(* Sessions and tasks fit, after every step.                               *)
(***************************************************************************)

Fits ==
    /\ NotifyTypeOK
    /\ session \in [ListenerIds -> Session]
    /\ clock \in 0..MaxClock
    /\ \A t \in tasks : TaskFits(t)
    /\ \A id \in ListenerIds : SessionFits(id)
    /\ \A to \in Recipients : NewestFits(to)

\* What most steps do to the messages: none is new, or its id is.
MailKept ==
    /\ issued \subseteq issued'
    /\ \A m \in messages' : m \in messages \/ m.id \notin issued

\* The step is not one of connection `l`.
Same(l) ==
    /\ phase'[l] = phase[l] /\ place'[l] = place[l]
    /\ session'[l] = session[l] /\ queues'[l] = queues[l]

\* Connection `l` stays in use, and past listen().
Kept(l) == phase'[l] # "unused" /\ place'[l] = place[l] /\ session'[l].stage # "registered"

\* Tasks that are not touched go on to fit.
LEMMA OldTasksFit ==
    ASSUME BaseInv, StoreInv', MailKept, NEW t \in tasks
    PROVE  TaskFits(t)'
<1>1. TaskFits(t)
  BY DEF BaseInv
<1>2. Known \subseteq Known'
  BY DEF MailKept, Known
<1>3. messages' \subseteq Message
  BY DEF StoreInv, StoreTypeOK
<1>4. ASSUME NEW m \in messages', t.events = <<m.id>>
      PROVE  t.to = m.uaid
  <2>1. m.id \in MsgIds /\ m.id # Gone
    BY <1>3, DeliveryAssumption, NotifyAssumption DEF Message
  <2>2. m.id \in Known
    BY <1>1, <1>4, <2>1 DEF TaskFits
  <2>3. m \in messages
    BY <2>2 DEF MailKept, Known
  <2> QED
    BY <1>1, <1>4, <2>3 DEF TaskFits
<1> QED
  BY <1>1, <1>2, <1>4 DEF TaskFits

\* So do connections.
LEMMA OldSessionsFit ==
    ASSUME BaseInv, MailKept, NEW l \in ListenerIds, Same(l)
    PROVE  SessionFits(l)'
<1>1. SessionFits(l)
  BY DEF BaseInv
<1>2. Known \subseteq Known'
  BY DEF MailKept, Known
<1> QED
  BY <1>1, <1>2 DEF SessionFits, Same, NodeOf, RecipientOf, Items

LEMMA Assemble ==
    ASSUME BaseInv, StoreInv', MailKept,
           \A t \in tasks' : t \in tasks \/ (IsTask(t) /\ TaskFits(t)'),
           session' \in [ListenerIds -> Session],
           newest' \in [Recipients -> Maybe(ListenerIds)],
           clock' \in 0..MaxClock, faults' \in 0..MaxFaults,
           \A l \in ListenerIds : Same(l) \/ SessionFits(l)',
           \A to \in Recipients : NewestFits(to)'
    PROVE  Fits'
<1>1. \A t \in tasks' : IsTask(t) /\ TaskFits(t)'
  BY OldTasksFit DEF BaseInv, DeliveryTypeOK, NotifyTypeOK
<1>2. \A l \in ListenerIds : SessionFits(l)'
  BY OldSessionsFit
<1>3. NotifyTypeOK'
  BY <1>1 DEF NotifyTypeOK
<1> QED
  BY <1>1, <1>2, <1>3 DEF Fits

LEMMA NewestKept ==
    ASSUME BaseInv, newest' = newest,
           \A l \in ListenerIds :
               phase[l] # "unused" /\ session[l].stage # "registered" => Kept(l)
    PROVE  \A to \in Recipients : NewestFits(to)'
<1> SUFFICES ASSUME NEW to \in Recipients, newest[to] # None
             PROVE  NewestFits(to)'
  BY DEF NewestFits
<1>1. newest[to] \in ListenerIds /\ NewestFits(to)
  BY DEF BaseInv, DeliveryTypeOK, NotifyTypeOK, Maybe
<1>2. Kept(newest[to])
  BY <1>1 DEF NewestFits
<1> QED
  BY <1>1, <1>2 DEF NewestFits, Kept, RecipientOf

\* Steps of the handlers, the tasks and the clock that no connection sees.
LEMMA QuietStep ==
    ASSUME BaseInv, StoreInv', MailKept,
           \A t \in tasks' : t \in tasks \/ (IsTask(t) /\ TaskFits(t)'),
           UNCHANGED <<hubVars, newest, session>>,
           clock' \in 0..MaxClock, faults' \in 0..MaxFaults
    PROVE  Fits'
<1>1. \A l \in ListenerIds : Same(l)
  BY DEF Same, hubVars
<1>2. \A to \in Recipients : NewestFits(to)'
  BY NewestKept DEF Kept, hubVars
<1>3. /\ session' \in [ListenerIds -> Session]
      /\ newest' \in [Recipients -> Maybe(ListenerIds)]
  BY DEF BaseInv, DeliveryTypeOK, NotifyTypeOK
<1> QED
  BY <1>1, <1>2, <1>3, Assemble

\* The bookkeeping is well-typed.
LEMMA BookTypes ==
    ASSUME BaseInv
    PROVE  /\ clock \in 0..MaxClock /\ faults \in 0..MaxFaults
           /\ session \in [ListenerIds -> Session]
           /\ newest \in [Recipients -> Maybe(ListenerIds)]
           /\ MaxClock \in Nat /\ MaxFaults \in Nat
BY DeliveryAssumption, NotifyAssumption DEF BaseInv, DeliveryTypeOK, NotifyTypeOK

LEMMA PushFits ==
    ASSUME BaseInv, StoreInv', MailKept, PushSteps
    PROVE  Fits'
<1>1. CASE UNCHANGED <<notifyVars, session, clock>>
  BY <1>1, QuietStep, BookTypes DEF notifyVars
<1>2. ASSUME NEW n \in EndpointNodes, NEW s \in channels, NEW id \in MsgIds,
             NEW topic \in Maybe(Topics), NEW ttl \in Ttls,
             store_and_notify(n, s, id, topic, ttl)
      PROVE  Fits'
  <2>1. PICK m : m = [id |-> id, uaid |-> s.uaid, channel_id |-> s.channel_id, topic |-> topic,
                      accepted |-> clock, expiry |-> clock + ttl, rsub |-> None]
    OBVIOUS
  <2>2. PICK u : u = Announce(id, n, s.uaid, <<id>>)
    OBVIOUS
  <2>3. insert_message(m) /\ m.id = id /\ m.uaid = s.uaid
    BY <1>2, <2>1 DEF store_and_notify
  <2>4. tasks' = tasks \cup {u} /\ UNCHANGED <<hubVars, newest, faults, session, clock>>
    BY <1>2, <2>2 DEF store_and_notify
  <2>5. /\ s.uaid \in Recipients /\ n \in Nodes /\ None \in Maybe(Nodes)
        /\ <<id>> \in Seq(Events \cup {Gone})
    BY DeliveryAssumption
    DEF BaseInv, StoreInv, StoreTypeOK, Subscription, Recipients, Maybe
  <2>6. /\ IsTask(u)
        /\ u.node = n /\ u.to = s.uaid /\ u.events = <<id>>
        /\ u.step = "notify" /\ u.target = None
    <3>1. u = [job |-> id, node |-> n, to |-> s.uaid, events |-> <<id>>, step |-> "notify",
               target |-> None]
      BY <2>2 DEF Announce
    <3>2. DOMAIN u = {"job", "node", "to", "events", "step", "target"}
      BY <3>1, Zenon
    <3>3. /\ u.node = n /\ u.to = s.uaid /\ u.events = <<id>>
          /\ u.step = "notify" /\ u.target = None
      BY <3>1
    <3> QED
      BY <3>2, <3>3, <2>5 DEF IsTask
  <2>7. id \in Known'
    BY <2>3 DEF insert_message, Known
  <2>8. ASSUME NEW x \in messages', <<id>> = <<x.id>>
        PROVE  x.uaid = s.uaid
    <3>1. x = m \/ x \in messages
      BY <2>3 DEF insert_message
    <3>2. x.id \notin issued
      BY <2>3, <2>8 DEF insert_message
    <3>3. x \notin messages
      BY <3>2 DEF BaseInv, StoreInv, MailApart, Ids
    <3> QED
      BY <3>1, <3>3, <2>3
  <2>9. TaskFits(u)'
    <3>1. u.node \in EndpointNodes /\ \E x \in Known' : u.events = <<x>>
      BY <2>6, <2>7
    <3>2. u.step = "notify" /\ u.step \notin {"forward", "clear"}
      BY <2>6
    <3>3. \A x \in messages' : u.events = <<x.id>> => u.to = x.uaid
      BY <2>6, <2>8
    <3> QED
      BY <3>1, <3>2, <3>3, Zenon DEF TaskFits
  <2> QED
    BY <2>4, <2>6, <2>9, QuietStep, BookTypes
<1> QED
  BY <1>1, <1>2 DEF PushSteps, withdraw_message, reap_loop

\* A task that goes on fits.
LEMMA GotoFits ==
    ASSUME BaseInv, StoreInv', MailKept, NEW t \in tasks, t.step # "clear", Clustered,
           NEW step \in {"route", "forward", "clear"}, NEW target \in Maybe(Nodes),
           step = "route" => t.step = "notify", step # "route" => target \in Nodes,
           Goto(t, step, target)
    PROVE  \A u \in tasks' : u \in tasks \/ (IsTask(u) /\ TaskFits(u)')
<1>1. PICK v : v = [t EXCEPT !.step = step, !.target = target]
  OBVIOUS
<1>2. tasks' = (tasks \ {t}) \cup {v}
  BY <1>1 DEF Goto
<1>3. IsTask(t) /\ TaskFits(t)'
  BY TaskEvents, OldTasksFit
<1>4. /\ IsTask(v)
      /\ v.node = t.node /\ v.to = t.to /\ v.events = t.events
      /\ v.step = step /\ v.target = target
  BY <1>1, <1>3 DEF IsTask
<1>5. TaskFits(v)'
  BY <1>3, <1>4 DEF TaskFits
<1> QED
  BY <1>2, <1>4, <1>5

\* A step that hands an event to a hub.
LEMMA NotifyFits ==
    ASSUME BaseInv, StoreInv', MailKept, NEW n \in Nodes, NEW to \in Recipients,
           NEW e \in Known \cup {Gone}, Hub!notify(n, to, e),
           UNCHANGED <<storeVars, newest, faults, session, clock>>,
           \A t \in tasks' : t \in tasks \/ (IsTask(t) /\ TaskFits(t)')
    PROVE  Fits'
<1>0. Hub!HubInv
  BY DEF BaseInv
<1>1. e \in Events \cup {Gone}
  BY DeliveryAssumption DEF Known
<1>2. UNCHANGED <<place, phase>>
  BY <1>0, <1>1, NotifyEffect
<1>3. ASSUME NEW l \in ListenerIds, queues'[l] # queues[l]
      PROVE  SessionFits(l)'
  <2>1. l = slots[n][to] /\ Items(queues'[l]) = Items(queues[l]) \cup {e}
    BY <1>0, <1>1, <1>3, NotifyEffect
  <2>2. phase[l] \in {"listening", "ended"}
    BY <1>0, <2>1, HubFacts, NotifyAssumption
  <2>3. SessionFits(l) /\ Known' = Known
    BY DEF BaseInv, Known, storeVars
  <2> QED
    BY <1>2, <2>1, <2>2, <2>3 DEF SessionFits, NodeOf, RecipientOf
<1>4. \A l \in ListenerIds : Same(l) \/ SessionFits(l)'
  BY <1>2, <1>3 DEF Same
<1>5. \A to_ \in Recipients : NewestFits(to_)'
  BY <1>2, NewestKept DEF Kept
<1> QED
  BY <1>4, <1>5, BookTypes, Assemble

LEMMA TaskStepFits ==
    ASSUME BaseInv, StoreInv', MailKept, TaskSteps
    PROVE  Fits'
<1>0. /\ None \in Maybe(Nodes) /\ Nodes \subseteq Maybe(Nodes)
      /\ routes \in [Recipients -> Maybe(Nodes)]
  BY DEF Maybe, BaseInv, StoreInv, StoreTypeOK
<1>1. UNCHANGED <<session, clock>>
  BY DEF TaskSteps
<1>2. ASSUME NEW t \in tasks, Done(t)
      PROVE  \A u \in tasks' : u \in tasks
  BY <1>2, DoneEnds
<1>3. ASSUME NEW t \in tasks, notify_local(t)
      PROVE  Fits'
  <2>1. t.step = "notify" /\ Hub!notify(t.node, t.to, Head(t.events))
        /\ UNCHANGED <<storeVars, newest, faults>>
    BY <1>3 DEF notify_local
  <2>2. Head(t.events) \in Known \cup {Gone} /\ t.node \in Nodes /\ t.to \in Recipients
    BY <2>1, TaskEvents DEF IsTask
  <2>3. \A u \in tasks' : u \in tasks \/ (IsTask(u) /\ TaskFits(u)')
    <3>1. CASE Done(t)
      BY <1>2, <3>1
    <3>2. CASE Clustered /\ Goto(t, "route", None)
      BY <1>0, <2>1, <3>2, GotoFits
    <3> QED
      BY <1>3, <3>1, <3>2 DEF notify_local
  <2> QED
    BY <1>1, <2>1, <2>2, <2>3, NotifyFits
<1>4. ASSUME NEW t \in tasks, forward(t)
      PROVE  Fits'
  <2>1. t.step = "forward" /\ Hub!notify(t.target, t.to, Head(t.events))
        /\ UNCHANGED <<storeVars, newest, faults>>
    BY <1>4 DEF forward
  <2>2. /\ Head(t.events) \in Known \cup {Gone} /\ t.target \in Nodes /\ t.to \in Recipients
        /\ Clustered
    BY <2>1, TaskEvents DEF IsTask, TaskFits
  <2>3. \A u \in tasks' : u \in tasks \/ (IsTask(u) /\ TaskFits(u)')
    <3>1. CASE Done(t)
      BY <1>2, <3>1
    <3>2. CASE Goto(t, "clear", t.target)
      BY <1>0, <2>1, <2>2, <3>2, GotoFits
    <3> QED
      BY <1>4, <3>1, <3>2 DEF forward
  <2> QED
    BY <1>1, <2>1, <2>2, <2>3, NotifyFits
<1>5. ASSUME NEW t \in tasks, read_route(t)
      PROVE  Fits'
  <2>1. t.step = "route" /\ UNCHANGED <<storeVars, hubVars, newest, faults>>
    BY <1>5 DEF read_route
  <2>2. t.to \in Recipients /\ Clustered
    BY <2>1, TaskEvents DEF IsTask, TaskFits
  <2>3. \A u \in tasks' : u \in tasks \/ (IsTask(u) /\ TaskFits(u)')
    <3>1. CASE Done(t)
      BY <1>2, <3>1
    <3>2. ASSUME ~Done(t)
          PROVE  \E step \in {"forward", "clear"} : \E n \in Nodes : Goto(t, step, n)
      <4>1. routes[t.to] # None
        BY <1>5, <3>2 DEF read_route
      <4>2. routes[t.to] \in Nodes
        BY <1>0, <2>2, <4>1 DEF Maybe
      <4> QED
        BY <1>5, <4>1, <4>2 DEF read_route
    <3>3. ASSUME NEW step \in {"forward", "clear"}, NEW n \in Nodes, Goto(t, step, n)
          PROVE  \A u \in tasks' : u \in tasks \/ (IsTask(u) /\ TaskFits(u)')
      BY <1>0, <2>1, <2>2, <3>3, GotoFits
    <3> QED
      BY <3>1, <3>2, <3>3
  <2> QED
    BY <1>1, <2>1, <2>3, QuietStep, BookTypes
<1>6. ASSUME NEW t \in tasks, clear_stale(t)
      PROVE  Fits'
  <2>1. Done(t) /\ UNCHANGED <<hubVars, newest, faults>>
    BY <1>6 DEF clear_stale
  <2> QED
    BY <1>1, <1>2, <2>1, QuietStep, BookTypes
<1> QED
  BY <1>3, <1>4, <1>5, <1>6 DEF TaskSteps

LEMMA FaultFits ==
    ASSUME BaseInv, StoreInv', MailKept, TaskFaults
    PROVE  Fits'
<1>1. UNCHANGED <<session, clock>>
  BY DEF TaskFaults
<1>2. ASSUME faults < MaxFaults, faults' = faults + 1
      PROVE  faults' \in 0..MaxFaults
  BY <1>2, BookTypes
<1>3. ASSUME NEW t \in tasks, NEW connected \in BOOLEAN, forward_fails(t, connected)
      PROVE  Fits'
  <2>1. /\ faults < MaxFaults /\ faults' = faults + 1 /\ t.step = "forward"
        /\ UNCHANGED <<storeVars, hubVars, newest>>
    BY <1>3 DEF forward_fails
  <2>2. t.target \in Nodes /\ t.target \in Maybe(Nodes) /\ Clustered
    BY <2>1, TaskEvents DEF TaskFits, Maybe
  <2>3. \A u \in tasks' : u \in tasks \/ (IsTask(u) /\ TaskFits(u)')
    <3>1. CASE Done(t)
      BY <3>1, DoneEnds
    <3>2. CASE Goto(t, "clear", t.target)
      BY <2>1, <2>2, <3>2, GotoFits
    <3> QED
      BY <1>3, <3>1, <3>2 DEF forward_fails
  <2> QED
    BY <1>1, <1>2, <2>1, <2>3, QuietStep, BookTypes
<1>4. ASSUME NEW t \in tasks, cancelled(t)
      PROVE  Fits'
  BY <1>1, <1>2, <1>4, QuietStep, BookTypes DEF cancelled
<1> QED
  BY <1>3, <1>4 DEF TaskFaults

LEMMA TickFits ==
    ASSUME BaseInv, StoreInv', MailKept, tick
    PROVE  Fits'
<1>1. clock' \in 0..MaxClock /\ UNCHANGED <<notifyVars, session>>
  BY BookTypes DEF tick
<1> QED
  BY <1>1, QuietStep, BookTypes DEF notifyVars

\* The ids of stored messages are in use.
LEMMA StoredKnown ==
    ASSUME StoreInv
    PROVE  Ids(messages) \subseteq Known
BY DEF StoreInv, StoreTypeOK, MailApart, Message, Ids, Known

\* A step of one session, and of nobody else.
LEMMA OneSession ==
    ASSUME BaseInv, StoreInv', MailKept, NEW id \in ListenerIds, phase[id] # "unused",
           NEW s \in Session, session' = [session EXCEPT ![id] = s], s.stage # "registered" \/ s = session[id],
           \A l \in ListenerIds : l # id => phase'[l] = phase[l] /\ queues'[l] = queues[l],
           phase'[id] # "unused", UNCHANGED <<place, newest, faults, clock>>,
           \A t \in tasks' : t \in tasks \/ (IsTask(t) /\ TaskFits(t)'),
           phase'[id] = "dropped" => s = NoSession /\ queues'[id] = <<>>,
           s.sent \subseteq Known, s.batch \subseteq Known, ReadsOn(s),
           Items(queues'[id]) \subseteq Known \cup {Gone}
    PROVE  Fits'
<1>1. session' \in [ListenerIds -> Session] /\ session'[id] = s
      /\ \A l \in ListenerIds : l # id => session'[l] = session[l]
  BY BookTypes
<1>2. SessionFits(id) /\ Known \subseteq Known'
  BY DEF BaseInv, MailKept, Known
<1>3. SessionFits(id)'
  BY <1>1, <1>2 DEF SessionFits, NodeOf, RecipientOf
<1>4. \A l \in ListenerIds : Same(l) \/ SessionFits(l)'
  BY <1>1, <1>3 DEF Same
<1>5. \A to \in Recipients : NewestFits(to)'
  BY <1>1, NewestKept DEF Kept
<1> QED
  BY <1>1, <1>4, <1>5, BookTypes, Assemble

\* Sending adds to what was sent.
LEMMA NotifySends ==
    ASSUME NEW s \in Session, NEW ids \in SUBSET MsgIds
    PROVE  /\ notify(s, ids) \in Session
           /\ notify(s, ids).stage = s.stage /\ notify(s, ids).more = s.more
           /\ notify(s, ids).batch = s.batch
           /\ notify(s, ids).sent = s.sent \cup ids
           /\ notify(s, ids).unacked = s.unacked \cup (ids \ s.sent)
BY DEF notify, Session

\* The step of next_batch.
LEMMA BatchStep ==
    ASSUME BaseInv, NEW id \in ListenerIds, next_batch(id)
    PROVE  /\ phase[id] = "listening" /\ session[id].stage = "reading"
           /\ UNCHANGED <<storeVars, notifyVars, clock>>
           /\ \A l \in ListenerIds : l # id => session'[l] = session[l]
           /\ session'[id].stage \in {"sending", "serving"}
           /\ \E b \in pending(RecipientOf(id), clock, Batch), s \in Session :
                 /\ Ids(b) \subseteq Known
                 /\ session' = [session EXCEPT ![id] = s] /\ s = session'[id]
                 /\ s.stage = IF b = {} THEN "serving" ELSE "sending"
                 /\ s.batch = Ids(b) /\ s.sent = session[id].sent
                 /\ s.unacked = session[id].unacked
                 /\ s.more <=> Cardinality(b) = Batch /\ ~(Ids(b) \subseteq session[id].sent)
<1>1. PICK b \in pending(RecipientOf(id), clock, Batch) :
          session' = [session EXCEPT ![id] =
              [@ EXCEPT
                  !.stage = IF b = {} THEN "serving" ELSE "sending",
                  !.batch = Ids(b),
                  !.more = Cardinality(b) = Batch /\ ~(Ids(b) \subseteq session[id].sent)]]
  BY DEF next_batch, ReadBatch
<1>2. /\ phase[id] = "listening" /\ session[id].stage = "reading"
      /\ UNCHANGED <<storeVars, notifyVars, clock>>
  BY DEF next_batch, ReadBatch, Running
<1>3. b \subseteq messages /\ Ids(b) \subseteq Known /\ Ids(b) \subseteq MsgIds
  BY StoredKnown DEF BaseInv, pending, Unexpired, Ids, Known
<1>4. session[id] \in Session /\ SessionFits(id)
  BY BookTypes DEF BaseInv
<1>5. PICK more \in BOOLEAN :
          more = (Cardinality(b) = Batch /\ ~(Ids(b) \subseteq session[id].sent))
  OBVIOUS
<1>6. PICK stage : stage = IF b = {} THEN "serving" ELSE "sending"
  OBVIOUS
<1>7. PICK s : s = [session[id] EXCEPT !.stage = stage, !.batch = Ids(b), !.more = more]
  OBVIOUS
<1>8. /\ s \in Session /\ s.stage = stage /\ s.batch = Ids(b) /\ s.more = more
      /\ s.sent = session[id].sent /\ s.unacked = session[id].unacked
  BY <1>3, <1>4, <1>6, <1>7 DEF Session
<1>9. session' = [session EXCEPT ![id] = s]
  BY <1>1, <1>5, <1>6, <1>7
<1>10. s = session'[id] /\ \A l \in ListenerIds : l # id => session'[l] = session[l]
  BY <1>9, BookTypes
<1>11. s.more <=> Cardinality(b) = Batch /\ ~(Ids(b) \subseteq session[id].sent)
  BY <1>5, <1>8
<1>12. /\ session' = [session EXCEPT ![id] = s] /\ s = session'[id]
       /\ s.stage = IF b = {} THEN "serving" ELSE "sending"
       /\ s.batch = Ids(b) /\ s.sent = session[id].sent /\ s.unacked = session[id].unacked
  BY <1>6, <1>8, <1>9, <1>10
<1>13. s.stage \in {"sending", "serving"}
  BY <1>12
<1> QED
  BY <1>2, <1>3, <1>8, <1>10, <1>11, <1>12, <1>13

LEMMA BatchFits ==
    ASSUME BaseInv, StoreInv', MailKept, NEW id \in ListenerIds, next_batch(id)
    PROVE  Fits'
<1>1. PICK b \in pending(RecipientOf(id), clock, Batch), s \in Session :
          /\ Ids(b) \subseteq Known
          /\ session' = [session EXCEPT ![id] = s] /\ s = session'[id]
          /\ s.stage = IF b = {} THEN "serving" ELSE "sending"
          /\ s.batch = Ids(b) /\ s.sent = session[id].sent
          /\ s.unacked = session[id].unacked
          /\ s.more <=> Cardinality(b) = Batch /\ ~(Ids(b) \subseteq session[id].sent)
  BY BatchStep
<1>2. /\ phase[id] = "listening" /\ session[id].stage = "reading"
      /\ UNCHANGED <<storeVars, notifyVars, clock>>
  BY BatchStep
<1>3. SessionFits(id)
  BY DEF BaseInv
<1>4. b = {} => Ids(b) = {}
  BY DEF Ids
<1>5. ReadsOn(s)
  BY <1>1, <1>2, <1>3, <1>4 DEF SessionFits, ReadsOn
<1>6. s.stage # "registered"
  BY <1>1
<1> QED
  BY <1>1, <1>2, <1>3, <1>5, <1>6, OneSession DEF notifyVars, hubVars, SessionFits

\* What send_stored does to its session.
LEMMA SentOneIs ==
    ASSUME NEW s \in Session, NEW m \in s.batch
    PROVE  /\ SentOne(s, m) \in Session /\ m \in MsgIds
           /\ SentOne(s, m).stage = IF s.batch = {m} THEN "serving" ELSE "sending"
           /\ SentOne(s, m).batch = s.batch \ {m} /\ SentOne(s, m).more = s.more
           /\ SentOne(s, m).sent = s.sent \cup {m}
           /\ SentOne(s, m).unacked = s.unacked \cup ({m} \ s.sent)
<1>1. m \in MsgIds /\ {m} \in SUBSET MsgIds
  BY DEF Session
<1>2. PICK x \in Session : /\ x = notify(s, {m}) /\ x.batch = s.batch /\ x.more = s.more
                           /\ x.sent = s.sent \cup {m}
                           /\ x.unacked = s.unacked \cup ({m} \ s.sent)
  BY <1>1, NotifySends
<1>3. PICK stage \in {"serving", "sending"} :
          stage = IF s.batch = {m} THEN "serving" ELSE "sending"
  OBVIOUS
<1>4. PICK z : z = [x EXCEPT !.batch = @ \ {m}, !.stage = stage]
  OBVIOUS
<1>5. z = SentOne(s, m)
  BY <1>2, <1>3, <1>4 DEF SentOne
<1>6. /\ z \in Session /\ z.stage = stage /\ z.batch = x.batch \ {m}
      /\ z.more = x.more /\ z.sent = x.sent /\ z.unacked = x.unacked
  BY <1>4 DEF Session
<1> QED
  BY <1>1, <1>2, <1>3, <1>5, <1>6

\* The step of send_stored.
LEMMA SendStep ==
    ASSUME BaseInv, NEW id \in ListenerIds, send_stored(id)
    PROVE  /\ phase[id] = "listening" /\ session[id].stage = "sending"
           /\ UNCHANGED <<storeVars, notifyVars, clock>> /\ asked' = {}
           /\ \E m \in session[id].batch :
                 session' = [session EXCEPT ![id] = SentOne(session[id], m)]
BY DEF send_stored, Running, NothingAsked

LEMMA SendFits ==
    ASSUME BaseInv, StoreInv', MailKept, NEW id \in ListenerIds, send_stored(id)
    PROVE  Fits'
<1>1. PICK m \in session[id].batch :
          session' = [session EXCEPT ![id] = SentOne(session[id], m)]
  BY SendStep
<1>2. /\ phase[id] = "listening" /\ session[id].stage = "sending"
      /\ UNCHANGED <<storeVars, notifyVars, clock>>
  BY SendStep
<1>3. session[id] \in Session /\ SessionFits(id)
  BY BookTypes DEF BaseInv
<1>4. PICK s : s = SentOne(session[id], m)
  OBVIOUS
<1>5. /\ s \in Session
      /\ s.stage = IF session[id].batch = {m} THEN "serving" ELSE "sending"
      /\ s.batch = session[id].batch \ {m} /\ s.more = session[id].more
      /\ s.sent = session[id].sent \cup {m}
      /\ s.unacked = session[id].unacked \cup ({m} \ session[id].sent)
  BY <1>3, <1>4, SentOneIs
<1>6. ReadsOn(s)
  BY <1>2, <1>3, <1>5 DEF SessionFits, ReadsOn
<1>7. s.sent \subseteq Known /\ s.batch \subseteq Known
  BY <1>3, <1>5 DEF SessionFits
<1> QED
  BY <1>1, <1>2, <1>3, <1>4, <1>5, <1>6, <1>7, OneSession DEF notifyVars, hubVars, SessionFits

LEMMA EventFits ==
    ASSUME BaseInv, StoreInv', MailKept, NEW id \in ListenerIds, hub_event(id)
    PROVE  Fits'
<1>1. /\ phase[id] = "listening" /\ session[id].stage = "serving"
      /\ Hub!recv(id)
      /\ session' = [session EXCEPT ![id] = notify(@, {Head(queues[id])} \ {Gone})]
      /\ UNCHANGED <<storeVars, newest, tasks, faults, clock>>
  BY DEF hub_event, Running
<1>2. /\ queues \in [ListenerIds -> Seq(Events \cup {Gone})]
      /\ phase \in [ListenerIds -> {"unused", "listening", "ended", "dropped"}]
  BY HubFacts DEF BaseInv
<1>3. /\ queues[id] # <<>>
      /\ queues'[id] = Tail(queues[id])
      /\ phase'[id] \in {"listening", "ended"}
      /\ \A l \in ListenerIds : l # id => phase'[l] = phase[l] /\ queues'[l] = queues[l]
      /\ UNCHANGED place
  BY <1>1, <1>2 DEF Hub!recv
<1>4. SessionFits(id) /\ session[id] \in Session
  BY BookTypes DEF BaseInv
<1>5. Head(queues[id]) \in Known \cup {Gone} /\ Items(queues'[id]) \subseteq Known \cup {Gone}
  BY <1>2, <1>3, <1>4, ChannelItems DEF SessionFits
<1>6. PICK ids \in SUBSET MsgIds : ids = {Head(queues[id])} \ {Gone} /\ ids \subseteq Known
  <2>1. PICK ids : ids = {Head(queues[id])} \ {Gone}
    OBVIOUS
  <2>2. ids \subseteq Known /\ ids \subseteq MsgIds
    BY <1>5, <2>1 DEF Known
  <2> QED
    BY <2>1, <2>2
<1>7. PICK s \in Session : /\ s = notify(session[id], ids)
                           /\ s.stage = "serving" /\ s.sent = session[id].sent \cup ids
                           /\ s.batch = session[id].batch /\ s.more = session[id].more
                           /\ s.unacked = session[id].unacked \cup (ids \ session[id].sent)
  BY <1>1, <1>4, <1>6, NotifySends
<1>8. session' = [session EXCEPT ![id] = s]
  BY <1>1, <1>6, <1>7
<1>9. ReadsOn(s)
  BY <1>1, <1>4, <1>7 DEF SessionFits, ReadsOn
<1> QED
  BY <1>1, <1>3, <1>4, <1>5, <1>6, <1>7, <1>8, <1>9, OneSession DEF SessionFits

LEMMA EndFits ==
    ASSUME BaseInv, StoreInv', MailKept, NEW id \in ListenerIds,
           hub_closed(id) \/ session_ends(id)
    PROVE  Fits'
<1>1. /\ phase[id] = "listening" /\ phase' = [phase EXCEPT ![id] = "ended"]
      /\ UNCHANGED <<place, queues, newest, tasks, faults, session, clock>>
  BY DEF hub_closed, session_ends, Hub!recv_closed, Hub!leave
<1>2. SessionFits(id) /\ session[id] \in Session
  BY BookTypes DEF BaseInv
<1>3. session' = [session EXCEPT ![id] = session[id]]
  BY <1>1, BookTypes
<1>4. phase'[id] = "ended" /\ \A l \in ListenerIds : l # id => phase'[l] = phase[l]
  BY <1>1, HubFacts DEF BaseInv
<1> QED
  BY <1>1, <1>2, <1>3, <1>4, OneSession DEF SessionFits

LEMMA AckFits ==
    ASSUME BaseInv, StoreInv', MailKept, NEW id \in ListenerIds, NEW m \in MsgIds, NEW code,
           ack(id, m, code)
    PROVE  Fits'
<1>1. PICK left : left = session[id].unacked \ {m}
  OBVIOUS
<1>2. /\ phase[id] = "listening" /\ session[id].stage = "serving"
      /\ session' = [session EXCEPT
            ![id].unacked = left,
            ![id].stage = IF left = {} /\ session[id].more THEN "reading" ELSE @]
      /\ UNCHANGED <<notifyVars, clock>>
  BY <1>1 DEF ack, Acknowledged, Running
<1>3. SessionFits(id) /\ session[id] \in Session
  BY BookTypes DEF BaseInv
<1>4. left \subseteq MsgIds
  BY <1>1, <1>3 DEF Session
<1>5. PICK stage : stage = IF left = {} /\ session[id].more THEN "reading" ELSE "serving"
  OBVIOUS
<1>6. PICK s : s = [session[id] EXCEPT !.unacked = left, !.stage = stage]
  OBVIOUS
<1>7. /\ s \in Session /\ s.sent = session[id].sent /\ s.unacked = left /\ s.stage = stage
      /\ s.batch = session[id].batch /\ s.more = session[id].more
  BY <1>3, <1>4, <1>5, <1>6 DEF Session
<1>8. session' = [session EXCEPT ![id] = s]
  BY <1>2, <1>3, <1>5, <1>6, BookTypes DEF Session
<1>9. stage # "registered" /\ ReadsOn(s)
  BY <1>2, <1>3, <1>5, <1>7 DEF SessionFits, ReadsOn
<1> QED
  BY <1>2, <1>3, <1>7, <1>8, <1>9, OneSession DEF SessionFits, notifyVars, hubVars

\* No message is called Gone.
LEMMA GoneIsNoMessage ==
    ASSUME StoreInv
    PROVE  Gone \notin Known /\ \A m \in messages : m.id # Gone
BY NotifyAssumption, DeliveryAssumption DEF StoreInv, StoreTypeOK, Message, Known

\* The forward that tells a superseded node.
LEMMA GoneToFits ==
    ASSUME BaseInv, StoreInv', Clustered, NEW id \in ListenerIds, phase[id] # "unused",
           NEW p \in Nodes, NEW u, u = GoneTo(p, id)
    PROVE  /\ IsTask(u) /\ TaskFits(u)'
           /\ u.to = RecipientOf(id) /\ u.events = <<Gone>> /\ u.step = "forward"
           /\ u.target = p
<1>1. PICK v : v = u
  OBVIOUS
<1>2. /\ IsTask(v) /\ v.to = RecipientOf(id) /\ v.events = <<Gone>>
      /\ v.step = "forward" /\ v.target = p
  BY <1>1, GoneToIsTask DEF BaseInv
<1>3. \A m \in messages' : v.events # <<m.id>>
  <2>1. messages' \subseteq Message
    BY DEF StoreInv, StoreTypeOK
  <2>2. ASSUME NEW m \in messages'
        PROVE  m.id # Gone
    BY <2>1, NotifyAssumption, DeliveryAssumption DEF Message
  <2> QED
    BY <1>2, <2>2
<1>4. TaskFits(v)'
  BY <1>2, <1>3 DEF TaskFits
<1> QED
  BY <1>1, <1>2, <1>4

\* The task that a dropped Listener spawns fits.
LEMMA CleanupFits ==
    ASSUME BaseInv, StoreInv', Clustered, NEW id \in ListenerIds, phase[id] # "unused",
           NEW u, u = CleanupOf(id)
    PROVE  /\ IsTask(u) /\ TaskFits(u)'
           /\ u.to = RecipientOf(id) /\ u.events = <<>> /\ u.step = "clear"
           /\ u.target = NodeOf(id)
<1>1. PICK v : v = u
  OBVIOUS
<1>2. /\ IsTask(v) /\ v.to = RecipientOf(id) /\ v.events = <<>>
      /\ v.step = "clear" /\ v.target = NodeOf(id) /\ v.target \in Nodes
  BY <1>1, CleanupIsTask DEF BaseInv
<1>3. \A m \in messages' : v.events # <<m.id>>
  <2>1. messages' \subseteq Message
    BY DEF StoreInv, StoreTypeOK
  <2>2. ASSUME NEW m \in messages'
        PROVE  m.id # Gone
    BY <2>1, NotifyAssumption, DeliveryAssumption DEF Message
  <2> QED
    BY <1>2, <2>2
<1>4. TaskFits(v)'
  BY <1>2, <1>3 DEF TaskFits
<1> QED
  BY <1>1, <1>2, <1>4

LEMMA DropFits ==
    ASSUME BaseInv, StoreInv', MailKept, NEW id \in ListenerIds, drop_session(id)
    PROVE  Fits'
<1>1. /\ Hub!drop_listener(id)
      /\ tasks' = tasks \cup
            {[Announce(id, NodeOf(id), RecipientOf(id), <<>>) EXCEPT
                !.step = "clear", !.target = n] :
             n \in {x \in {NodeOf(id)} : Clustered /\ Hub!Attached(id)}}
      /\ session' = [session EXCEPT ![id] = NoSession]
      /\ UNCHANGED <<storeVars, newest, faults, clock>>
  BY DEF drop_session, drop_listener
<1>2. /\ phase[id] = "ended" /\ phase'[id] = "dropped" /\ queues'[id] = <<>> /\ UNCHANGED place
      /\ \A l \in ListenerIds : l # id => phase'[l] = phase[l] /\ queues'[l] = queues[l]
  BY <1>1, HubFacts DEF BaseInv, Hub!drop_listener
<1>3. NodeOf(id) \in Nodes
  BY <1>2, PlaceFacts DEF BaseInv
<1>4. \A t \in tasks' : t \in tasks \/ (IsTask(t) /\ TaskFits(t)')
  <2> SUFFICES ASSUME NEW t \in tasks', t \notin tasks
               PROVE  IsTask(t) /\ TaskFits(t)'
    OBVIOUS
  <2>1. Clustered /\ t = CleanupOf(id)
    BY <1>1 DEF CleanupOf
  <2> QED
    BY <1>2, <2>1, CleanupFits
<1>5. /\ NoSession \in Session /\ NoSession.stage = "idle" /\ NoSession.sent = {}
      /\ NoSession.batch = {} /\ ReadsOn(NoSession)
  BY DEF NoSession, Session, ReadsOn
<1>6. Items(queues'[id]) \subseteq Known \cup {Gone}
  BY <1>2 DEF Items
<1> QED
  BY <1>1, <1>2, <1>4, <1>5, <1>6, OneSession

LEMMA ListenFits ==
    ASSUME BaseInv, StoreInv', MailKept, NEW id \in ListenerIds, listen_done(id)
    PROVE  Fits'
<1>1. /\ phase[id] = "listening" /\ session[id].stage = "registered"
      /\ newest' = [newest EXCEPT ![RecipientOf(id)] = id]
      /\ UNCHANGED <<hubVars, faults, clock>>
      /\ tasks' = tasks \cup {GoneTo(p, id) : p \in Superseded(id)}
      /\ session' = [session EXCEPT ![id].stage = "reading"]
  BY DEF listen_done, Running, take_route, RouteTaken
<1>2. SessionFits(id) /\ session[id] \in Session
  BY BookTypes DEF BaseInv
<1>3. PICK s : s = [session[id] EXCEPT !.stage = "reading"]
  OBVIOUS
<1>4. /\ s \in Session /\ s.stage = "reading" /\ s.sent = session[id].sent
      /\ s.unacked = session[id].unacked /\ s.batch = session[id].batch
  BY <1>2, <1>3 DEF Session
<1>5. /\ session' = [session EXCEPT ![id] = s] /\ session'[id] = s
      /\ session' \in [ListenerIds -> Session]
      /\ \A l \in ListenerIds : l # id => session'[l] = session[l]
  BY <1>1, <1>3, <1>4, BookTypes
<1>6. /\ RecipientOf(id) \in Recipients /\ Clustered
      /\ newest' \in [Recipients -> Maybe(ListenerIds)]
      /\ routes[RecipientOf(id)] \in Maybe(Nodes)
  BY <1>1, <1>2, PlaceFacts, BookTypes DEF BaseInv, StoreInv, StoreTypeOK, Maybe, SessionFits
<1>7. \A t \in tasks' : t \in tasks \/ (IsTask(t) /\ TaskFits(t)')
  <2> SUFFICES ASSUME NEW t \in tasks', t \notin tasks
               PROVE  IsTask(t) /\ TaskFits(t)'
    OBVIOUS
  <2>1. PICK p \in Nodes : t = GoneTo(p, id)
    BY <1>1, <1>6 DEF Superseded, Maybe
  <2> QED
    BY <1>1, <1>6, <2>1, GoneToFits
<1>8. SessionFits(id)'
  <2>1. Known \subseteq Known'
    BY DEF MailKept, Known
  <2> QED
    BY <1>1, <1>2, <1>4, <1>5, <2>1 DEF SessionFits, ReadsOn, NodeOf, RecipientOf, hubVars
<1>9. \A l \in ListenerIds : Same(l) \/ SessionFits(l)'
  BY <1>1, <1>5, <1>8 DEF Same, hubVars
<1>10. ASSUME NEW to \in Recipients
       PROVE  NewestFits(to)'
  <2>1. CASE to = RecipientOf(id)
    BY <1>1, <1>4, <1>5, <2>1, BookTypes DEF NewestFits, hubVars, RecipientOf
  <2>2. CASE to # RecipientOf(id)
    <3>1. newest'[to] = newest[to] /\ NewestFits(to)
      BY <1>1, <2>2, BookTypes DEF BaseInv
    <3>2. newest[to] # None => newest[to] \in ListenerIds
      BY BookTypes DEF Maybe
    <3> QED
      BY <1>1, <1>4, <1>5, <3>1, <3>2 DEF NewestFits, hubVars, RecipientOf
  <2> QED
    BY <2>1, <2>2
<1> QED
  BY <1>1, <1>5, <1>6, <1>7, <1>9, <1>10, BookTypes, Assemble

LEMMA HelloFits ==
    ASSUME BaseInv, StoreInv', MailKept, NEW n \in ConnectNodes, NEW u \in Uaids,
           NEW id \in ListenerIds, hello(n, u, id)
    PROVE  Fits'
<1>0. n \in Nodes /\ u \in Recipients /\ Hub!HubInv
  BY DeliveryAssumption DEF Recipients, BaseInv
<1>1. /\ Hub!register(n, u, id)
      /\ newest' = IF Clustered THEN newest ELSE [newest EXCEPT ![u] = id]
      /\ session' = [session EXCEPT ![id].stage = IF Clustered THEN "registered" ELSE "reading"]
      /\ UNCHANGED <<tasks, faults, clock>>
  BY DEF hello, listen
<1>2. SessionFits(id) /\ session[id] = NoSession /\ queues[id] = <<>>
  BY <1>0, <1>1, RegisterEffect DEF BaseInv, SessionFits
<1>3. PICK stage : stage = IF Clustered THEN "registered" ELSE "reading"
  OBVIOUS
<1>4. PICK s : s = [NoSession EXCEPT !.stage = stage]
  OBVIOUS
<1>5. /\ s \in Session /\ s.stage = stage /\ s.sent = {} /\ s.unacked = {} /\ s.batch = {}
      /\ ReadsOn(s)
  BY <1>3, <1>4 DEF Session, NoSession, ReadsOn
<1>6. /\ session'[id] = s /\ session' \in [ListenerIds -> Session]
      /\ \A l \in ListenerIds : l # id => session'[l] = session[l]
  BY <1>1, <1>2, <1>3, <1>4, <1>5, BookTypes
<1>7. Known \subseteq Known'
  BY DEF MailKept, Known
<1>8. SessionFits(id)'
  <2>1. phase'[id] = "listening" /\ place'[id] = <<n, u>> /\ queues'[id] = <<>>
    BY <1>0, <1>1, <1>2, RegisterEffect
  <2>2. stage = "registered" => Clustered
    BY <1>3
  <2> QED
    BY <1>5, <1>6, <2>1, <2>2 DEF SessionFits, NodeOf, RecipientOf, Items
<1>9. ASSUME NEW l \in ListenerIds, l # id
      PROVE  Same(l) \/ SessionFits(l)'
  <2>1. phase'[l] = phase[l] /\ place'[l] = place[l] /\ session'[l] = session[l]
    BY <1>0, <1>1, <1>6, <1>9, RegisterEffect
  <2>2. CASE queues'[l] = queues[l]
    BY <2>1, <2>2 DEF Same
  <2>3. CASE queues'[l] # queues[l]
    <3>1. /\ Items(queues'[l]) = Items(queues[l]) \cup {Gone}
          /\ phase[l] \in {"listening", "ended"}
      BY <1>0, <1>1, <2>3, RegisterEffect
    <3>2. SessionFits(l)
      BY DEF BaseInv
    <3> QED
      BY <1>7, <2>1, <3>1, <3>2 DEF SessionFits, NodeOf, RecipientOf
  <2> QED
    BY <2>2, <2>3
<1>10. newest' \in [Recipients -> Maybe(ListenerIds)]
  BY <1>0, <1>1, BookTypes DEF Maybe
<1>11. ASSUME NEW to \in Recipients
       PROVE  NewestFits(to)'
  <2>1. CASE newest'[to] = id /\ to = u /\ ~Clustered
    <3>1. phase'[id] = "listening" /\ place'[id] = <<n, u>> /\ stage = "reading"
      BY <1>0, <1>1, <1>3, <2>1, RegisterEffect
    <3> QED
      BY <1>5, <1>6, <2>1, <3>1 DEF NewestFits, RecipientOf
  <2>2. CASE newest'[to] = newest[to] /\ newest[to] # None
    <3>1. newest[to] \in ListenerIds /\ NewestFits(to)
      BY <2>2, BookTypes DEF Maybe, BaseInv
    <3>2. newest[to] # id
      BY <1>0, <1>1, <2>2, <3>1, RegisterEffect DEF NewestFits
    <3>3. /\ phase'[newest[to]] = phase[newest[to]] /\ place'[newest[to]] = place[newest[to]]
          /\ session'[newest[to]] = session[newest[to]]
      BY <1>0, <1>1, <1>6, <3>1, <3>2, RegisterEffect
    <3> QED
      BY <2>2, <3>1, <3>3 DEF NewestFits, RecipientOf
  <2>3. CASE newest'[to] = None
    BY <2>3 DEF NewestFits
  <2> QED
    BY <1>0, <1>1, <2>1, <2>2, <2>3, BookTypes
<1> QED
  BY <1>1, <1>6, <1>8, <1>9, <1>10, <1>11, BookTypes, Assemble

LEMMA CrashFits ==
    ASSUME BaseInv, StoreInv', MailKept, NEW n \in Nodes, crash_session_node(n)
    PROVE  Fits'
<1>1. /\ phase' = [id \in ListenerIds |-> IF id \in LostWith(n) THEN "dropped" ELSE phase[id]]
      /\ queues' = [id \in ListenerIds |-> IF id \in LostWith(n) THEN <<>> ELSE queues[id]]
      /\ session' = [id \in ListenerIds |-> IF id \in LostWith(n) THEN NoSession ELSE session[id]]
      /\ tasks' = {t \in tasks : t.node # n}
      /\ faults < MaxFaults /\ faults' = faults + 1
      /\ UNCHANGED <<place, newest, clock>>
  BY DEF crash_session_node, crash
<1>2. /\ NoSession \in Session /\ NoSession.sent = {} /\ NoSession.batch = {}
      /\ NoSession.stage = "idle" /\ ReadsOn(NoSession)
  BY DEF NoSession, Session, ReadsOn
<1>3. session' \in [ListenerIds -> Session] /\ faults' \in 0..MaxFaults
  BY <1>1, <1>2, BookTypes
<1>4. ASSUME NEW l \in ListenerIds, l \in LostWith(n)
      PROVE  SessionFits(l)'
  <2>1. phase'[l] = "dropped" /\ queues'[l] = <<>> /\ session'[l] = NoSession
    BY <1>1, <1>4
  <2>2. SessionFits(l) /\ phase[l] # "unused"
    BY <1>4 DEF BaseInv, LostWith
  <2> QED
    BY <1>1, <1>2, <2>1, <2>2 DEF SessionFits, NodeOf, RecipientOf, Items
<1>5. \A l \in ListenerIds : Same(l) \/ SessionFits(l)'
  BY <1>1, <1>4 DEF Same
<1>6. \A to \in Recipients : NewestFits(to)'
  BY <1>1, <1>2, NewestKept DEF Kept
<1> QED
  BY <1>1, <1>3, <1>5, <1>6, BookTypes, Assemble

LEMMA ForgetFits ==
    ASSUME BaseInv, StoreInv', MailKept, NEW id \in ListenerIds, forget(id),
           UNCHANGED <<session, clock>>
    PROVE  Fits'
<1>1. /\ phase[id] = "dropped" /\ phase' = [phase EXCEPT ![id] = "unused"]
      /\ place' = [place EXCEPT ![id] = None] /\ queues' = queues
      /\ \A to \in Recipients : newest[to] # id
      /\ UNCHANGED <<newest, tasks, faults>>
  BY DEF forget, Hub!forget
<1>2. /\ phase'[id] = "unused"
      /\ \A l \in ListenerIds : l # id => phase'[l] = phase[l] /\ place'[l] = place[l]
  BY <1>1, HubFacts DEF BaseInv
<1>3. SessionFits(id) /\ Known \subseteq Known'
  BY DEF BaseInv, MailKept, Known
<1>4. SessionFits(id)'
  BY <1>1, <1>2, <1>3 DEF SessionFits, Items
<1>5. \A l \in ListenerIds : Same(l) \/ SessionFits(l)'
  BY <1>1, <1>2, <1>4 DEF Same
<1>6. ASSUME NEW to \in Recipients, newest[to] # None
      PROVE  NewestFits(to)'
  <2>1. newest[to] \in ListenerIds /\ newest[to] # id /\ NewestFits(to)
    BY <1>1, <1>6, BookTypes DEF Maybe, BaseInv
  <2> QED
    BY <1>1, <1>2, <1>6, <2>1 DEF NewestFits, RecipientOf
<1>7. \A to \in Recipients : NewestFits(to)'
  BY <1>1, <1>6 DEF NewestFits
<1> QED
  BY <1>1, <1>5, <1>7, BookTypes, Assemble

\* Only acknowledgements and withdrawals ask for a message to be removed.
LEMMA AskedTyped ==
    ASSUME BaseInv, DeliveryNext
    PROVE  asked' \subseteq MsgIds \X (Uaids \cup {None})
<1>1. CASE asked' = {}
  BY <1>1
<1>2. ASSUME NEW id \in MsgIds, withdraw_message(id)
      PROVE  asked' \subseteq MsgIds \X (Uaids \cup {None})
  BY <1>2 DEF withdraw_message
<1>3. ASSUME NEW id \in ListenerIds, NEW m \in MsgIds, NEW code, ack(id, m, code)
      PROVE  asked' \subseteq MsgIds \X (Uaids \cup {None})
  <2>1. RecipientOf(id) \in Uaids
    BY <1>3 DEF ack, Acknowledged, Running, BaseInv, SessionFits
  <2>2. asked' = {} \/ asked' = {<<m, RecipientOf(id)>>}
    BY <1>3 DEF ack, Acknowledged, Settle, NothingAsked
  <2> QED
    BY <2>1, <2>2
<1>4. ASSUME NEW n, NEW s, NEW id, NEW topic, NEW ttl, store_and_notify(n, s, id, topic, ttl)
      PROVE  asked' = {}
  BY <1>4 DEF store_and_notify, NothingAsked
<1>5. CASE PushSteps
  BY <1>1, <1>2, <1>4, <1>5 DEF PushSteps, reap_loop, NothingAsked
<1>6. CASE TaskSteps \/ TaskFaults \/ tick
  BY <1>1, <1>6 DEF TaskSteps, TaskFaults, tick, NothingAsked
<1>7. CASE SessionSteps
  BY <1>1, <1>7
  DEF SessionSteps, SessionStep, listen_done, next_batch, ReadBatch, send_stored, hub_event,
      hub_closed, drop_session, NothingAsked
<1>8. CASE ClientSteps
  BY <1>1, <1>3, <1>8 DEF ClientSteps, hello, session_ends, NothingAsked
<1>9. ASSUME NEW n \in Nodes, crash_session_node(n)
      PROVE  asked' = {}
  BY <1>9 DEF crash_session_node, NothingAsked
<1>10. ASSUME NEW id \in ListenerIds, forget(id) /\ UNCHANGED <<session, clock>> /\ NothingAsked
       PROVE  asked' = {}
  BY <1>10 DEF NothingAsked
<1> QED
  BY <1>1, <1>5, <1>6, <1>7, <1>8, <1>9, <1>10 DEF DeliveryNext

\* Every step keeps the invariant.
LEMMA BaseStep ==
    ASSUME BaseInv, DeliveryNext
    PROVE  BaseInv' /\ MailKept
<1>1. StoreInv' /\ MailKept
  BY StepOfStore, MailGrows DEF MailKept
<1>2. Hub!HubInv'
  BY StepOfHub
<1>3. ASSUME PushSteps
      PROVE  Fits'
  BY <1>1, <1>3, PushFits
<1>4. ASSUME TaskSteps
      PROVE  Fits'
  BY <1>1, <1>4, TaskStepFits
<1>5. ASSUME SessionSteps
      PROVE  Fits'
  BY <1>1, <1>5, ListenFits, BatchFits, SendFits, EventFits, EndFits, DropFits
  DEF SessionSteps, SessionStep
<1>6. ASSUME ClientSteps
      PROVE  Fits'
  BY <1>1, <1>6, HelloFits, AckFits, EndFits DEF ClientSteps
<1>7. ASSUME TaskFaults
      PROVE  Fits'
  BY <1>1, <1>7, FaultFits
<1>8. ASSUME NEW n \in Nodes, crash_session_node(n)
      PROVE  Fits'
  BY <1>1, <1>8, CrashFits
<1>9. ASSUME tick
      PROVE  Fits'
  BY <1>1, <1>9, TickFits
<1>10. ASSUME NEW id \in ListenerIds, forget(id) /\ UNCHANGED <<session, clock>> /\ NothingAsked
       PROVE  Fits'
  BY <1>1, <1>10, ForgetFits
<1>11. Fits'
  BY <1>3, <1>4, <1>5, <1>6, <1>7, <1>8, <1>9, <1>10 DEF DeliveryNext
<1>12. asked' \subseteq MsgIds \X (Uaids \cup {None})
  BY AskedTyped
<1> QED
  BY <1>1, <1>2, <1>11, <1>12 DEF BaseInv, Fits, DeliveryTypeOK

\* A deployment starts with one subscription and nobody connected.
LEMMA InitFits ==
    ASSUME DeliveryInit
    PROVE  BaseInv
<1>0. PICK s \in Subscription :
          /\ channels = {s}
          /\ granted = {s}
          /\ push = [p \in PushIds |-> IF p = s.push THEN <<s.uaid, s.channel_id>> ELSE None]
  BY DEF DeliveryInit
<1>1. /\ user_agents = [u \in Uaids |-> [bridge |-> None, last_seen |-> 0]]
      /\ messages = {} /\ topics = [x \in Slots |-> None]
      /\ receipt_subs = {} /\ receipts = {} /\ settled = {} /\ returned = {}
      /\ last_seq = 0 /\ issued = Uaids
      /\ routes = [to \in Recipients |-> None]
      /\ session = [id \in ListenerIds |-> NoSession] /\ clock = 0
      /\ newest = [to \in Recipients |-> None] /\ tasks = {} /\ faults = 0
      /\ Hub!HubInit /\ asked = {}
  BY DEF DeliveryInit, NotifyInit
<1>2. 0 \in Times /\ 0 \in 0..MaxClock /\ 0 \in 0..MaxFaults
  BY DeliveryAssumption, NotifyAssumption
<1>3. StoreTypeOK
  <2>1. user_agents \in [Uaids -> Maybe(UserAgent)]
    BY <1>1, <1>2 DEF UserAgent, Maybe
  <2>2. push \in [PushIds -> Maybe(Uaids \X ChannelIds)]
    BY <1>0 DEF Subscription, Maybe
  <2> QED
    BY <1>0, <1>1, <2>1, <2>2 DEF StoreTypeOK, Maybe
<1>4. MailApart
  BY <1>1, FS_EmptySet DEF MailApart, Ids
<1>5. TopicSlotsExact /\ OneOutcome /\ QueuesOwned /\ QueueBounded
  BY <1>1 DEF TopicSlotsExact, OneOutcome, QueuesOwned, QueueBounded
<1>6. PushIndexed
  BY <1>0 DEF PushIndexed, Subscription
<1>7. StoreInv
  BY <1>3, <1>4, <1>5, <1>6 DEF StoreInv
<1>8. /\ Hub!HubInv
      /\ phase = [id \in ListenerIds |-> "unused"] /\ queues = [id \in ListenerIds |-> <<>>]
  BY InitMakesHub DEF DeliveryInit
<1>10. /\ NoSession \in Session /\ NoSession.sent = {} /\ NoSession.batch = {}
       /\ NoSession.stage = "idle" /\ ReadsOn(NoSession)
  BY DEF NoSession, Session, ReadsOn
<1>11. DeliveryTypeOK
  BY <1>1, <1>2, <1>10 DEF DeliveryTypeOK, NotifyTypeOK, Maybe
<1>12. \A id \in ListenerIds : SessionFits(id)
  BY <1>1, <1>8, <1>10 DEF SessionFits, Items
<1> QED
  BY <1>1, <1>7, <1>8, <1>11, <1>12 DEF BaseInv, NewestFits

LEMMA BaseStutter ==
    ASSUME BaseInv, UNCHANGED vars
    PROVE  BaseInv'
<1>1. UNCHANGED <<storeVars, notifyVars, session, clock, asked>>
  BY DEF vars
<1>2. StoreInv' /\ MailKept
  BY <1>1, MailGrows DEF MailKept
<1>3. Hub!HubInv'
  BY <1>1 DEF BaseInv, notifyVars, hubVars, Hub!HubInv, Hub!HubTypeOK, Hub!SlotsHoldOpenListeners
<1>4. Fits'
  BY <1>1, <1>2, QuietStep, BookTypes DEF notifyVars
<1> QED
  BY <1>1, <1>2, <1>3, <1>4 DEF BaseInv, Fits, DeliveryTypeOK

-----------------------------------------------------------------------------
(***************************************************************************)
(* In every deployment.                                                    *)
(***************************************************************************)

\* In every deployment, whatever crashes: the sessions, the tasks and the
\* connections fit together, and the store and the hubs keep the invariants
\* that they have on their own.
THEOREM SessionsFit == DeliverySpec => []BaseInv
<1>1. DeliveryInit => BaseInv
  BY InitFits
<1>2. BaseInv /\ [DeliveryNext]_vars => BaseInv'
  BY BaseStep, BaseStutter
<1> QED
  BY <1>1, <1>2, PTL DEF DeliverySpec

\* Delivery uses the store only as MemoryStore lets its callers use it, so
\* what is proved there holds of every deployment.
StoreSteps == [][StoreNext]_storeVars

\* The handlers, sessions and tasks of every deployment call the store as
\* MemoryStore's callers may.
THEOREM StoreUsedAsAllowed == DeliverySpec => StoreSteps
<1>1. BaseInv /\ [DeliveryNext]_vars => [StoreNext]_storeVars
  <2>1. ASSUME UNCHANGED vars
        PROVE  UNCHANGED storeVars
    BY <2>1 DEF vars
  <2> QED
    BY <2>1, StepOfStore
<1>2. DeliverySpec => [][StoreNext]_storeVars
  BY <1>1, SessionsFit, PTL DEF DeliverySpec
<1> QED
  BY <1>2 DEF StoreSteps

-----------------------------------------------------------------------------
(***************************************************************************)
(* What is asked of the deployment.  A single node; or a cluster whose     *)
(* session nodes accept no pushes, and to whose nodes a user agent does    *)
(* not come back (the README says what happens otherwise).  Clients        *)
(* acknowledge with the codes that the server knows.                       *)
(***************************************************************************)
Deployment ==
    /\ \/ ~Clustered /\ \A a, b \in Nodes : a = b
       \/ Clustered /\ ~Revisit /\ ConnectNodes \cap EndpointNodes = {}
    /\ "other" \notin AckCodes

(***************************************************************************)
(* In a cluster: a node has one connection of a recipient, ever, and the   *)
(* nodes that routes and tasks name are those of connections that are past *)
(* listen().                                                               *)
(***************************************************************************)
PlacesDiffer ==
    \A a, b \in ListenerIds : place[a] = place[b] /\ place[a] # None => a = b

Listened(id, n, to) ==
    phase[id] # "unused" /\ place[id] = <<n, to>> /\ session[id].stage # "registered"

\* A route leads to a node that the recipient was connected to.
Leads(to) ==
    routes[to] # None => \E id \in ListenerIds : Listened(id, routes[to], to)

\* So does a forward, and Gone only goes where the newest connection is not.
ForwardLeads(t) ==
    t.step = "forward" =>
        \E id \in ListenerIds : /\ Listened(id, t.target, t.to)
                                /\ t.events = <<Gone>> => newest[t.to] # id

\* A route is only cleared for a connection that is gone from its hub.
CleanupLate(t) ==
    t.step = "clear" =>
        \E id \in ListenerIds : Listened(id, t.target, t.to) /\ ~Hub!Attached(id)

\* The route leads to the newest connection while that is registered.
NamesNewest(to) ==
    newest[to] # None /\ Hub!Attached(newest[to]) => routes[to] = NodeOf(newest[to])

ClusterInv ==
    /\ PlacesDiffer
    /\ \A to \in Recipients : Leads(to)
    /\ \A t \in tasks : ForwardLeads(t)
    /\ faults = 0 => \A t \in tasks : CleanupLate(t)
    /\ faults = 0 => \A to \in Recipients : NamesNewest(to)

(***************************************************************************)
(* A connection that was not superseded is not told to go.  What it was    *)
(* sent and the store still has awaits its acknowledgement.  Once it has   *)
(* read its backlog to the end, it gets what is stored.                    *)
(***************************************************************************)
Unreplaced(id) ==
    Hub!Attached(id) /\ (newest[RecipientOf(id)] = id \/ session[id].stage = "registered") =>
        Gone \notin Items(queues[id])

Awaits(id) ==
    \A m \in messages : m.id \in session[id].sent /\ m.uaid = RecipientOf(id) =>
        m.id \in session[id].unacked

Reaches(id, m) ==
    \/ m \in session[id].sent \/ m \in session[id].batch
    \/ m \in Items(queues[id]) \/ OnItsWay(m, id)

Serves(id) ==
    /\ faults = 0
    /\ phase[id] = "listening" /\ session[id].stage \in {"sending", "serving"}
    /\ ~session[id].more
    /\ Hub!Attached(id) /\ newest[RecipientOf(id)] = id

Served(id) ==
    Serves(id) => \A m \in messages :
        m.uaid = RecipientOf(id) /\ m.expiry > clock => Reaches(id, m.id)

Fine(id) == Unreplaced(id) /\ Awaits(id) /\ Served(id)

DeliveryIInv ==
    /\ BaseInv
    /\ Clustered => ClusterInv
    /\ \A id \in ListenerIds : Fine(id)

-----------------------------------------------------------------------------
(***************************************************************************)
(* Where no connection comes back, connections only go on.                 *)
(***************************************************************************)

GoesOn(l) ==
    phase[l] # "unused" =>
        /\ phase'[l] # "unused" /\ place'[l] = place[l]
        /\ session[l].stage # "registered" => session'[l].stage # "registered"
        /\ Hub!Attached(l)' => Hub!Attached(l)

LEMMA QuietGoesOn ==
    ASSUME BaseInv, UNCHANGED hubVars,
           \A l \in ListenerIds : phase[l] # "unused" /\ session[l].stage # "registered" =>
               session'[l].stage # "registered"
    PROVE  \A l \in ListenerIds : GoesOn(l)
BY DEF GoesOn, hubVars, Hub!Attached

LEMMA NotifyGoesOn ==
    ASSUME BaseInv, NEW n \in Nodes, NEW to \in Recipients, NEW e \in Events \cup {Gone},
           Hub!notify(n, to, e), UNCHANGED session
    PROVE  \A l \in ListenerIds : GoesOn(l)
<1> SUFFICES ASSUME NEW l \in ListenerIds, phase[l] # "unused"
             PROVE  GoesOn(l)
  BY DEF GoesOn
<1>1. Hub!HubInv
  BY DEF BaseInv
<1>2. UNCHANGED <<place, phase>>
  BY <1>1, NotifyEffect
<1>3. \A x \in Nodes, r \in Recipients : slots'[x][r] = slots[x][r] \/ slots'[x][r] # l
  BY <1>1, NotifyEffect, NotifyAssumption
<1>4. Hub!Attached(l)' => Hub!Attached(l)
  BY <1>1, <1>2, <1>3, DetachedStays
<1> QED
  BY <1>2, <1>4 DEF GoesOn

\* A step of one connection that leaves the slots or empties its own.
LEMMA OneGoesOn ==
    ASSUME BaseInv, NEW id \in ListenerIds, phase'[id] # "unused", UNCHANGED place,
           \A l \in ListenerIds : l # id => phase'[l] = phase[l] /\ session'[l] = session[l],
           session[id].stage # "registered" => session'[id].stage # "registered",
           slots' = slots \/ (phase[id] # "unused" /\ slots' = Hub!unregister(id))
    PROVE  \A l \in ListenerIds : GoesOn(l)
<1> SUFFICES ASSUME NEW l \in ListenerIds, phase[l] # "unused"
             PROVE  GoesOn(l)
  BY DEF GoesOn
<1>1. Hub!HubInv
  BY DEF BaseInv
<1>2. \A x \in Nodes, r \in Recipients : slots'[x][r] = slots[x][r] \/ slots'[x][r] # l
  BY <1>1, UnregisterEffect, NotifyAssumption
<1>3. Hub!Attached(l)' => Hub!Attached(l)
  BY <1>1, <1>2, DetachedStays
<1> QED
  BY <1>3 DEF GoesOn

LEMMA HelloGoesOn ==
    ASSUME BaseInv, NEW n \in ConnectNodes, NEW u \in Uaids, NEW id \in ListenerIds,
           hello(n, u, id)
    PROVE  \A l \in ListenerIds : GoesOn(l)
<1> SUFFICES ASSUME NEW l \in ListenerIds, phase[l] # "unused"
             PROVE  GoesOn(l)
  BY DEF GoesOn
<1>1. n \in Nodes /\ u \in Recipients /\ Hub!HubInv
  BY DeliveryAssumption DEF Recipients, BaseInv
<1>2. Hub!register(n, u, id)
      /\ session' = [session EXCEPT ![id].stage = IF Clustered THEN "registered" ELSE "reading"]
  BY DEF hello, listen
<1>3. l # id /\ phase'[l] = phase[l] /\ place'[l] = place[l] /\ session'[l] = session[l]
  BY <1>1, <1>2, RegisterEffect, BookTypes
<1>4. \A x \in Nodes, r \in Recipients : slots'[x][r] = slots[x][r] \/ slots'[x][r] # l
  BY <1>1, <1>2, <1>3, RegisterEffect
<1>5. Hub!Attached(l)' => Hub!Attached(l)
  BY <1>1, <1>3, <1>4, DetachedStays
<1> QED
  BY <1>3, <1>5 DEF GoesOn

LEMMA CrashGoesOn ==
    ASSUME BaseInv, NEW n \in Nodes, crash_session_node(n)
    PROVE  \A l \in ListenerIds : GoesOn(l)
<1> SUFFICES ASSUME NEW l \in ListenerIds, phase[l] # "unused"
             PROVE  GoesOn(l)
  BY DEF GoesOn
<1>1. /\ slots' = [slots EXCEPT ![n] = [to \in Recipients |-> None]]
      /\ phase' = [id \in ListenerIds |-> IF id \in LostWith(n) THEN "dropped" ELSE phase[id]]
      /\ session' = [id \in ListenerIds |-> IF id \in LostWith(n) THEN NoSession ELSE session[id]]
      /\ place' = place
  BY DEF crash_session_node, crash
<1>2. Hub!HubInv /\ NoSession.stage = "idle"
  BY DEF BaseInv, NoSession
<1>3. \A x \in Nodes, r \in Recipients : slots'[x][r] = slots[x][r] \/ slots'[x][r] # l
  BY <1>1, <1>2, HubFacts, NotifyAssumption
<1>4. Hub!Attached(l)' => Hub!Attached(l)
  BY <1>1, <1>2, <1>3, DetachedStays
<1> QED
  BY <1>1, <1>2, <1>4 DEF GoesOn

\* Every step but the reuse of an id, which no cluster makes.
LEMMA StepGoesOn ==
    ASSUME BaseInv, DeliveryNext, ~Revisit
    PROVE  \A l \in ListenerIds : GoesOn(l)
<1>1. ASSUME UNCHANGED <<hubVars, session>>
      PROVE  \A l \in ListenerIds : GoesOn(l)
  BY <1>1, QuietGoesOn
<1>2. ASSUME PushSteps
      PROVE  \A l \in ListenerIds : GoesOn(l)
  BY <1>1, <1>2 DEF PushSteps, store_and_notify, withdraw_message, reap_loop, notifyVars
<1>3. ASSUME TaskSteps
      PROVE  \A l \in ListenerIds : GoesOn(l)
  <2>1. ASSUME NEW t \in tasks, notify_local(t)
        PROVE  \A l \in ListenerIds : GoesOn(l)
    BY <1>3, <2>1, TaskNotifies, NotifyGoesOn DEF notify_local, TaskSteps
  <2>2. ASSUME NEW t \in tasks, forward(t)
        PROVE  \A l \in ListenerIds : GoesOn(l)
    BY <1>3, <2>2, TaskNotifies, NotifyGoesOn DEF forward, TaskSteps
  <2> QED
    BY <1>1, <1>3, <2>1, <2>2 DEF TaskSteps, read_route, clear_stale
<1>4. ASSUME NEW id \in ListenerIds, listen_done(id) \/ next_batch(id) \/ send_stored(id)
      PROVE  \A l \in ListenerIds : GoesOn(l)
  <2>1. UNCHANGED hubVars
    BY <1>4, SendStep DEF listen_done, take_route, RouteTaken, next_batch, ReadBatch, notifyVars
  <2>2. /\ \A l \in ListenerIds : l # id => session'[l] = session[l]
        /\ session'[id].stage \in {"reading", "sending", "serving"}
    <3>1. CASE listen_done(id)
      BY <3>1, BookTypes DEF listen_done, Session
    <3>2. CASE next_batch(id)
      BY <3>2, BatchStep
    <3>3. CASE send_stored(id)
      <4>1. PICK m \in session[id].batch :
                session' = [session EXCEPT ![id] = SentOne(session[id], m)]
        BY <3>3, SendStep
      <4>2. SentOne(session[id], m).stage \in {"reading", "sending", "serving"}
        BY BookTypes, SentOneIs
      <4> QED
        BY <4>1, <4>2, BookTypes
    <3> QED
      BY <1>4, <3>1, <3>2, <3>3
  <2>3. "registered" \notin {"reading", "sending", "serving"}
    OBVIOUS
  <2> QED
    BY <2>1, <2>2, <2>3, QuietGoesOn
<1>5. ASSUME NEW id \in ListenerIds, hub_event(id)
      PROVE  \A l \in ListenerIds : GoesOn(l)
  <2>1. /\ phase[id] = "listening" /\ session[id].stage = "serving"
        /\ phase' = [phase EXCEPT ![id] = IF Head(queues[id]) = Gone THEN "ended" ELSE @]
        /\ session' = [session EXCEPT ![id] = notify(@, {Head(queues[id])} \ {Gone})]
        /\ UNCHANGED <<slots, place>>
    BY <1>5 DEF hub_event, Running, Hub!recv
  <2>2. /\ \A l \in ListenerIds : l # id => session'[l] = session[l] /\ phase'[l] = phase[l]
        /\ phase'[id] # "unused"
    BY <2>1, HubFacts, BookTypes DEF BaseInv
  <2>3. session'[id].stage = session[id].stage
    BY <2>1, BookTypes DEF notify, Session
  <2> QED
    BY <2>1, <2>2, <2>3, OneGoesOn
<1>6. ASSUME NEW id \in ListenerIds, hub_closed(id) \/ session_ends(id)
      PROVE  \A l \in ListenerIds : GoesOn(l)
  <2>1. /\ phase' = [phase EXCEPT ![id] = "ended"]
        /\ UNCHANGED <<slots, place, session>>
    BY <1>6 DEF hub_closed, session_ends, Hub!recv_closed, Hub!leave
  <2>2. phase'[id] # "unused" /\ \A l \in ListenerIds : l # id => phase'[l] = phase[l]
    BY <2>1, HubFacts DEF BaseInv
  <2> QED
    BY <2>1, <2>2, OneGoesOn
<1>7. ASSUME NEW id \in ListenerIds, drop_session(id)
      PROVE  \A l \in ListenerIds : GoesOn(l)
  <2>1. /\ phase[id] = "ended" /\ phase' = [phase EXCEPT ![id] = "dropped"]
        /\ slots' = Hub!unregister(id) /\ UNCHANGED place
        /\ session' = [session EXCEPT ![id] = NoSession]
    BY <1>7 DEF drop_session, drop_listener, Hub!drop_listener
  <2>2. /\ phase[id] # "unused" /\ phase'[id] # "unused"
        /\ \A l \in ListenerIds : l # id => phase'[l] = phase[l] /\ session'[l] = session[l]
        /\ session'[id].stage # "registered"
    BY <2>1, HubFacts, BookTypes DEF BaseInv, NoSession
  <2> QED
    BY <2>1, <2>2, OneGoesOn
<1>8. ASSUME NEW id \in ListenerIds, NEW m, NEW code, ack(id, m, code)
      PROVE  \A l \in ListenerIds : GoesOn(l)
  <2>1. PICK left : left = session[id].unacked \ {m}
    OBVIOUS
  <2>2. /\ session[id].stage = "serving"
        /\ session' = [session EXCEPT
              ![id].unacked = left,
              ![id].stage = IF left = {} /\ session[id].more THEN "reading" ELSE @]
        /\ UNCHANGED hubVars
    BY <1>8, <2>1 DEF ack, Acknowledged, Running, notifyVars
  <2>3. /\ \A l \in ListenerIds : l # id => session'[l] = session[l]
        /\ session'[id].stage # "registered"
    BY <2>2, BookTypes DEF Session
  <2> QED
    BY <2>2, <2>3, QuietGoesOn
<1>9. ASSUME TaskFaults
      PROVE  \A l \in ListenerIds : GoesOn(l)
  BY <1>1, <1>9 DEF TaskFaults, forward_fails, cancelled
<1>10. ASSUME tick
       PROVE  \A l \in ListenerIds : GoesOn(l)
  BY <1>1, <1>10 DEF tick, notifyVars
<1>11. ~\E id \in ListenerIds : forget(id)
  BY DEF forget
<1>12. ASSUME SessionSteps \/ ClientSteps
       PROVE  \A l \in ListenerIds : GoesOn(l)
  BY <1>4, <1>5, <1>6, <1>7, <1>8, <1>12, HelloGoesOn DEF SessionSteps, SessionStep, ClientSteps
<1> QED
  BY <1>2, <1>3, <1>9, <1>10, <1>11, <1>12, CrashGoesOn DEF DeliveryNext

-----------------------------------------------------------------------------
(***************************************************************************)
(* The cluster's invariant.                                                *)
(***************************************************************************)

\* Where a connection was, it stays.
LEMMA ListenedStays ==
    ASSUME NEW id \in ListenerIds, GoesOn(id), NEW n, NEW to, Listened(id, n, to)
    PROVE  Listened(id, n, to)'
BY DEF GoesOn, Listened

\* A step that does not write routes: new tasks have to be sound.
LEMMA RoutesUntouched ==
    ASSUME BaseInv, ClusterInv, \A l \in ListenerIds : GoesOn(l), PlacesDiffer',
           UNCHANGED <<routes, newest>>, faults' = 0 => faults = 0,
           \A t \in tasks' : \/ t \in tasks
                             \/ ForwardLeads(t)' /\ (faults' = 0 => CleanupLate(t)')
    PROVE  ClusterInv'
<1>1. ASSUME NEW to \in Recipients
      PROVE  Leads(to)'
  BY ListenedStays DEF ClusterInv, Leads
<1>2. ASSUME NEW t \in tasks
      PROVE  ForwardLeads(t)'
  BY ListenedStays DEF ClusterInv, ForwardLeads
<1>3. ASSUME NEW t \in tasks, faults = 0
      PROVE  CleanupLate(t)'
  <2>1. SUFFICES ASSUME t.step = "clear" PROVE CleanupLate(t)'
    BY DEF CleanupLate
  <2>2. PICK id \in ListenerIds : Listened(id, t.target, t.to) /\ ~Hub!Attached(id)
    BY <1>3, <2>1 DEF ClusterInv, CleanupLate
  <2>3. Listened(id, t.target, t.to)'
    BY <2>2, ListenedStays
  <2>4. ~Hub!Attached(id)'
    BY <2>2 DEF GoesOn, Listened
  <2> QED
    BY <2>3, <2>4 DEF CleanupLate
<1>4. ASSUME NEW to \in Recipients, faults = 0
      PROVE  NamesNewest(to)'
  <2> SUFFICES ASSUME newest[to] # None, Hub!Attached(newest[to])'
               PROVE  routes[to] = NodeOf(newest[to])'
    BY DEF NamesNewest
  <2>1. PICK l \in ListenerIds : l = newest[to] /\ phase[l] # "unused"
    BY BookTypes DEF BaseInv, NewestFits, Maybe
  <2>2. Hub!Attached(l) /\ place'[l] = place[l]
    BY <2>1 DEF GoesOn, Hub!Attached
  <2> QED
    BY <1>4, <2>1, <2>2 DEF ClusterInv, NamesNewest, NodeOf
<1> QED
  BY <1>1, <1>2, <1>3, <1>4 DEF ClusterInv

\* Most steps announce nothing to another node and clear nothing.
LEMMA PlainKeepsCluster ==
    ASSUME BaseInv, ClusterInv, \A l \in ListenerIds : GoesOn(l),
           UNCHANGED <<place, routes, newest>>, faults' = 0 => faults = 0,
           \A t \in tasks' : t \in tasks \/ t.step \in {"notify", "route"}
    PROVE  ClusterInv'
<1>1. PlacesDiffer'
  BY DEF ClusterInv, PlacesDiffer
<1>2. \A t \in tasks' : \/ t \in tasks
                        \/ ForwardLeads(t)' /\ (faults' = 0 => CleanupLate(t)')
  BY DEF ForwardLeads, CleanupLate
<1> QED
  BY <1>1, <1>2, RoutesUntouched

LEMMA HelloKeepsCluster ==
    ASSUME BaseInv, ClusterInv, Clustered, ~Revisit, NEW n \in ConnectNodes, NEW u \in Uaids,
           NEW id \in ListenerIds, hello(n, u, id)
    PROVE  ClusterInv'
<1>1. /\ \A other \in ListenerIds : place[other] # <<n, u>>
      /\ Hub!register(n, u, id) /\ UNCHANGED <<routes, newest, tasks, faults>>
  BY DEF hello, listen, touch_user_agent
<1>2. place' = [place EXCEPT ![id] = <<n, u>>]
  BY <1>1 DEF Hub!register
<1>3. PlacesDiffer'
  BY <1>1, <1>2, HubFacts DEF BaseInv, ClusterInv, PlacesDiffer
<1> QED
  BY <1>1, <1>3, HelloGoesOn, RoutesUntouched

\* The connection that a slot holds is the one of its place.
LEMMA SlotOfPlace ==
    ASSUME Hub!HubInv, PlacesDiffer, NEW id \in ListenerIds, NEW n \in Nodes,
           NEW to \in Recipients, Listened(id, n, to)
    PROVE  /\ Hub!Attached(id) <=> slots[n][to] = id
           /\ slots[n][to] # None => slots[n][to] = id
<1>1. Hub!Attached(id) <=> slots[n][to] = id
  BY DEF Listened, Hub!Attached
<1>2. slots[n][to] # None =>
         slots[n][to] \in ListenerIds /\ place[slots[n][to]] = <<n, to>>
  BY HubFacts
<1>3. place[id] = <<n, to>> /\ <<n, to>> # None
  BY NotifyAssumption DEF Listened
<1> QED
  BY <1>1, <1>2, <1>3 DEF PlacesDiffer

\* A dropped session cleans up after itself, when it is out of its slot.
LEMMA DropKeepsCluster ==
    ASSUME BaseInv, BaseInv', ClusterInv, Clustered, \A l \in ListenerIds : GoesOn(l),
           NEW id \in ListenerIds, drop_session(id)
    PROVE  ClusterInv'
<1>1. /\ Hub!drop_listener(id)
      /\ tasks' = tasks \cup
            {[Announce(id, NodeOf(id), RecipientOf(id), <<>>) EXCEPT
                !.step = "clear", !.target = n] :
             n \in {x \in {NodeOf(id)} : Clustered /\ Hub!Attached(id)}}
      /\ session' = [session EXCEPT ![id] = NoSession]
      /\ UNCHANGED <<storeVars, newest, faults>>
  BY DEF drop_session, drop_listener
<1>2. /\ phase[id] = "ended" /\ slots' = Hub!unregister(id) /\ UNCHANGED place
      /\ phase'[id] = "dropped" /\ session'[id].stage = "idle"
  BY <1>1, HubFacts, BookTypes DEF Hub!drop_listener, BaseInv, NoSession
<1>3. /\ NodeOf(id) \in Nodes /\ RecipientOf(id) \in Recipients
      /\ place[id] = <<NodeOf(id), RecipientOf(id)>>
  BY <1>2, PlaceFacts DEF BaseInv
<1>5. ~Hub!Attached(id)'
  <2>1. slots'[NodeOf(id)][RecipientOf(id)] # id
    BY <1>2, <1>3, UnregisterEffect, NotifyAssumption DEF BaseInv
  <2> QED
    BY <1>2, <1>3, <2>1 DEF Hub!Attached, NodeOf, RecipientOf
<1>6. ASSUME NEW t \in tasks', t \notin tasks
      PROVE  ForwardLeads(t)' /\ CleanupLate(t)'
  <2>1. t = CleanupOf(id)
    BY <1>1, <1>6 DEF CleanupOf
  <2>2. t.to = RecipientOf(id) /\ t.step = "clear" /\ t.target = NodeOf(id)
    BY <1>2, <2>1, CleanupFits DEF BaseInv
  <2>3. Listened(id, t.target, t.to)'
    BY <1>2, <1>3, <2>2 DEF Listened
  <2> QED
    BY <1>5, <2>2, <2>3 DEF ForwardLeads, CleanupLate
<1>7. PlacesDiffer'
  BY <1>2 DEF ClusterInv, PlacesDiffer
<1> QED
  BY <1>1, <1>6, <1>7, RoutesUntouched DEF storeVars

\* The task that goes on is the only new one.
LEMMA GotoTask ==
    ASSUME BaseInv, NEW t \in tasks, NEW step, NEW target, Goto(t, step, target)
    PROVE  \E v : /\ tasks' = (tasks \ {t}) \cup {v}
                  /\ v.node = t.node /\ v.to = t.to /\ v.events = t.events
                  /\ v.step = step /\ v.target = target
<1>1. PICK v : v = [t EXCEPT !.step = step, !.target = target]
  OBVIOUS
<1>2. IsTask(t)
  BY TaskEvents
<1>3. /\ v.node = t.node /\ v.to = t.to /\ v.events = t.events
      /\ v.step = step /\ v.target = target
  BY <1>1, <1>2 DEF IsTask
<1> QED
  BY <1>1, <1>3 DEF Goto

\* Only messages are routed, and by nodes that hold no session.
LEMMA RoutedTasks ==
    ASSUME BaseInv, NEW t \in tasks, t.step \in {"notify", "route"}
    PROVE  t.node \in EndpointNodes /\ t.events # <<Gone>> /\ \E m \in Known : t.events = <<m>>
<1>1. t.node \in EndpointNodes /\ \E m \in Known : t.events = <<m>>
  BY TaskEvents DEF TaskFits
<1>2. Gone \notin Known
  BY GoneIsNoMessage DEF BaseInv
<1> QED
  BY <1>1, <1>2

LEMMA ReadRouteKeepsCluster ==
    ASSUME BaseInv, ClusterInv, \A l \in ListenerIds : GoesOn(l),
           ConnectNodes \cap EndpointNodes = {}, NEW t \in tasks, read_route(t)
    PROVE  ClusterInv'
<1>1. t.step = "route" /\ UNCHANGED <<storeVars, hubVars, newest, faults>>
  BY DEF read_route
<1>2. t.node \in EndpointNodes /\ t.events # <<Gone>> /\ t.to \in Recipients
  BY <1>1, RoutedTasks, TaskEvents DEF IsTask
<1>3. UNCHANGED <<routes, place>>
  BY <1>1 DEF storeVars, hubVars
<1>4. PlacesDiffer'
  BY <1>3 DEF ClusterInv, PlacesDiffer
<1>5. CASE Done(t)
  BY <1>1, <1>3, <1>4, <1>5, DoneEnds, RoutesUntouched
<1>6. CASE ~Done(t)
  <2>1. routes[t.to] # None
    BY <1>6 DEF read_route
  <2>2. PICK id \in ListenerIds : Listened(id, routes[t.to], t.to)
    BY <1>2, <2>1 DEF ClusterInv, Leads
  <2>3. routes[t.to] \in ConnectNodes
    BY <2>2 DEF BaseInv, SessionFits, Listened, NodeOf
  <2>4. Goto(t, "forward", routes[t.to])
    BY <1>2, <1>6, <2>3 DEF read_route
  <2>5. PICK v : /\ tasks' = (tasks \ {t}) \cup {v} /\ v.to = t.to /\ v.events = t.events
                 /\ v.step = "forward" /\ v.target = routes[t.to]
    BY <2>4, GotoTask
  <2>6. Listened(id, v.target, v.to)'
    BY <2>2, <2>5, ListenedStays
  <2>7. ForwardLeads(v)' /\ CleanupLate(v)'
    BY <1>2, <2>5, <2>6 DEF ForwardLeads, CleanupLate
  <2> QED
    BY <1>1, <1>3, <1>4, <2>5, <2>7, RoutesUntouched
<1> QED
  BY <1>5, <1>6

LEMMA ForwardKeepsCluster ==
    ASSUME BaseInv, ClusterInv, \A l \in ListenerIds : GoesOn(l), NEW t \in tasks, forward(t)
    PROVE  ClusterInv'
<1>1. /\ t.step = "forward" /\ Hub!notify(t.target, t.to, Head(t.events))
      /\ UNCHANGED <<storeVars, newest, faults>>
  BY DEF forward
<1>2. /\ Head(t.events) \in Events \cup {Gone} /\ t.target \in Nodes /\ t.to \in Recipients
      /\ Hub!HubInv
  BY <1>1, TaskNotifies DEF BaseInv
<1>3. UNCHANGED <<routes, place, phase>>
  BY <1>1, <1>2, NotifyEffect DEF storeVars
<1>4. PlacesDiffer'
  BY <1>3 DEF ClusterInv, PlacesDiffer
<1>5. CASE Done(t)
  BY <1>1, <1>3, <1>4, <1>5, DoneEnds, RoutesUntouched
<1>6. CASE ~Done(t)
  <2>1. Hub!Notified(t.target, t.to) = "Absent" /\ Goto(t, "clear", t.target)
    BY <1>6 DEF forward
  <2>2. slots[t.target][t.to] = None
    BY <1>1, <1>2, <2>1, NotifyEffect
  <2>3. PICK id \in ListenerIds : Listened(id, t.target, t.to)
    BY <1>1 DEF ClusterInv, ForwardLeads
  <2>4. ~Hub!Attached(id)
    BY <1>2, <2>2, <2>3, SlotOfPlace, NotifyAssumption DEF ClusterInv
  <2>5. PICK v : /\ tasks' = (tasks \ {t}) \cup {v} /\ v.to = t.to
                 /\ v.step = "clear" /\ v.target = t.target
    BY <2>1, GotoTask
  <2>6. Listened(id, v.target, v.to)' /\ ~Hub!Attached(id)'
    BY <2>3, <2>4, <2>5, ListenedStays DEF GoesOn, Listened
  <2>7. ForwardLeads(v)' /\ CleanupLate(v)'
    BY <2>5, <2>6 DEF ForwardLeads, CleanupLate
  <2> QED
    BY <1>1, <1>3, <1>4, <2>5, <2>7, RoutesUntouched
<1> QED
  BY <1>5, <1>6

LEMMA FailedForwardKeepsCluster ==
    ASSUME BaseInv, ClusterInv, \A l \in ListenerIds : GoesOn(l), NEW t \in tasks,
           NEW connected, forward_fails(t, connected)
    PROVE  ClusterInv'
<1>1. t.step = "forward" /\ faults' = faults + 1 /\ UNCHANGED <<storeVars, hubVars, newest>>
  BY DEF forward_fails
<1>2. UNCHANGED <<routes, place>> /\ faults' # 0
  BY <1>1, BookTypes DEF storeVars, hubVars
<1>3. PlacesDiffer'
  BY <1>2 DEF ClusterInv, PlacesDiffer
<1>4. CASE Done(t)
  BY <1>1, <1>2, <1>3, <1>4, DoneEnds, RoutesUntouched
<1>5. CASE Goto(t, "clear", t.target)
  <2>1. PICK v : tasks' = (tasks \ {t}) \cup {v} /\ v.step = "clear"
    BY <1>5, GotoTask
  <2>2. ForwardLeads(v)'
    BY <2>1 DEF ForwardLeads
  <2> QED
    BY <1>1, <1>2, <1>3, <2>1, <2>2, RoutesUntouched
<1> QED
  BY <1>4, <1>5 DEF forward_fails

\* A stale cleanup does not touch the route of the newest connection: it was
\* spawned for a node whose connection is gone.
LEMMA CleanupKeepsCluster ==
    ASSUME BaseInv, ClusterInv, \A l \in ListenerIds : GoesOn(l), NEW t \in tasks,
           clear_stale(t), UNCHANGED session
    PROVE  ClusterInv'
<1>1. /\ t.step = "clear" /\ Done(t) /\ UNCHANGED <<hubVars, newest, faults>>
      /\ routes' = [routes EXCEPT ![t.to] = IF @ = t.target THEN None ELSE @]
  BY DEF clear_stale, clear_route
<1>2. tasks' = tasks \ {t} /\ UNCHANGED place
  BY <1>1, DoneEnds DEF hubVars
<1>3. /\ routes \in [Recipients -> Maybe(Nodes)]
      /\ \A to \in Recipients :
            \/ routes'[to] = routes[to]
            \/ to = t.to /\ routes[to] = t.target /\ routes'[to] = None
  BY <1>1 DEF BaseInv, StoreInv, StoreTypeOK
<1>4. PlacesDiffer'
  BY <1>2 DEF ClusterInv, PlacesDiffer
<1>5. ASSUME NEW to \in Recipients
      PROVE  Leads(to)'
  BY <1>3, ListenedStays DEF ClusterInv, Leads
<1>6. ASSUME NEW u \in tasks
      PROVE  ForwardLeads(u)'
  BY <1>1, ListenedStays DEF ClusterInv, ForwardLeads
<1>7. ASSUME NEW u \in tasks, faults = 0
      PROVE  CleanupLate(u)'
  BY <1>1, <1>7, ListenedStays DEF ClusterInv, CleanupLate, Hub!Attached, hubVars
<1>8. ASSUME NEW to \in Recipients, faults = 0
      PROVE  NamesNewest(to)'
  <2> SUFFICES ASSUME newest[to] # None, Hub!Attached(newest[to])
               PROVE  routes'[to] = NodeOf(newest[to])
    BY <1>1 DEF NamesNewest, Hub!Attached, hubVars, NodeOf
  <2>1. PICK l \in ListenerIds : l = newest[to] /\ phase[l] # "unused" /\ RecipientOf(l) = to
    BY BookTypes DEF BaseInv, NewestFits, Maybe
  <2>2. routes[to] = NodeOf(l) /\ place[l] = <<NodeOf(l), to>>
    BY <1>8, <2>1, PlaceFacts DEF ClusterInv, NamesNewest, BaseInv
  <2>3. ASSUME to = t.to, routes[to] = t.target
        PROVE  FALSE
    <3>1. PICK id \in ListenerIds : Listened(id, t.target, t.to) /\ ~Hub!Attached(id)
      BY <1>1, <1>8 DEF ClusterInv, CleanupLate
    <3>2. place[id] = place[l] /\ place[l] # None
      BY <2>1, <2>2, <2>3, <3>1, HubFacts DEF Listened, BaseInv
    <3>3. id = l
      BY <3>2 DEF ClusterInv, PlacesDiffer
    <3> QED
      BY <2>1, <3>1, <3>3
  <2> QED
    BY <1>3, <2>1, <2>2, <2>3
<1> QED
  BY <1>1, <1>2, <1>4, <1>5, <1>6, <1>7, <1>8 DEF ClusterInv

\* Completing listen() takes over the route, and Gone goes to the node that
\* held it, where the newest connection is not.
LEMMA ListenKeepsCluster ==
    ASSUME BaseInv, ClusterInv, \A l \in ListenerIds : GoesOn(l), NEW id \in ListenerIds,
           listen_done(id)
    PROVE  ClusterInv'
<1>1. /\ phase[id] = "listening" /\ session[id].stage = "registered"
      /\ newest' = [newest EXCEPT ![RecipientOf(id)] = id]
      /\ routes' = [routes EXCEPT ![RecipientOf(id)] = NodeOf(id)]
      /\ UNCHANGED <<hubVars, faults>>
      /\ tasks' = tasks \cup {GoneTo(p, id) : p \in Superseded(id)}
      /\ session' = [session EXCEPT ![id].stage = "reading"]
  BY DEF listen_done, Running, take_route, RouteTaken, set_route
<1>2. PICK to, n : to = RecipientOf(id) /\ n = NodeOf(id)
  OBVIOUS
<1>3. to \in Recipients /\ n \in Nodes /\ place[id] = <<n, to>>
  BY <1>1, <1>2, PlaceFacts DEF BaseInv
<1>4. /\ newest'[to] = id /\ routes'[to] = n
      /\ \A r \in Recipients : r # to => newest'[r] = newest[r] /\ routes'[r] = routes[r]
  BY <1>1, <1>2, <1>3, BookTypes DEF BaseInv, StoreInv, StoreTypeOK
<1>5. PlacesDiffer'
  BY <1>1 DEF ClusterInv, PlacesDiffer, hubVars
<1>6. Listened(id, n, to)'
  <2>1. session'[id].stage = "reading"
    BY <1>1, BookTypes DEF Session
  <2> QED
    BY <1>1, <1>3, <2>1 DEF Listened, hubVars
<1>7. ASSUME NEW r \in Recipients
      PROVE  Leads(r)'
  BY <1>4, <1>6, ListenedStays DEF ClusterInv, Leads
<1>8. \A l \in ListenerIds : \A m, r : Listened(l, m, r) => l # id
  BY <1>1 DEF Listened
<1>9. ASSUME NEW t \in tasks
      PROVE  ForwardLeads(t)'
  <2> SUFFICES ASSUME t.step = "forward"
               PROVE  ForwardLeads(t)'
    BY DEF ForwardLeads
  <2>1. PICK l \in ListenerIds : Listened(l, t.target, t.to) /\
                                 (t.events = <<Gone>> => newest[t.to] # l)
    BY DEF ClusterInv, ForwardLeads
  <2>2. t.to \in Recipients
    BY TaskEvents DEF IsTask
  <2>3. t.events = <<Gone>> => newest'[t.to] # l
    BY <1>4, <1>8, <2>1, <2>2
  <2>4. Listened(l, t.target, t.to)'
    BY <2>1, ListenedStays
  <2> QED
    BY <2>3, <2>4 DEF ForwardLeads
<1>10. ASSUME NEW t \in tasks', t \notin tasks
       PROVE  ForwardLeads(t)' /\ CleanupLate(t)'
  <2>1. PICK p : t = GoneTo(p, id) /\ p = routes[to] /\ p # None /\ p # n
    BY <1>1, <1>2, <1>10 DEF Superseded
  <2>2. p \in Nodes
    BY <1>3, <2>1 DEF BaseInv, StoreInv, StoreTypeOK, Maybe
  <2>3. t.to = to /\ t.step = "forward" /\ t.target = p
    BY <2>1 , <1>2 DEF GoneTo, Announce
  <2>4. PICK l \in ListenerIds : Listened(l, p, to)
    BY <1>3, <2>1 DEF ClusterInv, Leads
  <2>5. Listened(l, p, to)' /\ l # id
    BY <1>8, <2>4, ListenedStays
  <2> QED
    BY <1>4, <2>3, <2>5 DEF ForwardLeads, CleanupLate
<1>11. ASSUME NEW t \in tasks, faults = 0
       PROVE  CleanupLate(t)'
  BY <1>1, <1>11, ListenedStays DEF ClusterInv, CleanupLate, Hub!Attached, hubVars
<1>12. ASSUME NEW r \in Recipients, faults = 0
       PROVE  NamesNewest(r)'
  <2>1. CASE r = to
    BY <1>1, <1>2, <1>4, <2>1 DEF NamesNewest, NodeOf, hubVars
  <2>2. CASE r # to
    <3>1. newest'[r] = newest[r] /\ routes'[r] = routes[r] /\ NamesNewest(r)
      BY <1>4, <1>12, <2>2 DEF ClusterInv
    <3> QED
      BY <1>1, <3>1 DEF NamesNewest, NodeOf, Hub!Attached, hubVars
  <2> QED
    BY <2>1, <2>2
<1> QED
  BY <1>1, <1>5, <1>7, <1>9, <1>10, <1>11, <1>12 DEF ClusterInv

\* Every step of a cluster keeps its invariant.
LEMMA ClusterStep ==
    ASSUME BaseInv, BaseInv', ClusterInv, Clustered, ~Revisit,
           ConnectNodes \cap EndpointNodes = {}, DeliveryNext
    PROVE  ClusterInv'
<1> USE StepGoesOn
<1>1. ASSUME PushSteps
      PROVE  ClusterInv'
  <2>1. ASSUME NEW n \in EndpointNodes, NEW s, NEW id, NEW topic, NEW ttl,
               store_and_notify(n, s, id, topic, ttl)
        PROVE  ClusterInv'
    <3>1. /\ tasks' = tasks \cup {Announce(id, n, s.uaid, <<id>>)}
          /\ UNCHANGED <<place, routes, newest, faults>>
      BY <2>1 DEF store_and_notify, insert_message, hubVars
    <3>2. Announce(id, n, s.uaid, <<id>>).step = "notify"
      BY DEF Announce
    <3> QED
      BY <3>1, <3>2, PlainKeepsCluster
  <2>2. ASSUME UNCHANGED notifyVars, UNCHANGED routes
        PROVE  ClusterInv'
    BY <2>2, PlainKeepsCluster DEF notifyVars, hubVars
  <2>3. ASSUME NEW id, withdraw_message(id)
        PROVE  ClusterInv'
    BY <2>2, <2>3 DEF withdraw_message, delete_message
  <2>4. ASSUME reap_loop
        PROVE  ClusterInv'
    BY <2>2, <2>4 DEF reap_loop, reap
  <2> QED
    BY <1>1, <2>1, <2>3, <2>4 DEF PushSteps
<1>2. ASSUME TaskSteps
      PROVE  ClusterInv'
  <2>1. ASSUME NEW t \in tasks, notify_local(t)
        PROVE  ClusterInv'
    <3>1. /\ Hub!notify(t.node, t.to, Head(t.events)) /\ UNCHANGED <<storeVars, newest, faults>>
          /\ Goto(t, "route", None) \/ Done(t)
      BY <2>1 DEF notify_local
    <3>2. UNCHANGED <<place, routes>>
      BY <3>1 DEF Hub!notify, storeVars
    <3>3. \A u \in tasks' : u \in tasks \/ u.step \in {"notify", "route"}
      <4>1. CASE Done(t)
        BY <4>1, DoneEnds
      <4>2. CASE Goto(t, "route", None)
        BY <4>2, GotoTask
      <4> QED
        BY <3>1, <4>1, <4>2
    <3> QED
      BY <3>1, <3>2, <3>3, PlainKeepsCluster
  <2> QED
    BY <1>2, <2>1, ReadRouteKeepsCluster, ForwardKeepsCluster, CleanupKeepsCluster DEF TaskSteps
<1>3. ASSUME NEW id \in ListenerIds,
             \/ next_batch(id) \/ send_stored(id) \/ hub_event(id)
             \/ hub_closed(id) \/ session_ends(id)
      PROVE  ClusterInv'
  <2>1. UNCHANGED <<place, storeVars, newest, tasks, faults>>
    BY <1>3
    DEF next_batch, ReadBatch, send_stored, hub_event, hub_closed, session_ends, Hub!recv, Hub!recv_closed,
        Hub!leave, notifyVars, hubVars
  <2> QED
    BY <2>1, PlainKeepsCluster DEF storeVars
<1>4. ASSUME NEW id \in ListenerIds, NEW m, NEW code, ack(id, m, code)
      PROVE  ClusterInv'
  <2>1. UNCHANGED <<place, newest, tasks, faults>> /\ Settle(id, m, code)
    BY <1>4 DEF ack, Acknowledged, notifyVars, hubVars
  <2>2. UNCHANGED routes
    BY <2>1 DEF Settle, delete_message, storeVars
  <2> QED
    BY <2>1, <2>2, PlainKeepsCluster
<1>5. ASSUME TaskFaults
      PROVE  ClusterInv'
  <2>1. ASSUME NEW t \in tasks, cancelled(t)
        PROVE  ClusterInv'
    <3>1. tasks' = tasks \ {t} /\ faults' = faults + 1 /\ UNCHANGED <<storeVars, hubVars, newest>>
      BY <2>1 DEF cancelled
    <3>2. faults' # 0 /\ UNCHANGED <<place, routes>>
      BY <3>1, BookTypes DEF storeVars, hubVars
    <3> QED
      BY <3>1, <3>2, PlainKeepsCluster
  <2> QED
    BY <1>5, <2>1, FailedForwardKeepsCluster DEF TaskFaults
<1>6. ASSUME NEW n \in Nodes, crash_session_node(n)
      PROVE  ClusterInv'
  <2>1. /\ tasks' = {t \in tasks : t.node # n} /\ faults' = faults + 1
        /\ UNCHANGED <<storeVars, place, newest>>
    BY <1>6 DEF crash_session_node, crash
  <2>2. faults' # 0 /\ UNCHANGED routes
    BY <2>1, BookTypes DEF storeVars
  <2> QED
    BY <2>1, <2>2, PlainKeepsCluster
<1>7. ASSUME tick
      PROVE  ClusterInv'
  BY <1>7, PlainKeepsCluster DEF tick, storeVars, notifyVars, hubVars
<1>8. ~\E id \in ListenerIds : forget(id)
  BY DEF forget
<1>9. ASSUME SessionSteps
      PROVE  ClusterInv'
  BY <1>3, <1>9, ListenKeepsCluster, DropKeepsCluster DEF SessionSteps, SessionStep
<1>10. ASSUME ClientSteps
       PROVE  ClusterInv'
  BY <1>3, <1>4, <1>10, HelloKeepsCluster DEF ClientSteps
<1> QED
  BY <1>1, <1>2, <1>5, <1>6, <1>7, <1>8, <1>9, <1>10 DEF DeliveryNext

-----------------------------------------------------------------------------
(***************************************************************************)
(* Every connection is fine.                                               *)
(***************************************************************************)

\* A step that the session takes no part in.
LEMMA BystanderFine ==
    ASSUME BaseInv, BaseInv', MailKept, NEW l \in ListenerIds, Fine(l),
           place'[l] = place[l], session'[l] = session[l],
           phase'[l] = "listening" => phase[l] = "listening",
           Hub!Attached(l)' => Hub!Attached(l),
           newest'[RecipientOf(l)] = l => newest[RecipientOf(l)] = l,
           \/ Gone \in Items(queues'[l]) => Gone \in Items(queues[l])
           \/ newest'[RecipientOf(l)] # l /\ session[l].stage # "registered",
           faults' = 0 => faults = 0, clock' = clock \/ clock' = clock + 1,
           Serves(l)' => \A m \in messages' : m.uaid = RecipientOf(l) =>
               \/ m \in messages /\ (Reaches(l, m.id) => Reaches(l, m.id)')
               \/ Reaches(l, m.id)'
    PROVE  Fine(l)'
<1>1. RecipientOf(l)' = RecipientOf(l)
  BY DEF RecipientOf
<1>2. Unreplaced(l)'
  BY <1>1 DEF Fine, Unreplaced, RecipientOf
<1>3. Awaits(l)'
  <2> SUFFICES ASSUME NEW m \in messages', m.id \in session[l].sent, m.uaid = RecipientOf(l)
               PROVE  m.id \in session[l].unacked
    BY <1>1 DEF Awaits
  <2>1. m.id \in issued
    BY DEF BaseInv, SessionFits, Known
  <2>2. m \in messages
    BY <2>1 DEF MailKept
  <2> QED
    BY <2>2 DEF Fine, Awaits
<1>4. Served(l)'
  <2> SUFFICES ASSUME Serves(l)', NEW m \in messages', m.uaid = RecipientOf(l), m.expiry > clock'
               PROVE  Reaches(l, m.id)'
    BY <1>1 DEF Served
  <2>1. Serves(l)
    BY <1>1 DEF Serves
  <2>2. m.expiry > clock
    <3>1. m.expiry \in Nat
      BY TimesAssumption DEF BaseInv, StoreInv, StoreTypeOK, Message
    <3>2. clock \in Nat
      BY ClockFits
    <3> QED
      BY <3>1, <3>2
  <2>3. m \in messages => Reaches(l, m.id)
    BY <2>1, <2>2 DEF Fine, Served
  <2> QED
    BY <2>3
<1> QED
  BY <1>2, <1>3, <1>4 DEF Fine

\* What is on its way stays so as long as its task does not move.
LEMMA WayKept ==
    ASSUME NEW l, NEW x, place'[l] = place[l], OnItsWay(x, l),
           \A t \in tasks : t \in tasks' \/ t.step = "clear"
    PROVE  OnItsWay(x, l)'
BY DEF OnItsWay, NodeOf

\* Steps that neither the hubs nor the sessions take part in, and that move no
\* announcement.
LEMMA QuietFine ==
    ASSUME BaseInv, BaseInv', MailKept, NEW l \in ListenerIds, Fine(l),
           UNCHANGED <<hubVars, session, newest>>,
           faults' = 0 => faults = 0, clock' = clock \/ clock' = clock + 1,
           \/ faults' # 0
           \/ /\ \A t \in tasks : t \in tasks' \/ t.step = "clear"
              /\ \A m \in messages' : m \in messages \/ OnItsWay(m.id, l)'
    PROVE  Fine(l)'
<1>1. /\ place' = place /\ phase' = phase /\ queues' = queues
      /\ Hub!Attached(l)' => Hub!Attached(l)
  BY DEF hubVars, Hub!Attached
<1>2. ASSUME NEW x, Reaches(l, x), faults' = 0
      PROVE  Reaches(l, x)'
    <2>1. ASSUME OnItsWay(x, l)
          PROVE  OnItsWay(x, l)'
      BY <1>1, <1>2, <2>1, WayKept
    <2> QED
      BY <1>1, <1>2, <2>1 DEF Reaches
<1>3. ASSUME Serves(l)', NEW m \in messages'
      PROVE  \/ m \in messages /\ (Reaches(l, m.id) => Reaches(l, m.id)')
             \/ Reaches(l, m.id)'
  <2>1. faults' = 0
    BY <1>3 DEF Serves
  <2> QED
    BY <1>2, <2>1 DEF Reaches
<1> QED
  BY <1>1, <1>3, BystanderFine

LEMMA PushFine ==
    ASSUME BaseInv, BaseInv', MailKept, PushSteps, NEW l \in ListenerIds, Fine(l)
    PROVE  Fine(l)'
<1>1. ASSUME NEW n \in EndpointNodes, NEW s, NEW id, NEW topic, NEW ttl,
             store_and_notify(n, s, id, topic, ttl)
      PROVE  Fine(l)'
  <2>1. PICK m : m = [id |-> id, uaid |-> s.uaid, channel_id |-> s.channel_id, topic |-> topic,
                      accepted |-> clock, expiry |-> clock + ttl, rsub |-> None]
    OBVIOUS
  <2>2. PICK u : u = Announce(id, n, s.uaid, <<id>>)
    OBVIOUS
  <2>3. /\ insert_message(m) /\ m.id = id /\ tasks' = tasks \cup {u}
        /\ UNCHANGED <<hubVars, newest, faults, session, clock>>
    BY <1>1, <2>1, <2>2 DEF store_and_notify
  <2>4. u.events = <<id>> /\ u.step = "notify"
    BY <2>2 DEF Announce
  <2>5. \A x \in messages' : x \in messages \/ x = m
    BY <2>3 DEF insert_message
  <2>6. OnItsWay(m.id, l)'
    BY <2>3, <2>4 DEF OnItsWay
  <2> QED
    BY <2>3, <2>5, <2>6, QuietFine
<1>2. ASSUME UNCHANGED <<notifyVars, session, clock>>, messages' \subseteq messages
      PROVE  Fine(l)'
  BY <1>2, QuietFine DEF notifyVars
<1>3. ASSUME NEW id, withdraw_message(id)
      PROVE  Fine(l)'
  BY <1>2, <1>3 DEF withdraw_message, delete_message, remove_message
<1>4. ASSUME reap_loop
      PROVE  Fine(l)'
  BY <1>2, <1>4 DEF reap_loop, reap, remove_message
<1> QED
  BY <1>1, <1>3, <1>4 DEF PushSteps

LEMMA TickFine ==
    ASSUME BaseInv, BaseInv', MailKept, tick, NEW l \in ListenerIds, Fine(l)
    PROVE  Fine(l)'
<1>1. UNCHANGED <<storeVars, notifyVars, session>> /\ clock' = clock + 1
  BY DEF tick
<1>2. messages' = messages
  BY <1>1 DEF storeVars
<1> QED
  BY <1>1, <1>2, QuietFine DEF notifyVars

LEMMA FaultFine ==
    ASSUME BaseInv, BaseInv', MailKept, TaskFaults, NEW l \in ListenerIds, Fine(l)
    PROVE  Fine(l)'
<1>1. UNCHANGED <<hubVars, newest, session, clock>> /\ faults' = faults + 1
  BY DEF TaskFaults, forward_fails, cancelled
<1>2. faults' # 0
  BY <1>1, BookTypes
<1> QED
  BY <1>1, <1>2, QuietFine

\* A step that hands an event to a hub: Gone is not for the newest connection,
\* and a message that was on its way still reaches it.
LEMMA NotifyFine ==
    ASSUME BaseInv, BaseInv', MailKept, NEW l \in ListenerIds, Fine(l),
           NEW n \in Nodes, NEW to \in Recipients, NEW e \in Events \cup {Gone},
           Hub!notify(n, to, e), UNCHANGED <<storeVars, newest, faults, session, clock>>,
           e = Gone /\ slots[n][to] = l =>
               newest[RecipientOf(l)] # l /\ session[l].stage # "registered",
           Serves(l)' => \A m \in messages : m.uaid = RecipientOf(l) /\ OnItsWay(m.id, l) =>
               Reaches(l, m.id)'
    PROVE  Fine(l)'
<1>1. Hub!HubInv
  BY DEF BaseInv
<1>2. UNCHANGED <<place, phase, messages>>
  BY <1>1, NotifyEffect DEF storeVars
<1>3. Hub!Attached(l)' => Hub!Attached(l)
  <2>1. phase[l] = "unused" => ~Hub!Attached(l)'
    BY <1>2 DEF Hub!Attached
  <2> QED
    BY <2>1, NotifyGoesOn DEF GoesOn
<1>4. /\ Items(queues[l]) \subseteq Items(queues'[l])
      /\ \/ Gone \in Items(queues'[l]) => Gone \in Items(queues[l])
         \/ newest[RecipientOf(l)] # l /\ session[l].stage # "registered"
  BY <1>1, NotifyEffect
<1>5. ASSUME Serves(l)', NEW m \in messages, m.uaid = RecipientOf(l), Reaches(l, m.id)
      PROVE  Reaches(l, m.id)'
  BY <1>4, <1>5 DEF Reaches
<1> QED
  BY <1>2, <1>3, <1>4, <1>5, BystanderFine

\* A message goes to the user agent that it is stored for, and the newest
\* connection of that one is in the slot of its place.
LEMMA ServedSlot ==
    ASSUME BaseInv, NEW l \in ListenerIds, Hub!Attached(l)
    PROVE  /\ NodeOf(l) \in ConnectNodes /\ NodeOf(l) \in Nodes /\ RecipientOf(l) \in Recipients
           /\ slots[NodeOf(l)][RecipientOf(l)] = l /\ l # None
<1>1. phase[l] # "unused" /\ slots[NodeOf(l)][RecipientOf(l)] = l
  BY DEF Hub!Attached, NodeOf, RecipientOf
<1>2. NodeOf(l) \in ConnectNodes
  BY <1>1 DEF BaseInv, SessionFits
<1> QED
  BY <1>1, <1>2, PlaceFacts, NotifyAssumption DEF BaseInv

\* The local hub of a node: in a single-node deployment it has every session,
\* in a cluster those that push nodes have none and look up the route.
LEMMA LocalFine ==
    ASSUME BaseInv, BaseInv', MailKept, Deployment, NEW l \in ListenerIds, Fine(l),
           NEW t \in tasks, notify_local(t), UNCHANGED <<session, clock>>
    PROVE  Fine(l)'
<1>1. /\ t.step = "notify" /\ Hub!notify(t.node, t.to, Head(t.events))
      /\ IF Hub!Notified(t.node, t.to) = "Absent" /\ Clustered
         THEN Goto(t, "route", None) ELSE Done(t)
      /\ UNCHANGED <<storeVars, newest, faults>>
  BY DEF notify_local
<1>2. PICK e \in Known : t.events = <<e>> /\ e = Head(t.events)
  BY <1>1, RoutedTasks
<1>3. t.node \in EndpointNodes /\ t.node \in Nodes /\ t.to \in Recipients /\ Hub!HubInv
  BY <1>1, RoutedTasks, TaskEvents DEF IsTask, BaseInv
<1>4. e \in Events \cup {Gone} /\ e # Gone
  BY GoneIsNoMessage, DeliveryAssumption DEF Known, BaseInv
<1>5. ASSUME Serves(l)', NEW m \in messages, m.uaid = RecipientOf(l), OnItsWay(m.id, l)
      PROVE  Reaches(l, m.id)'
  <2>1. UNCHANGED <<place, phase>>
    BY <1>1, <1>2, <1>3, <1>4, NotifyEffect
  <2>2. Hub!Attached(l) /\ Hub!Attached(l)'
    <3>1. phase[l] # "unused" /\ Hub!Attached(l)'
      BY <1>5, <2>1 DEF Serves, Hub!Attached
    <3> QED
      BY <1>1, <1>2, <1>3, <1>4, <3>1, NotifyGoesOn DEF GoesOn
  <2>3. /\ NodeOf(l) \in ConnectNodes /\ NodeOf(l) \in Nodes
        /\ slots[NodeOf(l)][RecipientOf(l)] = l /\ l # None
    BY <2>2, ServedSlot
  <2>4. slots'[NodeOf(l)][RecipientOf(l)] = l
    BY <2>1, <2>2 DEF Hub!Attached, NodeOf, RecipientOf
  <2>5. PICK u \in tasks : /\ u.events = <<m.id>>
                           /\ \/ u.step \in {"notify", "route"}
                              \/ u.step = "forward" /\ u.target = NodeOf(l)
    BY <1>5 DEF OnItsWay
  <2>6. CASE u # t
    <3>1. u \in tasks'
      BY <1>1, <2>6, DoneEnds DEF Goto
    <3> QED
      BY <2>1, <2>5, <3>1 DEF Reaches, OnItsWay, NodeOf
  <2>7. CASE u = t
    <3>1. t.to = RecipientOf(l) /\ m.id = e
      BY <1>2, <1>5, <2>5, <2>7, TaskEvents DEF TaskFits
    <3>2. CASE ~Clustered
      <4>1. NodeOf(l) = t.node
        BY <1>3, <2>3, <3>2 DEF Deployment
      <4>2. e \in Items(queues'[l])
        BY <1>1, <1>2, <1>3, <1>4, <2>3, <2>4, <3>1, <4>1, NotifyEffect
      <4> QED
        BY <3>1, <4>2 DEF Reaches
    <3>3. CASE Clustered
      <4>1. slots[t.node][t.to] = None
        <5> SUFFICES ASSUME slots[t.node][t.to] # None
                     PROVE  FALSE
          OBVIOUS
        <5>1. PICK x \in ListenerIds : place[x] = <<t.node, t.to>> /\ phase[x] # "unused"
          BY <1>3, HubFacts
        <5>2. NodeOf(x) \in ConnectNodes /\ NodeOf(x) = t.node
          BY <5>1 DEF BaseInv, SessionFits, NodeOf
        <5> QED
          BY <1>3, <3>3, <5>2 DEF Deployment
      <4>2. Goto(t, "route", None)
        BY <1>1, <1>2, <1>3, <1>4, <3>3, <4>1, NotifyEffect
      <4>3. PICK v : v \in tasks' /\ v.events = t.events /\ v.step = "route"
        BY <4>2, GotoTask
      <4> QED
        BY <1>2, <3>1, <4>3 DEF Reaches, OnItsWay
    <3> QED
      BY <3>2, <3>3
  <2> QED
    BY <2>6, <2>7
<1> QED
  BY <1>1, <1>2, <1>3, <1>4, <1>5, NotifyFine

LEMMA RouteFine ==
    ASSUME BaseInv, BaseInv', MailKept, Deployment, Clustered => ClusterInv,
           NEW l \in ListenerIds, Fine(l),
           NEW t \in tasks, read_route(t), UNCHANGED <<session, clock>>
    PROVE  Fine(l)'
<1>1. /\ t.step = "route" /\ UNCHANGED <<storeVars, hubVars, newest, faults>>
      /\ IF routes[t.to] = None THEN Done(t)
         ELSE Goto(t, IF routes[t.to] = t.node THEN "clear" ELSE "forward", routes[t.to])
  BY DEF read_route
<1>2. /\ t.node \in EndpointNodes /\ t.to \in Recipients
      /\ Clustered /\ ClusterInv /\ ConnectNodes \cap EndpointNodes = {}
  BY <1>1, RoutedTasks, TaskEvents DEF IsTask, TaskFits, Deployment
<1>3. UNCHANGED <<place, phase, queues, messages>> /\ (Hub!Attached(l)' => Hub!Attached(l))
  BY <1>1 DEF hubVars, storeVars, Hub!Attached
<1>4. ASSUME Serves(l)', NEW m \in messages, m.uaid = RecipientOf(l), OnItsWay(m.id, l)
      PROVE  Reaches(l, m.id)'
  <2>1. /\ newest[RecipientOf(l)] = l /\ Hub!Attached(l) /\ faults = 0
    BY <1>1, <1>3, <1>4 DEF Serves, RecipientOf
  <2>2. NodeOf(l) \in ConnectNodes /\ RecipientOf(l) \in Recipients /\ l # None
    BY <2>1, ServedSlot
  <2>3. PICK u \in tasks : /\ u.events = <<m.id>>
                           /\ \/ u.step \in {"notify", "route"}
                              \/ u.step = "forward" /\ u.target = NodeOf(l)
    BY <1>4 DEF OnItsWay
  <2>4. CASE u # t
    <3>1. u \in tasks'
      BY <1>1, <2>4, DoneEnds DEF Goto
    <3> QED
      BY <1>3, <2>3, <3>1 DEF Reaches, OnItsWay, NodeOf
  <2>5. CASE u = t
    <3>1. t.to = RecipientOf(l)
      BY <1>4, <2>3, <2>5, TaskEvents DEF TaskFits
    <3>2. routes[t.to] = NodeOf(l)
      BY <1>2, <2>1, <2>2, <3>1 DEF ClusterInv, NamesNewest
    <3>3. NodeOf(l) # None /\ NodeOf(l) # t.node
      BY <1>2, <2>2, NoneAssumption, DeliveryAssumption
    <3>4. Goto(t, "forward", NodeOf(l))
      BY <1>1, <3>2, <3>3
    <3>5. PICK v : v \in tasks' /\ v.events = t.events /\ v.step = "forward" /\ v.target = NodeOf(l)
      BY <3>4, GotoTask
    <3> QED
      BY <1>3, <2>3, <2>5, <3>5 DEF Reaches, OnItsWay, NodeOf
  <2> QED
    BY <2>4, <2>5
<1>5. ASSUME Serves(l)', NEW m \in messages, m.uaid = RecipientOf(l), Reaches(l, m.id)
      PROVE  Reaches(l, m.id)'
  BY <1>3, <1>4, <1>5 DEF Reaches
<1> QED
  BY <1>1, <1>3, <1>5, BystanderFine

LEMMA ForwardFine ==
    ASSUME BaseInv, BaseInv', MailKept, Deployment, Clustered => ClusterInv,
           NEW l \in ListenerIds, Fine(l),
           NEW t \in tasks, forward(t), UNCHANGED <<session, clock>>
    PROVE  Fine(l)'
<1>1. /\ t.step = "forward" /\ Hub!notify(t.target, t.to, Head(t.events))
      /\ UNCHANGED <<storeVars, newest, faults>>
      /\ Goto(t, "clear", t.target) \/ Done(t)
  BY DEF forward
<1>2. PICK e \in Events \cup {Gone} : t.events = <<e>> /\ e = Head(t.events)
  BY <1>1, TaskNotifies, TaskEvents
<1>3. t.target \in Nodes /\ t.to \in Recipients /\ Hub!HubInv /\ ClusterInv
  BY <1>1, TaskNotifies, TaskEvents DEF TaskFits, BaseInv
<1>4. ASSUME e = Gone, slots[t.target][t.to] = l
      PROVE  newest[RecipientOf(l)] # l /\ session[l].stage # "registered"
  <2>1. PICK id \in ListenerIds : Listened(id, t.target, t.to) /\ newest[t.to] # id
    BY <1>1, <1>2, <1>3, <1>4 DEF ClusterInv, ForwardLeads
  <2>2. id = l
    BY <1>3, <1>4, <2>1, SlotOfPlace, NotifyAssumption DEF ClusterInv
  <2> QED
    BY <2>1, <2>2 DEF Listened, RecipientOf
<1>5. ASSUME Serves(l)', NEW m \in messages, m.uaid = RecipientOf(l), OnItsWay(m.id, l)
      PROVE  Reaches(l, m.id)'
  <2>1. UNCHANGED <<place, phase>>
    BY <1>1, <1>2, <1>3, NotifyEffect
  <2>2. Hub!Attached(l) /\ Hub!Attached(l)'
    <3>1. phase[l] # "unused" /\ Hub!Attached(l)'
      BY <1>5, <2>1 DEF Serves, Hub!Attached
    <3> QED
      BY <1>1, <1>2, <1>3, <3>1, NotifyGoesOn DEF GoesOn
  <2>3. slots[NodeOf(l)][RecipientOf(l)] = l /\ l # None
    BY <2>2, ServedSlot
  <2>4. slots'[NodeOf(l)][RecipientOf(l)] = l
    BY <2>1, <2>2 DEF Hub!Attached, NodeOf, RecipientOf
  <2>5. PICK u \in tasks : /\ u.events = <<m.id>>
                           /\ \/ u.step \in {"notify", "route"}
                              \/ u.step = "forward" /\ u.target = NodeOf(l)
    BY <1>5 DEF OnItsWay
  <2>6. CASE u # t
    <3>1. u \in tasks'
      BY <1>1, <2>6, DoneEnds DEF Goto
    <3> QED
      BY <2>1, <2>5, <3>1 DEF Reaches, OnItsWay, NodeOf
  <2>7. CASE u = t
    <3>1. t.to = RecipientOf(l) /\ m.id = e /\ t.target = NodeOf(l)
      BY <1>1, <1>2, <1>5, <2>5, <2>7, TaskEvents DEF TaskFits
    <3>2. e \in Items(queues'[l])
      BY <1>1, <1>2, <1>3, <2>3, <2>4, <3>1, NotifyEffect
    <3> QED
      BY <3>1, <3>2 DEF Reaches
  <2> QED
    BY <2>6, <2>7
<1> QED
  BY <1>1, <1>2, <1>3, <1>4, <1>5, NotifyFine

LEMMA CleanupFine ==
    ASSUME BaseInv, BaseInv', MailKept, NEW l \in ListenerIds, Fine(l),
           NEW t \in tasks, clear_stale(t), UNCHANGED <<session, clock>>
    PROVE  Fine(l)'
<1>1. t.step = "clear" /\ Done(t) /\ UNCHANGED <<hubVars, newest, faults, messages>>
  BY DEF clear_stale, clear_route, mailVars
<1> QED
  BY <1>1, DoneEnds, QuietFine

\* A step of another session, of a client or of the environment.
LEMMA OtherFine ==
    ASSUME BaseInv, BaseInv', MailKept, NEW l \in ListenerIds, Fine(l), Same(l),
           Hub!Attached(l)' => Hub!Attached(l),
           newest'[RecipientOf(l)] = l => newest[RecipientOf(l)] = l,
           faults' = 0 => faults = 0, clock' = clock, messages' \subseteq messages,
           faults' # 0 \/ tasks \subseteq tasks'
    PROVE  Fine(l)'
<1>1. /\ place'[l] = place[l] /\ phase'[l] = phase[l] /\ queues'[l] = queues[l]
      /\ session'[l] = session[l]
  BY DEF Same
<1>2. ASSUME Serves(l)', NEW x, Reaches(l, x)
      PROVE  Reaches(l, x)'
  <2>1. faults' = 0
    BY <1>2 DEF Serves
  <2>2. ASSUME OnItsWay(x, l)
        PROVE  OnItsWay(x, l)'
    BY <1>1, <2>1, <2>2, WayKept
  <2> QED
    BY <1>1, <1>2, <2>2 DEF Reaches
<1>3. Serves(l)' => \A m \in messages' : m.uaid = RecipientOf(l) =>
         m \in messages /\ (Reaches(l, m.id) => Reaches(l, m.id)')
  BY <1>2
<1> QED
  BY <1>1, <1>3, BystanderFine

\* A connection that is over, or was not used yet, is fine.
LEMMA OverFine ==
    ASSUME BaseInv', NEW l \in ListenerIds, ~Hub!Attached(l)', session'[l] = NoSession
    PROVE  Fine(l)'
<1>1. NoSession.sent = {} /\ NoSession.stage = "idle"
  BY DEF NoSession
<1> QED
  BY <1>1 DEF Fine, Unreplaced, Awaits, Served, Serves

LEMMA ListenFine ==
    ASSUME BaseInv, BaseInv', MailKept, NEW id \in ListenerIds, listen_done(id),
           NEW l \in ListenerIds, Fine(l)
    PROVE  Fine(l)'
<1>1. /\ session[id].stage = "registered" /\ phase[id] = "listening"
      /\ newest' = [newest EXCEPT ![RecipientOf(id)] = id]
      /\ tasks \subseteq tasks'
      /\ session' = [session EXCEPT ![id].stage = "reading"]
      /\ UNCHANGED <<hubVars, faults, clock, messages>>
  BY DEF listen_done, Running, take_route, RouteTaken, set_route, mailVars
<1>2. /\ session'[id].stage = "reading" /\ session'[id].sent = session[id].sent
      /\ session'[id].unacked = session[id].unacked
      /\ \A x \in ListenerIds : x # id => session'[x] = session[x]
  BY <1>1, BookTypes DEF Session
<1>3. UNCHANGED <<slots, place, phase, queues>>
  BY <1>1 DEF hubVars
<1>4. CASE l = id
  BY <1>1, <1>2, <1>3, <1>4
  DEF Fine, Unreplaced, Awaits, Served, Serves, Hub!Attached, RecipientOf
<1>5. CASE l # id
  <2>1. Same(l) /\ (Hub!Attached(l)' => Hub!Attached(l))
    BY <1>2, <1>3, <1>5 DEF Same, Hub!Attached
  <2>2. newest'[RecipientOf(l)] = l => newest[RecipientOf(l)] = l
    BY <1>1, <1>5, BookTypes
  <2> QED
    BY <1>1, <2>1, <2>2, OtherFine
<1> QED
  BY <1>4, <1>5

LEMMA EndFine ==
    ASSUME BaseInv, BaseInv', MailKept, NEW id \in ListenerIds,
           hub_closed(id) \/ session_ends(id), NEW l \in ListenerIds, Fine(l)
    PROVE  Fine(l)'
<1>1. /\ phase[id] = "listening" /\ phase' = [phase EXCEPT ![id] = "ended"]
      /\ UNCHANGED <<slots, place, queues, storeVars, newest, tasks, faults, session, clock>>
  BY DEF hub_closed, session_ends, Hub!recv_closed, Hub!leave
<1>2. phase'[id] = "ended" /\ \A x \in ListenerIds : x # id => phase'[x] = phase[x]
  BY <1>1, HubFacts DEF BaseInv
<1>3. messages' = messages
  BY <1>1 DEF storeVars
<1>4. CASE l = id
  BY <1>1, <1>2, <1>3, <1>4
  DEF Fine, Unreplaced, Awaits, Served, Serves, Hub!Attached, RecipientOf
<1>5. CASE l # id
  BY <1>1, <1>2, <1>3, <1>5, OtherFine DEF Same, Hub!Attached
<1> QED
  BY <1>4, <1>5

LEMMA DropFine ==
    ASSUME BaseInv, BaseInv', MailKept, NEW id \in ListenerIds, drop_session(id),
           NEW l \in ListenerIds, Fine(l)
    PROVE  Fine(l)'
<1>1. /\ phase[id] = "ended" /\ phase' = [phase EXCEPT ![id] = "dropped"]
      /\ slots' = Hub!unregister(id) /\ queues' = [queues EXCEPT ![id] = <<>>]
      /\ session' = [session EXCEPT ![id] = NoSession]
      /\ tasks \subseteq tasks'
      /\ UNCHANGED <<place, storeVars, newest, faults, clock>>
  BY DEF drop_session, drop_listener, Hub!drop_listener
<1>2. /\ session'[id] = NoSession /\ phase'[id] = "dropped"
      /\ \A x \in ListenerIds : x # id =>
            phase'[x] = phase[x] /\ session'[x] = session[x] /\ queues'[x] = queues[x]
  BY <1>1, HubFacts, BookTypes DEF BaseInv
<1>3. messages' = messages
  BY <1>1 DEF storeVars
<1>4. \A x \in Nodes, r \in Recipients :
          slots'[x][r] = IF slots[x][r] = id THEN None ELSE slots[x][r]
  BY <1>1, UnregisterEffect DEF BaseInv
<1>5. CASE l = id
  <2>1. ~Hub!Attached(id)'
    BY <1>1, <1>4, PlaceFacts, NotifyAssumption DEF Hub!Attached, BaseInv
  <2> QED
    BY <1>2, <1>5, <2>1, OverFine
<1>6. CASE l # id
  <2>1. Same(l)
    BY <1>1, <1>2, <1>6 DEF Same
  <2>2. Hub!Attached(l)' => Hub!Attached(l)
    <3>1. CASE phase[l] = "unused"
      BY <2>1, <3>1 DEF Hub!Attached, Same
    <3>2. CASE phase[l] # "unused"
      BY <1>1, <1>4, <3>2, DetachedStays, NotifyAssumption DEF BaseInv
    <3> QED
      BY <3>1, <3>2
  <2> QED
    BY <1>1, <1>3, <2>1, <2>2, OtherFine
<1> QED
  BY <1>5, <1>6

LEMMA CrashFine ==
    ASSUME BaseInv, BaseInv', MailKept, NEW n \in Nodes, crash_session_node(n),
           NEW l \in ListenerIds, Fine(l)
    PROVE  Fine(l)'
<1>1. /\ phase' = [id \in ListenerIds |-> IF id \in LostWith(n) THEN "dropped" ELSE phase[id]]
      /\ queues' = [id \in ListenerIds |-> IF id \in LostWith(n) THEN <<>> ELSE queues[id]]
      /\ session' = [id \in ListenerIds |-> IF id \in LostWith(n) THEN NoSession ELSE session[id]]
      /\ slots' = [slots EXCEPT ![n] = [to \in Recipients |-> None]]
      /\ faults' = faults + 1
      /\ UNCHANGED <<storeVars, place, newest, clock>>
  BY DEF crash_session_node, crash
<1>2. faults' # 0 /\ messages' = messages
  BY <1>1, BookTypes DEF storeVars
<1>3. CASE l \in LostWith(n)
  <2>1. session'[l] = NoSession /\ NodeOf(l) = n /\ phase[l] # "unused"
    BY <1>1, <1>3 DEF LostWith
  <2>2. RecipientOf(l) \in Recipients /\ place[l] = <<n, RecipientOf(l)>>
    BY <2>1, PlaceFacts DEF BaseInv
  <2>3. slots'[n][RecipientOf(l)] = None
    BY <1>1, <2>2, HubFacts DEF BaseInv
  <2>4. ~Hub!Attached(l)'
    BY <1>1, <2>2, <2>3, NotifyAssumption DEF Hub!Attached
  <2> QED
    BY <2>1, <2>4, OverFine
<1>4. CASE l \notin LostWith(n)
  <2>1. Same(l)
    BY <1>1, <1>4 DEF Same
  <2>2. Hub!Attached(l)' => Hub!Attached(l)
    BY <2>1, CrashGoesOn DEF GoesOn, Hub!Attached, Same
  <2> QED
    BY <1>1, <1>2, <2>1, <2>2, OtherFine
<1> QED
  BY <1>3, <1>4

LEMMA ForgetFine ==
    ASSUME BaseInv, BaseInv', MailKept, NEW id \in ListenerIds, forget(id),
           UNCHANGED <<session, clock>>, NEW l \in ListenerIds, Fine(l)
    PROVE  Fine(l)'
<1>1. /\ phase[id] = "dropped" /\ phase' = [phase EXCEPT ![id] = "unused"]
      /\ place' = [place EXCEPT ![id] = None]
      /\ UNCHANGED <<slots, queues, storeVars, newest, tasks, faults>>
  BY DEF forget, Hub!forget
<1>2. /\ phase'[id] = "unused"
      /\ \A x \in ListenerIds : x # id => phase'[x] = phase[x] /\ place'[x] = place[x]
  BY <1>1, HubFacts DEF BaseInv
<1>3. messages' = messages
  BY <1>1 DEF storeVars
<1>4. CASE l = id
  <2>1. session'[id] = NoSession
    BY <1>1 DEF BaseInv, SessionFits
  <2> QED
    BY <1>2, <1>4, <2>1, OverFine DEF Hub!Attached
<1>5. CASE l # id
  BY <1>1, <1>2, <1>3, <1>5, OtherFine DEF Same, Hub!Attached
<1> QED
  BY <1>4, <1>5

\* A new connection only replaces one on its node that has completed listen():
\* on a single node every one has, in a cluster there is none.
LEMMA HelloFine ==
    ASSUME BaseInv, BaseInv', MailKept, Deployment, NEW n \in ConnectNodes, NEW u \in Uaids,
           NEW id \in ListenerIds, hello(n, u, id), NEW l \in ListenerIds, Fine(l)
    PROVE  Fine(l)'
<1>1. n \in Nodes /\ u \in Recipients /\ Hub!HubInv
  BY DeliveryAssumption DEF Recipients, BaseInv
<1>2. /\ Hub!register(n, u, id)
      /\ Revisit \/ \A other \in ListenerIds : place[other] # <<n, u>>
      /\ newest' = IF Clustered THEN newest ELSE [newest EXCEPT ![u] = id]
      /\ session' = [session EXCEPT ![id].stage = IF Clustered THEN "registered" ELSE "reading"]
      /\ UNCHANGED <<tasks, faults, clock, messages>>
  BY DEF hello, listen, touch_user_agent, mailVars
<1>3. SessionFits(id) /\ session[id] = NoSession /\ queues[id] = <<>>
  BY <1>1, <1>2, RegisterEffect DEF BaseInv, SessionFits
<1>4. /\ session'[id].sent = {} /\ session'[id].stage \notin {"sending", "serving"}
      /\ queues'[id] = <<>>
      /\ \A x \in ListenerIds : x # id => session'[x] = session[x]
  BY <1>1, <1>2, <1>3, RegisterEffect, BookTypes DEF NoSession
<1>5. CASE l = id
  <2>1. Items(queues'[id]) = {}
    BY <1>4 DEF Items
  <2> QED
    BY <1>4, <1>5, <2>1 DEF Fine, Unreplaced, Awaits, Served, Serves
<1>6. CASE l # id
  <2>1. phase'[l] = phase[l] /\ place'[l] = place[l] /\ session'[l] = session[l]
    BY <1>1, <1>2, <1>4, <1>6, RegisterEffect
  <2>2. Hub!Attached(l)' => Hub!Attached(l)
    BY <2>1, HelloGoesOn DEF GoesOn, Hub!Attached
  <2>3. newest'[RecipientOf(l)] = l => newest[RecipientOf(l)] = l
    BY <1>1, <1>2, <1>6, BookTypes
  <2>4. CASE queues'[l] = queues[l]
    BY <1>2, <2>1, <2>2, <2>3, <2>4, OtherFine DEF Same
  <2>5. CASE queues'[l] # queues[l]
    <3>1. place[l] = <<n, u>>
      BY <1>1, <1>2, <2>5, RegisterEffect
    <3>2. ~Clustered
      BY <1>2, <3>1 DEF Deployment
    <3>3. newest'[RecipientOf(l)] # l /\ session[l].stage # "registered"
      <4>1. RecipientOf(l) = u
        BY <3>1 DEF RecipientOf
      <4> QED
        BY <1>1, <1>2, <1>6, <3>2, <4>1, BookTypes DEF BaseInv, SessionFits
    <3>4. ~Serves(l)'
      BY <2>1, <3>3 DEF Serves, RecipientOf
    <3> QED
      BY <1>2, <2>1, <2>2, <2>3, <3>3, <3>4, BystanderFine
  <2> QED
    BY <2>4, <2>5
<1> QED
  BY <1>5, <1>6

\* A session reads an event: what was queued for it is sent.
LEMMA EventFine ==
    ASSUME BaseInv, BaseInv', MailKept, NEW id \in ListenerIds, hub_event(id),
           NEW l \in ListenerIds, Fine(l)
    PROVE  Fine(l)'
<1>1. /\ phase[id] = "listening" /\ session[id].stage = "serving"
      /\ Hub!recv(id)
      /\ session' = [session EXCEPT ![id] = notify(@, {Head(queues[id])} \ {Gone})]
      /\ UNCHANGED <<storeVars, newest, tasks, faults, clock>>
  BY DEF hub_event, Running
<1>2. /\ queues \in [ListenerIds -> Seq(Events \cup {Gone})]
      /\ phase \in [ListenerIds -> {"unused", "listening", "ended", "dropped"}]
  BY HubFacts DEF BaseInv
<1>3. /\ queues[id] # <<>> /\ queues'[id] = Tail(queues[id])
      /\ phase'[id] = IF Head(queues[id]) = Gone THEN "ended" ELSE "listening"
      /\ \A x \in ListenerIds : x # id =>
            phase'[x] = phase[x] /\ queues'[x] = queues[x] /\ session'[x] = session[x]
      /\ UNCHANGED <<slots, place, messages>>
  BY <1>1, <1>2, BookTypes DEF Hub!recv, storeVars
<1>4. CASE l # id
  BY <1>1, <1>3, <1>4, OtherFine DEF Same, Hub!Attached
<1>5. CASE l = id
  <2>1. Items(queues[id]) = Items(queues'[id]) \cup {Head(queues[id])}
    BY <1>2, <1>3, ChannelItems
  <2>2. PICK ids \in SUBSET MsgIds : ids = {Head(queues[id])} \ {Gone}
    <3>1. Head(queues[id]) \in Events \cup {Gone}
      BY <1>2, <1>3, ChannelItems
    <3> QED
      BY <3>1, DeliveryAssumption
  <2>3. /\ session'[id].sent = session[id].sent \cup ids
        /\ session'[id].unacked = session[id].unacked \cup (ids \ session[id].sent)
        /\ session'[id].stage = "serving" /\ session'[id].more = session[id].more
        /\ session'[id].batch = session[id].batch
    BY <1>1, <2>2, BookTypes, NotifySends
  <2>4. Unreplaced(id)'
    BY <1>1, <1>3, <1>5, <2>1, <2>3 DEF Fine, Unreplaced, Hub!Attached, RecipientOf
  <2>5. Awaits(id)'
    BY <1>3, <1>5, <2>3 DEF Fine, Awaits, RecipientOf
  <2>6. Served(id)'
    <3> SUFFICES ASSUME Serves(id)', NEW m \in messages, m.uaid = RecipientOf(id),
                        m.expiry > clock
                 PROVE  Reaches(id, m.id)'
      BY <1>1, <1>3 DEF Served, RecipientOf
    <3>1. Serves(id) /\ Head(queues[id]) # Gone
      BY <1>1, <1>3, <2>3 DEF Serves, RecipientOf, Hub!Attached
    <3>2. Reaches(id, m.id)
      BY <1>5, <3>1 DEF Fine, Served
    <3>3. OnItsWay(m.id, id) => OnItsWay(m.id, id)'
      BY <1>1, <1>3 DEF OnItsWay, NodeOf
    <3> QED
      BY <2>1, <2>2, <2>3, <3>1, <3>2, <3>3 DEF Reaches
  <2> QED
    BY <1>5, <2>4, <2>5, <2>6 DEF Fine
<1> QED
  BY <1>4, <1>5

\* A batch that is not full is all of the backlog.
LEMMA BatchOfAll ==
    ASSUME StoreInv, NEW u, NEW now, NEW b \in pending(u, now, Batch)
    PROVE  /\ b \subseteq Unexpired(u, now)
           /\ Cardinality(b) # Batch => b = Unexpired(u, now)
           /\ Cardinality(b) = Batch => b # {}
<1>1. PICK all : all = Unexpired(u, now)
  OBVIOUS
<1>2. /\ b \subseteq all /\ IsFiniteSet(all)
      /\ Cardinality(b) = IF Cardinality(all) < Batch THEN Cardinality(all) ELSE Batch
  <2>1. all \subseteq messages /\ IsFiniteSet(messages)
    BY <1>1 DEF Unexpired, StoreInv, MailApart
  <2> QED
    BY <1>1, <2>1, FS_Subset DEF pending
<1>3. Batch \in Nat \ {0}
  BY DeliveryAssumption
<1>4. Cardinality(b) # Batch => Cardinality(b) = Cardinality(all)
  BY <1>2
<1>5. Cardinality(b) = Cardinality(all) => b = all
  BY <1>2, FS_Subset
<1>6. Cardinality(b) = Batch => b # {}
  BY <1>3, FS_EmptySet
<1> QED
  BY <1>1, <1>2, <1>4, <1>5, <1>6

\* The session reads a batch.  What it was sent before is acknowledged and out
\* of the store, so a full batch is never one that was all sent already.
LEMMA BatchFine ==
    ASSUME BaseInv, BaseInv', MailKept, NEW id \in ListenerIds, next_batch(id),
           NEW l \in ListenerIds, Fine(l)
    PROVE  Fine(l)'
<1>1. PICK b \in pending(RecipientOf(id), clock, Batch) :
          /\ session'[id].batch = Ids(b) /\ session'[id].sent = session[id].sent
          /\ session'[id].unacked = session[id].unacked
          /\ session'[id].more <=> Cardinality(b) = Batch /\ ~(Ids(b) \subseteq session[id].sent)
  BY BatchStep
<1>2. /\ session[id].stage = "reading" /\ phase[id] = "listening"
      /\ \A x \in ListenerIds : x # id => session'[x] = session[x]
      /\ session'[id].stage # "registered"
      /\ UNCHANGED <<storeVars, hubVars, newest, tasks, faults, clock>>
  BY BatchStep DEF notifyVars
<1>3. UNCHANGED <<messages, slots, place, phase, queues>>
  BY <1>2 DEF storeVars, hubVars
<1>4. CASE l # id
  BY <1>2, <1>3, <1>4, OtherFine DEF Same, Hub!Attached
<1>5. CASE l = id
  <2>1. /\ b \subseteq Unexpired(RecipientOf(id), clock)
        /\ Cardinality(b) # Batch => b = Unexpired(RecipientOf(id), clock)
        /\ Cardinality(b) = Batch => b # {}
    BY BatchOfAll DEF BaseInv
  <2>2. b \subseteq messages /\ \A x \in b : x.uaid = RecipientOf(id)
    BY <2>1 DEF Unexpired
  <2>3. Unreplaced(id)'
    BY <1>2, <1>3, <1>5 DEF Fine, Unreplaced, Hub!Attached, RecipientOf
  <2>4. Awaits(id)'
    BY <1>1, <1>3, <1>5 DEF Fine, Awaits, RecipientOf
  <2>5. Served(id)'
    <3> SUFFICES ASSUME ~session'[id].more, NEW m \in messages, m.uaid = RecipientOf(id),
                        m.expiry > clock
                 PROVE  Reaches(id, m.id)'
      BY <1>2, <1>3 DEF Served, Serves, RecipientOf
    <3>1. CASE Cardinality(b) # Batch
      <4>1. m \in b
        BY <2>1, <3>1 DEF Unexpired
      <4> QED
        BY <1>1, <4>1 DEF Reaches, Ids
    <3>2. CASE Cardinality(b) = Batch
      <4>1. Ids(b) \subseteq session[id].sent
        BY <1>1, <3>2
      <4>2. PICK x \in b : x.id \in session[id].sent /\ x \in messages
        BY <2>1, <2>2, <3>2, <4>1 DEF Ids
      <4>3. x.id \in session[id].unacked
        BY <1>5, <2>2, <4>2 DEF Fine, Awaits
      <4>4. session[id].unacked = {}
        BY <1>2 DEF BaseInv, SessionFits, ReadsOn
      <4> QED
        BY <4>3, <4>4
    <3> QED
      BY <3>1, <3>2
  <2> QED
    BY <1>5, <2>3, <2>4, <2>5 DEF Fine
<1> QED
  BY <1>4, <1>5

\* One message of the batch is sent, and awaits its acknowledgement.
LEMMA SendFine ==
    ASSUME BaseInv, BaseInv', MailKept, NEW id \in ListenerIds, send_stored(id),
           NEW l \in ListenerIds, Fine(l)
    PROVE  Fine(l)'
<1>1. PICK m \in session[id].batch :
          session' = [session EXCEPT ![id] = SentOne(session[id], m)]
  BY SendStep
<1>2. /\ session[id].stage = "sending" /\ phase[id] = "listening"
      /\ UNCHANGED <<storeVars, hubVars, newest, tasks, faults, clock>>
  BY SendStep DEF notifyVars
<1>3. UNCHANGED <<messages, slots, place, phase, queues>>
  BY <1>2 DEF storeVars, hubVars
<1>4. /\ session'[id].stage \in {"sending", "serving"}
      /\ session'[id].batch = session[id].batch \ {m}
      /\ session'[id].more = session[id].more
      /\ session'[id].sent = session[id].sent \cup {m}
      /\ session'[id].unacked = session[id].unacked \cup ({m} \ session[id].sent)
      /\ \A x \in ListenerIds : x # id => session'[x] = session[x]
  <2>1. session'[id] = SentOne(session[id], m) /\ session[id] \in Session
    BY <1>1, BookTypes
  <2>2. \A x \in ListenerIds : x # id => session'[x] = session[x]
    BY <1>1, BookTypes
  <2> QED
    BY <2>1, <2>2, SentOneIs
<1>5. CASE l # id
  BY <1>2, <1>3, <1>4, <1>5, OtherFine DEF Same, Hub!Attached
<1>6. CASE l = id
  <2>1. Unreplaced(id)'
    BY <1>2, <1>3, <1>4, <1>6 DEF Fine, Unreplaced, Hub!Attached, RecipientOf
  <2>2. Awaits(id)'
    BY <1>3, <1>4, <1>6 DEF Fine, Awaits, RecipientOf
  <2>3. Served(id)'
    <3> SUFFICES ASSUME Serves(id)', NEW x \in messages, x.uaid = RecipientOf(id),
                        x.expiry > clock
                 PROVE  Reaches(id, x.id)'
      BY <1>2, <1>3 DEF Served, RecipientOf
    <3>1. Serves(id)
      BY <1>2, <1>3, <1>4 DEF Serves, RecipientOf, Hub!Attached
    <3>2. Reaches(id, x.id)
      BY <1>6, <3>1 DEF Fine, Served
    <3>3. OnItsWay(x.id, id) => OnItsWay(x.id, id)'
      BY <1>2, <1>3 DEF OnItsWay, NodeOf
    <3> QED
      BY <1>3, <1>4, <3>2, <3>3 DEF Reaches
  <2> QED
    BY <1>6, <2>1, <2>2, <2>3 DEF Fine
<1> QED
  BY <1>5, <1>6

\* An acknowledgement takes the message out of the store.
LEMMA SettleDeletes ==
    ASSUME BaseInv, NEW id, NEW m, NEW code \in AckCodes, "other" \notin AckCodes,
           Settle(id, m, code)
    PROVE  /\ messages' \subseteq messages
           /\ \A x \in messages' : ~(x.id = m /\ x.uaid = RecipientOf(id))
<1>1. PICK held : held = {x \in messages : x.id = m /\ x.uaid = RecipientOf(id)}
  OBVIOUS
<1>2. AckStatus(code) # None
  BY DeliveryAssumption, NotifyAssumption DEF AckStatus
<1>3. CASE held = {}
  <2>1. messages' = messages
    BY <1>1, <1>3 DEF Settle, storeVars
  <2> QED
    BY <1>1, <1>3, <2>1
<1>4. CASE held # {}
  <2>1. PICK x \in held : delete_message(m, <<x.uaid, x.channel_id>>)
    BY <1>1, <1>2, <1>4 DEF Settle
  <2>2. PICK y \in messages : y.id = m /\ messages' = messages \ {y}
    BY <2>1 DEF delete_message, remove_message
  <2>3. \A z \in messages : z.id = m => z = y
    BY <2>2 DEF BaseInv, StoreInv, MailApart
  <2> QED
    BY <2>2, <2>3
<1> QED
  BY <1>3, <1>4

LEMMA AckFine ==
    ASSUME BaseInv, BaseInv', MailKept, Deployment, NEW id \in ListenerIds, NEW m \in MsgIds,
           NEW code \in AckCodes, ack(id, m, code), NEW l \in ListenerIds, Fine(l)
    PROVE  Fine(l)'
<1>1. PICK left : left = session[id].unacked \ {m}
  OBVIOUS
<1>2. /\ phase[id] = "listening" /\ session[id].stage = "serving"
      /\ session' = [session EXCEPT
            ![id].unacked = left,
            ![id].stage = IF left = {} /\ session[id].more THEN "reading" ELSE @]
      /\ Settle(id, m, code)
      /\ UNCHANGED <<slots, place, phase, queues, newest, tasks, faults, clock>>
  BY <1>1 DEF ack, Acknowledged, Running, notifyVars, hubVars
<1>3. /\ messages' \subseteq messages
      /\ \A x \in messages' : ~(x.id = m /\ x.uaid = RecipientOf(id))
  BY <1>2, SettleDeletes DEF Deployment
<1>4. /\ \A x \in ListenerIds : x # id => session'[x] = session[x]
      /\ session'[id].unacked = left /\ session'[id].sent = session[id].sent
      /\ session'[id].more = session[id].more /\ session'[id].stage # "registered"
      /\ session'[id].batch = session[id].batch
  BY <1>2, BookTypes DEF Session
<1>5. CASE l # id
  BY <1>2, <1>3, <1>4, <1>5, OtherFine DEF Same, Hub!Attached
<1>6. CASE l = id
  <2>1. Unreplaced(id)'
    BY <1>2, <1>4, <1>6 DEF Fine, Unreplaced, Hub!Attached, RecipientOf
  <2>2. Awaits(id)'
    BY <1>1, <1>2, <1>3, <1>4, <1>6 DEF Fine, Awaits, RecipientOf
  <2>3. Served(id)'
    <3> SUFFICES ASSUME Serves(id)', NEW x \in messages', x.uaid = RecipientOf(id),
                        x.expiry > clock
                 PROVE  Reaches(id, x.id)'
      BY <1>2 DEF Served, RecipientOf
    <3>1. Serves(id)
      BY <1>2, <1>4 DEF Serves, RecipientOf, Hub!Attached
    <3>2. Reaches(id, x.id)
      BY <1>3, <1>6, <3>1 DEF Fine, Served
    <3> QED
      BY <1>2, <1>4, <3>2 DEF Reaches, OnItsWay, NodeOf
  <2> QED
    BY <1>6, <2>1, <2>2, <2>3 DEF Fine
<1> QED
  BY <1>5, <1>6

-----------------------------------------------------------------------------
(***************************************************************************)
(* The delivery invariant.                                                 *)
(***************************************************************************)

\* Every step keeps every connection fine.
LEMMA FineStep ==
    ASSUME BaseInv, BaseInv', MailKept, Deployment, Clustered => ClusterInv, DeliveryNext,
           NEW l \in ListenerIds, Fine(l)
    PROVE  Fine(l)'
<1>1. ASSUME TaskSteps
      PROVE  Fine(l)'
  BY <1>1, LocalFine, RouteFine, ForwardFine, CleanupFine DEF TaskSteps
<1>2. ASSUME SessionSteps
      PROVE  Fine(l)'
  BY <1>2, ListenFine, BatchFine, SendFine, EventFine, EndFine, DropFine
  DEF SessionSteps, SessionStep
<1>3. ASSUME ClientSteps
      PROVE  Fine(l)'
  BY <1>3, HelloFine, AckFine, EndFine DEF ClientSteps
<1>4. ASSUME PushSteps \/ TaskFaults \/ tick
      PROVE  Fine(l)'
  BY <1>4, PushFine, FaultFine, TickFine
<1>5. ASSUME NEW n \in Nodes, crash_session_node(n)
      PROVE  Fine(l)'
  BY <1>5, CrashFine
<1>6. ASSUME NEW id \in ListenerIds, forget(id) /\ UNCHANGED <<session, clock>> /\ NothingAsked
      PROVE  Fine(l)'
  BY <1>6, ForgetFine
<1> QED
  BY <1>1, <1>2, <1>3, <1>4, <1>5, <1>6 DEF DeliveryNext

LEMMA FineStutter ==
    ASSUME DeliveryIInv, UNCHANGED vars
    PROVE  DeliveryIInv'
<1>1. UNCHANGED <<storeVars, notifyVars, session, clock>>
  BY DEF vars
<1>2. UNCHANGED <<slots, place, phase, queues, newest, tasks, faults, messages, routes>>
  BY <1>1 DEF storeVars, notifyVars, hubVars
<1>3. BaseInv' /\ MailKept
  BY BaseStutter, <1>1, MailGrows DEF DeliveryIInv, MailKept
<1>4. Clustered => ClusterInv'
  BY <1>1, <1>2
  DEF DeliveryIInv, ClusterInv, PlacesDiffer, Leads, ForwardLeads, CleanupLate, NamesNewest,
      Listened, Hub!Attached, NodeOf
<1>5. \A l \in ListenerIds : Fine(l)'
  BY <1>1, <1>2, <1>3, QuietFine DEF DeliveryIInv, hubVars
<1> QED
  BY <1>3, <1>4, <1>5 DEF DeliveryIInv

LEMMA InitFine ==
    ASSUME DeliveryInit
    PROVE  DeliveryIInv
<1>1. /\ messages = {} /\ tasks = {}
      /\ routes = [to \in Recipients |-> None]
      /\ newest = [to \in Recipients |-> None]
      /\ session = [id \in ListenerIds |-> NoSession]
      /\ place = [id \in ListenerIds |-> None]
      /\ phase = [id \in ListenerIds |-> "unused"]
  BY DEF DeliveryInit, NotifyInit, Hub!HubInit
<1>2. NoSession.stage = "idle"
  BY DEF NoSession
<1>3. ClusterInv
  BY <1>1 DEF ClusterInv, PlacesDiffer, Leads, NamesNewest
<1>4. \A id \in ListenerIds : Fine(id)
  BY <1>1, <1>2 DEF Fine, Unreplaced, Awaits, Served, Hub!Attached
<1> QED
  BY <1>3, <1>4, InitFits DEF DeliveryIInv

\* The inductive invariant of delivery.
LEMMA DeliveryInvariant ==
    ASSUME Deployment
    PROVE  DeliverySpec => []DeliveryIInv
<1>1. DeliveryInit => DeliveryIInv
  BY InitFine
<1>2. DeliveryIInv /\ [DeliveryNext]_vars => DeliveryIInv'
  <2> SUFFICES ASSUME DeliveryIInv, DeliveryNext
               PROVE  DeliveryIInv'
    BY FineStutter
  <2>1. BaseInv /\ (Clustered => ClusterInv) /\ \A id \in ListenerIds : Fine(id)
    BY DEF DeliveryIInv
  <2>2. BaseInv' /\ MailKept
    BY <2>1, BaseStep
  <2>3. Clustered => ClusterInv'
    BY <2>1, <2>2, ClusterStep DEF Deployment
  <2>4. \A l \in ListenerIds : Fine(l)'
    BY <2>1, <2>2, FineStep
  <2> QED
    BY <2>2, <2>3, <2>4 DEF DeliveryIInv
<1> QED
  BY <1>1, <1>2, PTL DEF DeliverySpec

\* The current session, in its loop and registered, misses nothing: what is
\* stored for it has been sent to it, is in its channel, is on its way or in
\* the backlog that it has yet to read; it does read on, with the last of the
\* acknowledgements it waits for; and nobody tells it to go.  This holds
\* for every number of user agents, messages, nodes and connections, every
\* order of pushes, acknowledgements and reconnects, and every batch size and
\* channel capacity, in the deployments that `Deployment` describes.
THEOREM CurrentSessionServed ==
    ASSUME Deployment
    PROVE  DeliverySpec => []DeliveryInv
<1>1. DeliveryIInv => DeliveryInv
  <2> SUFFICES ASSUME DeliveryIInv
               PROVE  DeliveryInv
    OBVIOUS
  <2>1. DeliveryTypeOK /\ \A id \in ListenerIds : Fine(id)
    BY DEF DeliveryIInv, BaseInv
  <2>2. NothingMissed
    <3> SUFFICES ASSUME NEW id \in ListenerIds, Current(id), ~session[id].more,
                        NEW m \in Unexpired(RecipientOf(id), clock)
                 PROVE  \/ m.id \in session[id].sent
                        \/ \E i \in 1..Len(queues[id]) : queues[id][i] = m.id
                        \/ OnItsWay(m.id, id)
      BY DEF NothingMissed
    <3>1. Serves(id)
      BY DEF Current, Serves, Running
    <3>2. Reaches(id, m.id)
      BY <2>1, <3>1 DEF Fine, Served, Unexpired
    <3>3. session[id].batch = {}
      BY DEF Current, Running, DeliveryIInv, BaseInv, SessionFits, ReadsOn
    <3> QED
      BY <3>2, <3>3 DEF Reaches, Items
  <2>3. NewestNotReplaced
    <3> SUFFICES ASSUME NEW id \in ListenerIds, Current(id)
                 PROVE  Gone \notin Items(queues[id])
      BY DEF NewestNotReplaced, Items
    <3> QED
      BY <2>1 DEF Current, Fine, Unreplaced
  <2>4. AsksForMore
    BY DEF AsksForMore, DeliveryIInv, BaseInv, SessionFits, ReadsOn
  <2> QED
    BY <2>1, <2>2, <2>3, <2>4 DEF DeliveryInv
<1> QED
  BY <1>1, DeliveryInvariant, PTL

\* In a cluster, the route of a user agent leads to the node of its current
\* session: neither a cleanup of an older connection, nor one after a forward
\* that came too late, takes it away.
THEOREM RouteOfCurrentKept ==
    ASSUME Deployment
    PROVE  DeliverySpec => []RouteKept
<1>1. DeliveryIInv => RouteKept
  <2> SUFFICES ASSUME DeliveryIInv, NEW id \in ListenerIds, Clustered, Current(id)
               PROVE  routes[RecipientOf(id)] = NodeOf(id)
    BY DEF RouteKept
  <2>1. /\ faults = 0 /\ newest[RecipientOf(id)] = id /\ Hub!Attached(id)
        /\ phase[id] # "unused"
    BY DEF Current, Running
  <2>2. RecipientOf(id) \in Recipients
    BY <2>1, PlaceFacts DEF DeliveryIInv, BaseInv
  <2>3. NamesNewest(RecipientOf(id))
    BY <2>1, <2>2 DEF DeliveryIInv, ClusterInv
  <2> QED
    BY <2>1, <2>3, NotifyAssumption DEF NamesNewest
<1> QED
  BY <1>1, DeliveryInvariant, PTL

-----------------------------------------------------------------------------
(***************************************************************************)
(* Delivery implements Mail, in every deployment and whatever fails.       *)
(* Handlers move messages, tasks and channels carry announcements of what  *)
(* was accepted for their user agent, batches what was read for it, and    *)
(* connections come and go.                                                *)
(***************************************************************************)

\* The tasks announce what tasks announced before, or Gone, or nothing.
TasksGoOn ==
    \A t \in tasks' :
        \/ \A m \in MsgIds : m \notin Items(t.events)
        \/ \E o \in tasks : o.to = t.to /\ o.events = t.events

\* What is in the channel of a connection and in its batch.
Carried(l) == Items(queues[l]) \cup session[l].batch

\* The messages that a connection carries, it carried, or a task announced them.
ChannelsGoOn ==
    \A l \in ListenerIds : \A m \in Carried(l)' \cap MsgIds :
        /\ RecipientOf(l)' = RecipientOf(l)
        /\ \/ m \in Carried(l)
           \/ \E t \in tasks : t.to = RecipientOf(l) /\ m \in Items(t.events)

\* What is under way, in terms of Items.
Announced(m, u) ==
    \/ \E t \in tasks : t.to = u /\ m \in Items(t.events)
    \/ \E l \in ListenerIds : m \in Carried(l) /\ RecipientOf(l) = u

LEMMA UnderWayMeans ==
    ASSUME NEW m \in MsgIds, NEW u \in Uaids
    PROVE  /\ <<m, u>> \in UnderWay <=> Announced(m, u)
           /\ (<<m, u>> \in UnderWay)' <=> Announced(m, u)'
BY DEF UnderWay, Announced, Carried, Items

LEMMA SameAnnounced ==
    ASSUME \A m \in MsgIds, u \in Uaids : Announced(m, u)' <=> Announced(m, u)
    PROVE  UnderWay' = UnderWay
<1>1. ASSUME NEW m \in MsgIds, NEW u \in Uaids
      PROVE  <<m, u>> \in UnderWay' <=> <<m, u>> \in UnderWay
  <2>1. <<m, u>> \in UnderWay' <=> Announced(m, u)'
    BY UnderWayMeans
  <2>2. <<m, u>> \in UnderWay <=> Announced(m, u)
    BY UnderWayMeans
  <2> QED
    BY <2>1, <2>2
<1>2. UnderWay \subseteq MsgIds \X Uaids /\ UnderWay' \subseteq MsgIds \X Uaids
  BY DEF UnderWay
<1> QED
  BY <1>1, <1>2

LEMMA NothingAnnounced ==
    ASSUME TasksGoOn, ChannelsGoOn
    PROVE  UnderWay' \subseteq UnderWay
<1> SUFFICES ASSUME NEW m \in MsgIds, NEW u \in Uaids, Announced(m, u)'
             PROVE  Announced(m, u)
  BY UnderWayMeans DEF UnderWay
<1>1. CASE \E t \in tasks' : t.to = u /\ m \in Items(t.events)
  BY <1>1 DEF TasksGoOn, Announced
<1>2. CASE \E l \in ListenerIds : m \in Carried(l)' /\ RecipientOf(l)' = u
  BY <1>2 DEF ChannelsGoOn, Announced
<1> QED
  BY <1>1, <1>2 DEF Announced

\* The connections `C` end, and no others change hands.
EndOnly(C) ==
    \A l \in ListenerIds :
        /\ Owners'[l] = IF l \in C THEN None ELSE Owners[l]
        /\ SentTo'[l] = IF l \in C THEN {} ELSE SentTo[l]

LEMMA OwnersAt ==
    ASSUME NEW l \in ListenerIds
    PROVE  /\ Owners[l] = IF phase[l] \in {"listening", "ended"} THEN RecipientOf(l) ELSE None
           /\ Owners'[l] = IF phase'[l] \in {"listening", "ended"} THEN RecipientOf(l)' ELSE None
           /\ SentTo[l] = session[l].sent /\ SentTo'[l] = session'[l].sent
BY DEF Owners, SentTo

\* Steps that lose announcements and end connections at most.
LEMMA OnlyLoses ==
    ASSUME UNCHANGED <<messages, issued, clock>>, asked' = {}, TasksGoOn, ChannelsGoOn,
           NEW C \in SUBSET ListenerIds, EndOnly(C)
    PROVE  Post!MailNext
<1>1. /\ Owners' = [l \in ListenerIds |-> IF l \in C THEN None ELSE Owners[l]]
      /\ SentTo' = [l \in ListenerIds |-> IF l \in C THEN {} ELSE SentTo[l]]
  <2>1. /\ Owners' = [l \in ListenerIds |-> Owners'[l]]
        /\ SentTo' = [l \in ListenerIds |-> SentTo'[l]]
    BY DEF Owners, SentTo
  <2> QED
    BY <2>1 DEF EndOnly
<1>2. Post!Lose(C)
  BY <1>1, NothingAnnounced DEF Post!Lose
<1> QED
  BY <1>2 DEF Post!MailNext

\* Steps that no connection sees.
LEMMA OthersLose ==
    ASSUME UNCHANGED <<messages, issued, clock, session>>, asked' = {}, TasksGoOn,
           ChannelsGoOn, UNCHANGED <<place, phase>>
    PROVE  Post!MailNext
<1>1. EndOnly({}) /\ {} \in SUBSET ListenerIds
  BY DEF EndOnly, Owners, SentTo, RecipientOf
<1> QED
  BY <1>1, OnlyLoses

\* Channels that are left alone, and those of connections that are not in use.
LEMMA ChannelsAlone ==
    ASSUME BaseInv, UNCHANGED place,
           \A l \in ListenerIds : queues'[l] = queues[l] \/ Items(queues'[l]) \subseteq {Gone},
           \A l \in ListenerIds : session'[l].batch \subseteq session[l].batch
    PROVE  ChannelsGoOn
BY GoneIsNoMessage, NotifyAssumption, DeliveryAssumption
DEF ChannelsGoOn, Carried, RecipientOf

\* Whoever is connected is a user agent.
LEMMA OpenHasOwner ==
    ASSUME BaseInv, NEW id \in ListenerIds, phase[id] \in {"listening", "ended"}
    PROVE  RecipientOf(id) \in Uaids /\ RecipientOf(id) # None
BY NoneAssumption DEF BaseInv, SessionFits

\* The slots name what a new message replaces.
LEMMA AcceptReplaces ==
    ASSUME StoreInv, NEW m \in Message, insert_message(m)
    PROVE  messages' = {x \in messages : ~Post!Replaces(m, x)} \cup {m}
<1>1. CASE m.topic = None
  <2>1. \A x \in messages : x.id # None
    BY NoneAssumption DEF StoreInv, StoreTypeOK, Message
  <2>2. messages' = {x \in messages : x.id # None} \cup {m}
    BY <1>1 DEF insert_message
  <2> QED
    BY <1>1, <2>1, <2>2 DEF Post!Replaces
<1>2. CASE m.topic # None
  <2>1. PICK old : old = topics[Slot(m)]
    OBVIOUS
  <2>2. messages' = {x \in messages : x.id # old} \cup {m}
    BY <1>2, <2>1 DEF insert_message
  <2>3. Slot(m) \in Slots
    BY <1>2 DEF Message, Maybe, Slot, Slots
  <2>4. ASSUME NEW x \in messages, x.id = old
        PROVE  Post!Replaces(m, x)
    <3>1. old # None
      BY <2>4, NoneAssumption DEF StoreInv, StoreTypeOK, Message
    <3>2. PICK y \in messages : y.id = old /\ Slot(y) = Slot(m)
      BY <2>1, <2>3, <3>1 DEF StoreInv, TopicSlotsExact
    <3>3. x = y
      BY <2>4, <3>2 DEF StoreInv, MailApart
    <3> QED
      BY <1>2, <3>2, <3>3 DEF Slot, Post!Replaces
  <2>5. ASSUME NEW x \in messages, Post!Replaces(m, x)
        PROVE  x.id = old
    <3>1. Slot(x) = Slot(m) /\ x.topic # None
      BY <2>5 DEF Slot, Post!Replaces
    <3> QED
      BY <2>1, <3>1 DEF StoreInv, TopicSlotsExact
  <2> QED
    BY <2>2, <2>4, <2>5
<1> QED
  BY <1>1, <1>2

LEMMA PushAnnounces ==
    ASSUME UNCHANGED <<place, queues, session>>,
           NEW id \in MsgIds, NEW u \in Uaids, NEW n,
           tasks' = tasks \cup {Announce(id, n, u, <<id>>)}
    PROVE  UnderWay' = UnderWay \cup {<<id, u>>}
<1>1. PICK a : a = Announce(id, n, u, <<id>>)
  OBVIOUS
<1>2. a.to = u /\ Items(a.events) = {id} /\ tasks' = tasks \cup {a}
  BY <1>1 DEF Announce, Items
<1>3. ASSUME NEW m \in MsgIds, NEW to \in Uaids
      PROVE  Announced(m, to)' <=> Announced(m, to) \/ (m = id /\ to = u)
  BY <1>2 DEF Announced, Carried, RecipientOf
<1>4. ASSUME NEW m \in MsgIds, NEW to \in Uaids
      PROVE  <<m, to>> \in UnderWay' <=> <<m, to>> \in UnderWay \/ <<m, to>> = <<id, u>>
  <2>1. <<m, to>> \in UnderWay' <=> Announced(m, to)'
    BY UnderWayMeans
  <2>2. <<m, to>> \in UnderWay <=> Announced(m, to)
    BY UnderWayMeans
  <2> QED
    BY <1>3, <2>1, <2>2
<1>5. UnderWay \subseteq MsgIds \X Uaids /\ UnderWay' \subseteq MsgIds \X Uaids
  BY DEF UnderWay
<1> QED
  BY <1>4, <1>5

\* A push is accepted, withdrawn, or expires.
LEMMA PushIsMail ==
    ASSUME BaseInv, PushSteps
    PROVE  Post!MailNext
<1>1. UNCHANGED <<slots, place, phase, queues, session, clock>>
  BY DEF PushSteps, store_and_notify, withdraw_message, reap_loop, notifyVars, hubVars
<1>2. Owners' = Owners /\ SentTo' = SentTo
  BY <1>1 DEF Owners, SentTo, RecipientOf
<1>3. UNCHANGED tasks => UnderWay' = UnderWay
  BY <1>1 DEF UnderWay, RecipientOf
<1>4. ASSUME NEW n \in EndpointNodes, NEW s \in channels, NEW id \in MsgIds,
             NEW topic \in Maybe(Topics), NEW ttl \in Ttls,
             store_and_notify(n, s, id, topic, ttl)
      PROVE  Post!MailNext
  <2>1. PICK m : m = [id |-> id, uaid |-> s.uaid, channel_id |-> s.channel_id, topic |-> topic,
                      accepted |-> clock, expiry |-> clock + ttl, rsub |-> None]
    OBVIOUS
  <2>2. m \in Message /\ Acceptable(m)
    BY <2>1, PushIsAcceptable
  <2>3. insert_message(m) /\ m.id = id /\ m.uaid = s.uaid /\ m.topic = topic /\ m.expiry >= clock
    BY <1>4, <2>1, ClockFits, DeliveryAssumption DEF store_and_notify
  <2>4. m.id \notin issued /\ issued' = issued \cup {m.id}
    BY <2>3 DEF insert_message
  <2>5. messages' = {x \in messages : ~Post!Replaces(m, x)} \cup {m}
    BY <2>2, <2>3, AcceptReplaces DEF BaseInv
  <2>6. UnderWay' = UnderWay \cup {<<m.id, m.uaid>>}
    <3>1. PICK u \in Uaids : u = s.uaid /\ u = m.uaid
      BY <2>2, <2>3 DEF Message
    <3>2. tasks' = tasks \cup {Announce(id, n, u, <<id>>)}
      BY <1>4, <3>1 DEF store_and_notify
    <3>3. UnderWay' = UnderWay \cup {<<id, u>>}
      BY <1>1, <3>2, PushAnnounces
    <3> QED
      BY <2>3, <3>1, <3>3
  <2>7. Post!Accept(m)
    BY <1>1, <1>2, <1>4, <2>3, <2>4, <2>5, <2>6 DEF Post!Accept, store_and_notify, NothingAsked
  <2> QED
    BY <2>2, <2>7 DEF Post!MailNext
<1>5. ASSUME NEW id \in MsgIds, withdraw_message(id)
      PROVE  Post!MailNext
  <2>1. PICK m \in messages : /\ m.id = id /\ messages' = messages \ {m}
                              /\ UNCHANGED issued
    BY <1>5 DEF withdraw_message, delete_message, remove_message
  <2>2. UNCHANGED tasks /\ asked' = {<<m.id, None>>}
    BY <1>5, <2>1 DEF withdraw_message, notifyVars
  <2>3. Post!Remove(m, None)
    BY <1>1, <1>2, <1>3, <2>1, <2>2 DEF Post!Remove
  <2> QED
    BY <2>3 DEF Post!MailNext
<1>6. ASSUME reap_loop
      PROVE  Post!MailNext
  <2>1. /\ messages' = messages \ {m \in messages : m.expiry <= clock}
        /\ UNCHANGED <<issued, tasks>> /\ asked' = {}
    BY <1>6 DEF reap_loop, reap, remove_message, notifyVars, NothingAsked
  <2>2. ASSUME NEW m \in messages
        PROVE  ~(m.expiry <= clock) <=> m.expiry > clock
    <3>1. m.expiry \in Nat
      BY TimesAssumption DEF BaseInv, StoreInv, StoreTypeOK, Message
    <3>2. clock \in Nat
      BY ClockFits
    <3> QED
      BY <3>1, <3>2
  <2>3. messages' = {m \in messages : m.expiry > clock}
    BY <2>1, <2>2
  <2>4. Post!Expire
    BY <1>1, <1>2, <1>3, <2>1, <2>3 DEF Post!Expire
  <2> QED
    BY <2>4 DEF Post!MailNext
<1> QED
  BY <1>4, <1>5, <1>6 DEF PushSteps

\* What a task hands to a hub goes into a channel of its recipient.
LEMMA HandedOver ==
    ASSUME BaseInv, NEW t \in tasks, t.step # "clear", NEW n \in Nodes,
           Hub!notify(n, t.to, Head(t.events)), UNCHANGED session
    PROVE  ChannelsGoOn
<1>1. /\ t.to \in Recipients /\ Head(t.events) \in Events \cup {Gone} /\ Hub!HubInv
      /\ t.events \in Seq(Events \cup {Gone}) /\ t.events # <<>>
  BY TaskNotifies, TaskEvents DEF BaseInv, IsTask
<1>2. PICK e \in Events \cup {Gone}, to \in Recipients :
          to = t.to /\ e = Head(t.events) /\ e \in Items(t.events)
  BY <1>1, ChannelItems
<1>3. Hub!HubInv /\ Hub!notify(n, to, e)
  BY <1>1, <1>2
<1>4. /\ UNCHANGED place
      /\ \A l \in ListenerIds :
            \/ queues'[l] = queues[l]
            \/ l = slots[n][to] /\ Items(queues'[l]) = Items(queues[l]) \cup {e}
  BY <1>3, NotifyEffect
<1>5. \A l \in ListenerIds : l = slots[n][to] => RecipientOf(l) = to
  BY <1>1, HubFacts, NotifyAssumption DEF RecipientOf
<1> QED
  BY <1>2, <1>4, <1>5 DEF ChannelsGoOn, Carried, RecipientOf

\* A task that is done has ended, and one that goes on keeps its event.
LEMMA TaskGoesOn ==
    ASSUME BaseInv, NEW t \in tasks, NEW step, NEW target,
           Done(t) \/ Goto(t, step, target)
    PROVE  TasksGoOn
<1>1. CASE Done(t)
  BY <1>1, DoneEnds DEF TasksGoOn
<1>2. CASE Goto(t, step, target)
  <2>1. PICK v : v = [t EXCEPT !.step = step, !.target = target]
    OBVIOUS
  <2>2. tasks' = (tasks \ {t}) \cup {v}
    BY <1>2, <2>1 DEF Goto
  <2>3. v.to = t.to /\ v.events = t.events
    BY <2>1, TaskEvents DEF IsTask
  <2> QED
    BY <2>2, <2>3 DEF TasksGoOn
<1> QED
  BY <1>1, <1>2

\* Tasks and their failures lose announcements at most.
LEMMA TaskIsMail ==
    ASSUME BaseInv, TaskSteps \/ TaskFaults
    PROVE  Post!MailNext
<1>1. UNCHANGED <<session, clock>> /\ asked' = {}
  BY DEF TaskSteps, TaskFaults, NothingAsked
<1>2. ASSUME NEW t \in tasks, NEW n \in Nodes, t.step # "clear", TasksGoOn,
             Hub!notify(n, t.to, Head(t.events)), UNCHANGED storeVars
      PROVE  Post!MailNext
  BY <1>1, <1>2, HandedOver, OthersLose DEF Hub!notify, storeVars
<1>3. ASSUME TasksGoOn, UNCHANGED <<hubVars, messages, issued>>
      PROVE  Post!MailNext
  BY <1>1, <1>3, ChannelsAlone, OthersLose DEF hubVars
<1>4. ASSUME NEW t \in tasks, notify_local(t) \/ forward(t)
      PROVE  Post!MailNext
  <2>1. /\ t.step # "clear" /\ UNCHANGED storeVars
        /\ \E n \in Nodes : Hub!notify(n, t.to, Head(t.events))
        /\ Done(t) \/ \E step, target : Goto(t, step, target)
    BY <1>4, TaskNotifies DEF notify_local, forward
  <2> QED
    BY <1>2, <2>1, TaskGoesOn
<1>5. ASSUME NEW t \in tasks,
             \/ read_route(t) \/ clear_stale(t)
             \/ \E connected \in BOOLEAN : forward_fails(t, connected)
      PROVE  Post!MailNext
  <2>1. /\ UNCHANGED <<hubVars, messages, issued>>
        /\ Done(t) \/ \E step, target : Goto(t, step, target)
    BY <1>5 DEF read_route, clear_stale, forward_fails, storeVars, clear_route, mailVars
  <2> QED
    BY <1>3, <2>1, TaskGoesOn
<1>6. ASSUME NEW t \in tasks, cancelled(t)
      PROVE  Post!MailNext
  BY <1>3, <1>6 DEF cancelled, storeVars, TasksGoOn
<1> QED
  BY <1>4, <1>5, <1>6 DEF TaskSteps, TaskFaults

\* A batch of the backlog is on its way to its user agent because it is held.
LEMMA BatchIsMail ==
    ASSUME BaseInv, NEW id \in ListenerIds, next_batch(id)
    PROVE  Post!MailNext
<1>1. PICK b \in pending(RecipientOf(id), clock, Batch) :
          session'[id].batch = Ids(b) /\ session'[id].sent = session[id].sent
  BY BatchStep
<1>2. /\ phase[id] = "listening" /\ session[id].stage = "reading"
      /\ UNCHANGED <<storeVars, notifyVars, clock>> /\ asked' = {}
      /\ \A l \in ListenerIds : l # id => session'[l] = session[l]
  BY BatchStep DEF next_batch, ReadBatch, NothingAsked
<1>3. /\ b \in SUBSET messages /\ \A m \in b : m.uaid = RecipientOf(id) /\ m.expiry > clock
      /\ Ids(b) \subseteq MsgIds
  BY StoredKnown DEF BaseInv, pending, Unexpired, Ids, Known
<1>4. UNCHANGED <<place, phase, queues, tasks>>
  BY <1>2 DEF notifyVars, hubVars
<1>5. SentTo' = SentTo /\ Owners' = Owners
  BY <1>1, <1>2, <1>4 DEF SentTo, Owners, RecipientOf
<1>6. RecipientOf(id) \in Uaids /\ Owners[id] = RecipientOf(id) /\ Owners[id] # None
  BY <1>2, OpenHasOwner DEF Owners
<1>7. session[id].batch = {}
  BY <1>2 DEF BaseInv, SessionFits, ReadsOn
<1>8. ASSUME NEW m \in MsgIds, NEW u \in Uaids
      PROVE  Announced(m, u)' <=> Announced(m, u) \/ (m \in Ids(b) /\ u = RecipientOf(id))
  <2>1. Carried(id)' = Carried(id) \cup Ids(b)
    BY <1>1, <1>4, <1>7 DEF Carried
  <2>2. \A l \in ListenerIds : l # id => Carried(l)' = Carried(l)
    BY <1>2, <1>4 DEF Carried
  <2>3. tasks' = tasks /\ \A l \in ListenerIds : RecipientOf(l)' = RecipientOf(l)
    BY <1>4 DEF RecipientOf
  <2> QED
    BY <2>1, <2>2, <2>3 DEF Announced
<1>9. PICK read : read = {<<m.id, Owners[id]>> : m \in b}
  OBVIOUS
<1>10. ASSUME NEW m \in MsgIds, NEW u \in Uaids
       PROVE  <<m, u>> \in UnderWay' <=> <<m, u>> \in UnderWay \cup read
  <2>1. <<m, u>> \in UnderWay' <=> Announced(m, u)'
    BY UnderWayMeans
  <2>2. <<m, u>> \in UnderWay <=> Announced(m, u)
    BY UnderWayMeans
  <2>3. <<m, u>> \in read <=> m \in Ids(b) /\ u = RecipientOf(id)
    BY <1>6, <1>9 DEF Ids
  <2> QED
    BY <1>8, <2>1, <2>2, <2>3
<1>11. UnderWay' = UnderWay \cup read
  <2>1. UnderWay \subseteq MsgIds \X Uaids /\ UnderWay' \subseteq MsgIds \X Uaids
    BY DEF UnderWay
  <2>2. read \subseteq MsgIds \X Uaids
    BY <1>3, <1>6, <1>9 DEF Ids
  <2> QED
    BY <1>10, <2>1, <2>2
<1>12. Post!Fetch(id, b)
  BY <1>2, <1>3, <1>5, <1>6, <1>9, <1>11 DEF Post!Fetch, storeVars
<1> QED
  BY <1>3, <1>12 DEF Post!MailNext

\* A message of the batch is sent, which is on its way since it was read.
LEMMA SendIsMail ==
    ASSUME BaseInv, NEW id \in ListenerIds, send_stored(id)
    PROVE  Post!MailNext
<1>1. PICK m \in session[id].batch :
          session' = [session EXCEPT ![id] = SentOne(session[id], m)]
  BY SendStep
<1>2. phase[id] = "listening" /\ UNCHANGED <<storeVars, notifyVars, clock>> /\ asked' = {}
  BY SendStep
<1>3. /\ session'[id].sent = session[id].sent \cup {m} /\ m \in MsgIds
      /\ session'[id].batch = session[id].batch \ {m}
      /\ \A l \in ListenerIds : l # id => session'[l] = session[l]
  <2>1. session'[id] = SentOne(session[id], m) /\ session[id] \in Session
    BY <1>1, BookTypes
  <2>2. \A l \in ListenerIds : l # id => session'[l] = session[l]
    BY <1>1, BookTypes
  <2> QED
    BY <2>1, <2>2, SentOneIs
<1>4. SentTo' = [SentTo EXCEPT ![id] = @ \cup {m}]
  BY <1>3 DEF SentTo
<1>5. UNCHANGED <<place, phase, queues, tasks>>
  BY <1>2 DEF notifyVars, hubVars
<1>6. Owners' = Owners /\ Owners[id] = RecipientOf(id) /\ Owners[id] # None
  BY <1>2, <1>5, OpenHasOwner DEF Owners, RecipientOf
<1>7. UnderWay' \subseteq UnderWay
  <2>1. TasksGoOn
    BY <1>5 DEF TasksGoOn
  <2>2. \A l \in ListenerIds : session'[l].batch \subseteq session[l].batch
    BY <1>3
  <2> QED
    BY <1>5, <2>1, <2>2, ChannelsAlone, NothingAnnounced
<1>8. <<m, Owners[id]>> \in UnderWay
  BY <1>2, <1>3, <1>6, OpenHasOwner, UnderWayMeans DEF Announced, Carried
<1>9. Post!Send(id, {m}) /\ {m} \in SUBSET MsgIds
  BY <1>2, <1>3, <1>4, <1>6, <1>7, <1>8 DEF Post!Send, storeVars
<1> QED
  BY <1>9 DEF Post!MailNext

\* An event of the hub is sent because it was announced.
LEMMA EventIsMail ==
    ASSUME BaseInv, NEW id \in ListenerIds, hub_event(id)
    PROVE  Post!MailNext
<1>1. /\ phase[id] = "listening"
      /\ Hub!recv(id)
      /\ session' = [session EXCEPT ![id] = notify(@, {Head(queues[id])} \ {Gone})]
      /\ UNCHANGED <<storeVars, newest, tasks, faults, clock>> /\ asked' = {}
  BY DEF hub_event, Running, NothingAsked
<1>2. /\ queues \in [ListenerIds -> Seq(Events \cup {Gone})]
      /\ phase \in [ListenerIds -> {"unused", "listening", "ended", "dropped"}]
  BY HubFacts DEF BaseInv
<1>3. /\ queues[id] # <<>>
      /\ queues'[id] = Tail(queues[id])
      /\ phase'[id] \in {"listening", "ended"}
      /\ \A l \in ListenerIds : l # id => phase'[l] = phase[l] /\ queues'[l] = queues[l]
      /\ UNCHANGED place
  BY <1>1, <1>2 DEF Hub!recv
<1>4. /\ Head(queues[id]) \in Events \cup {Gone} /\ Head(queues[id]) \in Items(queues[id])
      /\ Items(queues'[id]) \subseteq Items(queues[id])
  BY <1>2, <1>3, ChannelItems
<1>5. PICK ids \in SUBSET MsgIds : ids = {Head(queues[id])} \ {Gone}
  BY <1>4, DeliveryAssumption
<1>6. /\ session'[id].sent = session[id].sent \cup ids
      /\ session'[id].batch = session[id].batch
      /\ \A l \in ListenerIds : l # id => session'[l] = session[l]
  BY <1>1, <1>5, BookTypes, NotifySends
<1>7. SentTo' = [SentTo EXCEPT ![id] = @ \cup ids]
  BY <1>6 DEF SentTo
<1>8. Owners' = Owners /\ Owners[id] = RecipientOf(id) /\ Owners[id] # None
  BY <1>1, <1>3, OpenHasOwner DEF Owners, RecipientOf
<1>9. UnderWay' \subseteq UnderWay
  <2>1. TasksGoOn
    BY <1>1 DEF TasksGoOn
  <2>2. ChannelsGoOn
    BY <1>3, <1>4, <1>6 DEF ChannelsGoOn, Carried, RecipientOf
  <2> QED
    BY <2>1, <2>2, NothingAnnounced
<1>10. \A m \in ids : <<m, Owners[id]>> \in UnderWay
  <2>1. RecipientOf(id) \in Uaids
    BY <1>1, OpenHasOwner
  <2> QED
    BY <1>4, <1>5, <1>8, <2>1, UnderWayMeans DEF Announced, Carried
<1>11. Post!Send(id, ids)
  BY <1>1, <1>7, <1>8, <1>9, <1>10 DEF Post!Send, storeVars
<1> QED
  BY <1>11 DEF Post!MailNext

\* An acknowledgement takes out one message, or none.
LEMMA AckIsMail ==
    ASSUME BaseInv, NEW id \in ListenerIds, NEW m \in MsgIds, NEW code, ack(id, m, code)
    PROVE  Post!MailNext
<1>1. PICK left : left = session[id].unacked \ {m}
  OBVIOUS
<1>2. /\ phase[id] = "listening" /\ session[id].stage = "serving"
      /\ session' = [session EXCEPT
            ![id].unacked = left,
            ![id].stage = IF left = {} /\ session[id].more THEN "reading" ELSE @]
      /\ Settle(id, m, code)
      /\ UNCHANGED <<notifyVars, clock>>
  BY <1>1 DEF ack, Acknowledged, Running
<1>3. /\ \A l \in ListenerIds : session'[l].sent = session[l].sent
      /\ \A l \in ListenerIds : session'[l].batch = session[l].batch
  BY <1>2, BookTypes DEF Session
<1>4. UNCHANGED <<place, phase, queues, tasks>>
  BY <1>2 DEF notifyVars, hubVars
<1>5. Owners' = Owners /\ SentTo' = SentTo /\ UnderWay' = UnderWay
  BY <1>3, <1>4 DEF Owners, SentTo, UnderWay, RecipientOf
<1>6. CASE UNCHANGED storeVars /\ asked' = {}
  <2>1. TasksGoOn /\ ChannelsGoOn /\ EndOnly({}) /\ {} \in SUBSET ListenerIds
    BY <1>3, <1>4, <1>5, ChannelsAlone DEF TasksGoOn, EndOnly
  <2> QED
    BY <1>2, <1>6, <2>1, OnlyLoses DEF storeVars
<1>7. CASE ~(UNCHANGED storeVars /\ asked' = {})
  <2>1. PICK x \in messages : /\ x.id = m /\ x.uaid = RecipientOf(id)
                              /\ delete_message(m, <<x.uaid, x.channel_id>>)
                              /\ asked' = {<<m, RecipientOf(id)>>}
    BY <1>2, <1>7 DEF Settle, NothingAsked
  <2>2. PICK y \in messages : /\ y.id = m /\ messages' = messages \ {y}
                              /\ UNCHANGED issued
    BY <2>1 DEF delete_message, remove_message
  <2>3. x = y
    BY <2>1, <2>2 DEF BaseInv, StoreInv, MailApart
  <2>4. Post!Remove(x, x.uaid) /\ x.uaid \in Uaids
    BY <1>2, <1>5, <2>1, <2>2, <2>3, OpenHasOwner DEF Post!Remove
  <2> QED
    BY <2>1, <2>4 DEF Post!MailNext
<1> QED
  BY <1>6, <1>7

\* A connection is a user agent's, and was sent nothing yet.
LEMMA HelloIsMail ==
    ASSUME BaseInv, NEW n \in ConnectNodes, NEW u \in Uaids, NEW id \in ListenerIds,
           hello(n, u, id)
    PROVE  Post!MailNext
<1>0. n \in Nodes /\ u \in Recipients /\ Hub!HubInv
  BY DeliveryAssumption DEF Recipients, BaseInv
<1>1. /\ Hub!register(n, u, id)
      /\ session' = [session EXCEPT ![id].stage = IF Clustered THEN "registered" ELSE "reading"]
      /\ UNCHANGED <<messages, issued, tasks, clock>> /\ asked' = {}
  BY DEF hello, listen, touch_user_agent, mailVars, NothingAsked
<1>2. /\ phase[id] = "unused" /\ phase'[id] = "listening" /\ place'[id] = <<n, u>>
      /\ \A l \in ListenerIds : l # id => phase'[l] = phase[l] /\ place'[l] = place[l]
      /\ \A l \in ListenerIds :
            queues'[l] = queues[l] \/ Items(queues'[l]) = Items(queues[l]) \cup {Gone}
      /\ queues'[id] = queues[id]
  BY <1>0, <1>1, RegisterEffect
<1>3. session[id] = NoSession /\ queues[id] = <<>>
  BY <1>2 DEF BaseInv, SessionFits
<1>4. /\ SentTo' = SentTo
      /\ \A l \in ListenerIds : session'[l].batch = session[l].batch
      /\ session[id].batch = {}
  <2>1. \A l \in ListenerIds : /\ session'[l].sent = session[l].sent
                               /\ session'[l].batch = session[l].batch
    BY <1>1, BookTypes DEF Session
  <2>2. session[id].batch = {}
    BY <1>3 DEF NoSession
  <2> QED
    BY <2>1, <2>2 DEF SentTo
<1>5. Owners[id] = None /\ SentTo[id] = {} /\ Owners'[id] = u
      /\ \A l \in ListenerIds : l # id => Owners'[l] = Owners[l]
  BY <1>2, <1>3, OwnersAt DEF RecipientOf, NoSession
<1>6. Owners' = [Owners EXCEPT ![id] = u]
  BY <1>5 DEF Owners
<1>7. ASSUME NEW m \in MsgIds, NEW to \in Uaids
      PROVE  Announced(m, to)' <=> Announced(m, to)
  <2>1. \A l \in ListenerIds : m \in Items(queues'[l]) <=> m \in Items(queues[l])
    BY <1>2, NotifyAssumption, DeliveryAssumption
  <2>2. Items(queues[id]) = {}
    BY <1>3 DEF Items
  <2> QED
    BY <1>1, <1>2, <1>4, <2>1, <2>2 DEF Announced, Carried, RecipientOf
<1>8. UnderWay' = UnderWay
  BY <1>7, SameAnnounced
<1>9. Post!Connect(id, u)
  BY <1>1, <1>4, <1>5, <1>8, <1>6 DEF Post!Connect
<1> QED
  BY <1>9 DEF Post!MailNext

\* Taking over a route announces nothing but Gone.
LEMMA ListenIsMail ==
    ASSUME BaseInv, NEW id \in ListenerIds, listen_done(id)
    PROVE  Post!MailNext
<1>1. /\ UNCHANGED <<messages, issued, clock, place, phase, queues>>
      /\ tasks' = tasks \cup {GoneTo(p, id) : p \in Superseded(id)}
      /\ session' = [session EXCEPT ![id].stage = "reading"] /\ asked' = {}
  BY DEF listen_done, take_route, RouteTaken, hubVars, set_route, mailVars, NothingAsked
<1>2. EndOnly({})
  BY <1>1, BookTypes DEF EndOnly, Owners, SentTo, RecipientOf, Session
<1>3. \A p : GoneTo(p, id).events = <<Gone>>
  BY DEF GoneTo, Announce
<1>4. Items(<<Gone>>) = {Gone}
  BY DEF Items
<1>5. TasksGoOn
  BY <1>1, <1>3, <1>4, NotifyAssumption, DeliveryAssumption DEF TasksGoOn
<1>6. \A l \in ListenerIds : session'[l].batch = session[l].batch
  BY <1>1, BookTypes DEF Session
<1>7. ChannelsGoOn /\ {} \in SUBSET ListenerIds
  BY <1>1, <1>6, ChannelsAlone
<1> QED
  BY <1>1, <1>2, <1>5, <1>7, OnlyLoses

\* A session that ends is still its user agent's.
LEMMA EndIsMail ==
    ASSUME BaseInv, NEW id \in ListenerIds, hub_closed(id) \/ session_ends(id)
    PROVE  Post!MailNext
<1>1. /\ phase[id] = "listening" /\ phase' = [phase EXCEPT ![id] = "ended"]
      /\ UNCHANGED <<storeVars, place, queues, tasks, session, clock>> /\ asked' = {}
  BY DEF hub_closed, session_ends, Hub!recv_closed, Hub!leave, NothingAsked
<1>2. phase'[id] = "ended" /\ \A l \in ListenerIds : l # id => phase'[l] = phase[l]
  BY <1>1, HubFacts DEF BaseInv
<1>3. EndOnly({})
  BY <1>1, <1>2 DEF EndOnly, Owners, SentTo, RecipientOf
<1>4. TasksGoOn /\ ChannelsGoOn /\ {} \in SUBSET ListenerIds
  BY <1>1, ChannelsAlone DEF TasksGoOn
<1> QED
  BY <1>1, <1>3, <1>4, OnlyLoses DEF storeVars

\* A dropped session loses what is in its channel.
LEMMA DropIsMail ==
    ASSUME BaseInv, NEW id \in ListenerIds, drop_session(id)
    PROVE  Post!MailNext
<1>1. /\ Hub!drop_listener(id)
      /\ tasks' = tasks \cup
            {[Announce(id, NodeOf(id), RecipientOf(id), <<>>) EXCEPT
                !.step = "clear", !.target = n] :
             n \in {x \in {NodeOf(id)} : Clustered /\ Hub!Attached(id)}}
      /\ session' = [session EXCEPT ![id] = NoSession]
      /\ UNCHANGED <<storeVars, clock>> /\ asked' = {}
  BY DEF drop_session, drop_listener, NothingAsked
<1>2. /\ phase'[id] = "dropped" /\ queues'[id] = <<>> /\ UNCHANGED place
      /\ \A l \in ListenerIds : l # id => phase'[l] = phase[l] /\ queues'[l] = queues[l]
  BY <1>1, HubFacts DEF BaseInv, Hub!drop_listener
<1>3. EndOnly({id})
  <2>1. /\ session'[id].sent = {}
        /\ \A l \in ListenerIds : l # id => session'[l] = session[l]
    BY <1>1, BookTypes DEF NoSession
  <2>2. ASSUME NEW l \in ListenerIds
        PROVE  /\ l = id => Owners'[l] = None /\ SentTo'[l] = {}
               /\ l # id => Owners'[l] = Owners[l] /\ SentTo'[l] = SentTo[l]
    BY <1>2, <2>1, OwnersAt DEF RecipientOf
  <2> QED
    BY <2>2 DEF EndOnly
<1>4. TasksGoOn
  <2>1. \A t \in tasks' : t \in tasks \/ t = CleanupOf(id)
    BY <1>1 DEF CleanupOf
  <2>2. CleanupOf(id).events = <<>>
    BY DEF CleanupOf, Announce
  <2> QED
    BY <2>1, <2>2 DEF TasksGoOn, Items
<1>5. Items(<<>>) = {}
  BY DEF Items
<1>6. ChannelsGoOn /\ {id} \in SUBSET ListenerIds
  <2>1. \A l \in ListenerIds : session'[l].batch \subseteq session[l].batch
    BY <1>1, BookTypes DEF NoSession
  <2> QED
    BY <1>2, <1>5, <2>1, ChannelsAlone
<1> QED
  BY <1>1, <1>3, <1>4, <1>6, OnlyLoses DEF storeVars

\* A crash loses connections, and what they and its tasks had to announce.
LEMMA CrashIsMail ==
    ASSUME BaseInv, NEW n \in Nodes, crash_session_node(n)
    PROVE  Post!MailNext
<1>1. /\ phase' = [id \in ListenerIds |-> IF id \in LostWith(n) THEN "dropped" ELSE phase[id]]
      /\ queues' = [id \in ListenerIds |-> IF id \in LostWith(n) THEN <<>> ELSE queues[id]]
      /\ session' = [id \in ListenerIds |-> IF id \in LostWith(n) THEN NoSession ELSE session[id]]
      /\ tasks' = {t \in tasks : t.node # n}
      /\ UNCHANGED <<storeVars, place, clock>> /\ asked' = {}
  BY DEF crash_session_node, crash, NothingAsked
<1>2. EndOnly(LostWith(n))
  <2>1. ASSUME NEW l \in ListenerIds, l \in LostWith(n)
        PROVE  Owners'[l] = None /\ SentTo'[l] = {}
    <3>1. phase'[l] = "dropped" /\ session'[l].sent = {}
      BY <1>1, <2>1 DEF NoSession
    <3> QED
      BY <3>1, OwnersAt
  <2>2. ASSUME NEW l \in ListenerIds, l \notin LostWith(n)
        PROVE  Owners'[l] = Owners[l] /\ SentTo'[l] = SentTo[l]
    <3>1. phase'[l] = phase[l] /\ session'[l] = session[l] /\ RecipientOf(l)' = RecipientOf(l)
      BY <1>1, <2>2 DEF RecipientOf
    <3> QED
      BY <3>1, OwnersAt
  <2> QED
    BY <2>1, <2>2 DEF EndOnly
<1>3. TasksGoOn
  BY <1>1 DEF TasksGoOn
<1>4. Items(<<>>) = {}
  BY DEF Items
<1>5. ChannelsGoOn /\ LostWith(n) \in SUBSET ListenerIds
  <2>1. \A l \in ListenerIds : session'[l].batch \subseteq session[l].batch
    BY <1>1 DEF NoSession
  <2>2. \A l \in ListenerIds : queues'[l] = queues[l] \/ Items(queues'[l]) \subseteq {Gone}
    BY <1>1, <1>4
  <2> QED
    BY <1>1, <2>1, <2>2, ChannelsAlone DEF LostWith
<1> QED
  BY <1>1, <1>2, <1>3, <1>5, OnlyLoses DEF storeVars

\* An id that is reused was nobody's any more.
LEMMA ForgetIsMail ==
    ASSUME BaseInv, NEW id \in ListenerIds, forget(id), UNCHANGED <<session, clock>>,
           NothingAsked
    PROVE  Post!MailNext
<1>1. /\ phase[id] = "dropped" /\ phase' = [phase EXCEPT ![id] = "unused"]
      /\ place' = [place EXCEPT ![id] = None]
      /\ UNCHANGED <<storeVars, queues, tasks, session, clock>> /\ asked' = {}
  BY DEF forget, Hub!forget, NothingAsked
<1>2. /\ phase'[id] = "unused" /\ queues[id] = <<>> /\ session[id].batch = {}
      /\ \A l \in ListenerIds : l # id => phase'[l] = phase[l] /\ place'[l] = place[l]
  BY <1>1, HubFacts DEF BaseInv, SessionFits, NoSession
<1>3. EndOnly({})
  BY <1>1, <1>2 DEF EndOnly, Owners, SentTo, RecipientOf
<1>4. Items(<<>>) = {}
  BY DEF Items
<1>5. TasksGoOn /\ ChannelsGoOn /\ {} \in SUBSET ListenerIds
  BY <1>1, <1>2, <1>4 DEF TasksGoOn, ChannelsGoOn, Carried, RecipientOf
<1> QED
  BY <1>1, <1>3, <1>5, OnlyLoses DEF storeVars

\* Each step of Delivery is a step of Mail.
LEMMA StepIsMail ==
    ASSUME BaseInv, DeliveryNext
    PROVE  Post!MailNext
<1>1. ASSUME tick
      PROVE  Post!MailNext
  <2>1. UNCHANGED <<storeVars, place, phase, queues, tasks, session>> /\ clock' = clock + 1
    BY <1>1 DEF tick, notifyVars, hubVars
  <2>0. asked' = {}
    BY <1>1 DEF tick, NothingAsked
  <2>2. Owners' = Owners /\ SentTo' = SentTo /\ UnderWay' = UnderWay
    BY <2>1 DEF Owners, SentTo, UnderWay, RecipientOf
  <2>3. Post!Tick
    BY <2>0, <2>1, <2>2 DEF Post!Tick, storeVars
  <2> QED
    BY <2>3 DEF Post!MailNext
<1>2. CASE SessionSteps
  BY <1>2, ListenIsMail, BatchIsMail, SendIsMail, EventIsMail, EndIsMail, DropIsMail
  DEF SessionSteps, SessionStep
<1>3. CASE ClientSteps
  BY <1>3, HelloIsMail, AckIsMail, EndIsMail DEF ClientSteps
<1> QED
  BY <1>1, <1>2, <1>3, PushIsMail, TaskIsMail, CrashIsMail, ForgetIsMail DEF DeliveryNext

\* Delivery implements Mail: in every deployment, whatever crashes, is lost or
\* races, an accepted message is held until its own user agent acknowledges it,
\* it is withdrawn or replaced, or it is past its expiry; and a connection is
\* sent only what was announced, or was read while it was stored and had not
\* expired, for its own user agent.
THEOREM DeliveryIsMail == DeliverySpec => MailDelivered
<1>1. DeliveryInit => Post!MailInit
  <2> SUFFICES ASSUME DeliveryInit
               PROVE  Post!MailInit
    OBVIOUS
  <2>1. /\ messages = {} /\ tasks = {}
        /\ phase = [id \in ListenerIds |-> "unused"]
        /\ queues = [id \in ListenerIds |-> <<>>]
        /\ session = [id \in ListenerIds |-> NoSession] /\ asked = {}
    BY InitMakesHub DEF DeliveryInit, NotifyInit
  <2>2. UnderWay = {}
    BY <2>1 DEF UnderWay, NoSession
  <2>3. Owners = [id \in ListenerIds |-> None]
    BY <2>1 DEF Owners
  <2>4. SentTo = [id \in ListenerIds |-> {}]
    BY <2>1 DEF SentTo, NoSession
  <2> QED
    BY <2>1, <2>2, <2>3, <2>4 DEF Post!MailInit
<1>2. BaseInv /\ [DeliveryNext]_vars => [Post!MailNext]_(Post!mailboxVars)
  <2>1. ASSUME UNCHANGED vars
        PROVE  UNCHANGED Post!mailboxVars
    <3>1. UNCHANGED <<storeVars, place, phase, queues, tasks, session, clock, asked>>
      BY <2>1 DEF vars, notifyVars, hubVars
    <3> QED
      BY <3>1 DEF Post!mailboxVars, storeVars, Owners, SentTo, UnderWay, RecipientOf
  <2> QED
    BY <2>1, StepIsMail
<1>3. DeliverySpec => Post!MailSpec
  BY <1>1, <1>2, SessionsFit, PTL DEF DeliverySpec, Post!MailSpec
<1> QED
  BY <1>3 DEF MailDelivered

=============================================================================
