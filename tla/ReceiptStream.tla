---------------------------- MODULE ReceiptStream ----------------------------
(***************************************************************************)
(* Receipts from the events that owe them to the application server:       *)
(* receipts.rs, with owe_receipt and notify_receipts (notify.rs), the      *)
(* reaper (maintenance.rs) and delete_receipt_sub (endpoint.rs).           *)
(*                                                                         *)
(* A reader is an open stream, identified with its hub registration, or a  *)
(* `wait=0` read, which has none.  Every message is already stored, asks   *)
(* for a receipt, and expires at time 1.                                   *)
(***************************************************************************)
EXTENDS Notify

CONSTANTS
    ConnectNodes,   \* nodes whose role holds sessions
    EndpointNodes,  \* nodes whose role serves the application server API
    PollIds         \* wait=0 reads that may be under way together

ASSUME ReceiptStreamAssumption ==
    \* Every message is settled at most once.
    /\ IsFiniteSet(MsgIds)
    /\ Events \subseteq Receipt
    /\ [rsub : Rsubs, seq : 1..Cardinality(MsgIds), msg_id : MsgIds, status : {204, 410}]
          \subseteq Events
    /\ MsgIds \cap Rsubs = {}
    /\ {0, 1} \subseteq Times
    /\ ConnectNodes \cup EndpointNodes = Nodes
    /\ PollIds \cap ListenerIds = {}

VARIABLES
    readers,   \* stream or wait=0 read -> its state
    written    \* history: the receipts that some reader has written

vars == <<storeVars, notifyVars, readers, written>>

Readers == ListenerIds \cup PollIds

\* "registered": in the hub, set_route not yet called; "checking" the receipt
\* subscription; "reading" the queue; "writing" the backlog, then the events of
\* the hub; "deleting" a receipt it has written.
Reader == [stage : {"idle", "registered", "checking", "reading", "writing", "deleting"},
           rsub : Maybe(Rsubs), backlog : SUBSET Events, seen : SUBSET Nat,
           receipt : Maybe(Events)]

NoReader == [stage |-> "idle", rsub |-> None, backlog |-> {}, seen |-> {}, receipt |-> None]

Opened(r, stage) == [NoReader EXCEPT !.stage = stage, !.rsub = r]

\* A reader at `stage` that is not ending.
Running(p, stage) ==
    /\ readers[p].stage = stage
    /\ p \in ListenerIds => phase[p] = "listening"

Queued(r) == {q \in receipts : q.rsub = r}

Oldest(S) == CHOOSE q \in S : \A other \in S : q.seq <= other.seq

------------------------------------------------------------------------------
(***************************************************************************)
(* What owes receipts.  Each announces them in the order of their numbers  *)
(* after they are queued.  Receipts of different receipt subscriptions do  *)
(* not meet, so each subscription gets a task of its own.                  *)
(***************************************************************************)

InOrder(S) ==
    CHOOSE s \in [1..Cardinality(S) -> S] :
        \A i, j \in 1..Cardinality(S) : i < j => s[i].seq < s[j].seq

notify_receipts(n, new) ==
    {Announce(Oldest(own).msg_id, n, Oldest(own).rsub, InOrder(own)) :
        own \in {{q \in new : q.rsub = r} : r \in {q.rsub : q \in new}}}

\* A step of the store on node `n`, and the receipts it queued announced.
AnnounceQueued(n) ==
    /\ tasks' = tasks \cup notify_receipts(n, receipts' \ receipts)
    /\ UNCHANGED <<hubVars, newest, faults, readers, written>>

\* A session deletes the message it acknowledges, an application server the
\* one it withdraws.
message_deleted(id, owner) ==
    /\ delete_message(id, owner)
    /\ UNCHANGED <<notifyVars, readers, written>>

\* The handler of the withdrawal returns.
withdrawn(a) ==
    /\ withdraw_done(a)
    /\ UNCHANGED <<notifyVars, readers, written>>

\* The session then queues the receipt.  Which connection node it is on makes
\* no difference.
owe_receipt(n, a, status) ==
    /\ enqueue_receipt(a, status)
    /\ AnnounceQueued(n)

\* The reaper of an endpoint node.
reap_loop(n, now) ==
    /\ reap(now)
    /\ AnnounceQueued(n)

\* `unregister` on a session, or its counterpart in registration.rs.
unsubscribe(n, s) ==
    /\ delete_subscription(s.uaid, s.channel_id)
    /\ AnnounceQueued(n)

\* DELETE on the receipt subscription: streams are told Gone.
delete_rsub(n, r) ==
    /\ delete_receipt_sub(r)
    /\ tasks' = tasks \cup {Announce(r, n, r, <<Gone>>)}
    /\ UNCHANGED <<hubVars, newest, faults, readers, written>>

------------------------------------------------------------------------------
(***************************************************************************)
(* stream: GET on the receipt subscription.                                *)
(***************************************************************************)

\* Listen first, whether or not the subscription exists.
open(n, r, id) ==
    /\ listen(n, r, id)
    /\ readers' = [readers EXCEPT ![id] = Opened(r, IF Clustered THEN "registered" ELSE "checking")]
    /\ UNCHANGED <<storeVars, written>>

listen_done(id) ==
    /\ Running(id, "registered")
    /\ take_route(id)
    /\ readers' = [readers EXCEPT ![id].stage = "checking"]
    /\ UNCHANGED written

\* `wait=0` does not listen.
poll(r, p) ==
    /\ Running(p, "idle")
    /\ readers' = [readers EXCEPT ![p] = Opened(r, "checking")]
    /\ UNCHANGED <<storeVars, notifyVars, written>>

\* The reader returns.  A stream's listener is dropped after that.
End(p) ==
    IF p \in PollIds
    THEN readers' = [readers EXCEPT ![p] = NoReader] /\ UNCHANGED hubVars
    ELSE Hub!leave(p) /\ UNCHANGED readers

\* 404 if the subscription does not exist.
receipt_sub_exists(p) ==
    /\ Running(p, "checking")
    /\ IF readers[p].rsub \in receipt_subs
       THEN readers' = [readers EXCEPT ![p].stage = "reading"] /\ UNCHANGED hubVars
       ELSE End(p)
    /\ UNCHANGED <<storeVars, newest, tasks, faults, written>>

\* Faulty: the queue is not read.
queued_receipts_skipped(p) ==
    /\ Running(p, "reading")
    /\ readers' = [readers EXCEPT ![p].stage = "writing"]
    /\ UNCHANGED <<storeVars, notifyVars, written>>

\* Read the queue.  (A `wait=0` read of an empty one returns with 204; here
\* it does so in backlog_done.)
queued_receipts(p) ==
    /\ Running(p, "reading")
    /\ readers' = [readers EXCEPT ![p].stage = "writing", ![p].backlog = Queued(readers[p].rsub)]
    /\ UNCHANGED <<storeVars, notifyVars, written>>

------------------------------------------------------------------------------
(***************************************************************************)
(* Pump.                                                                   *)
(***************************************************************************)

\* emit: write `q`, unless it was written on this stream, then delete it.  The
\* write and the deletion are two steps.
Emit(p, q) ==
    IF q.seq \in readers[p].seen
    THEN /\ readers' = [readers EXCEPT ![p].backlog = @ \ {q}]
         /\ UNCHANGED written
    ELSE /\ readers' = [readers EXCEPT ![p].stage = "deleting", ![p].receipt = q,
                            ![p].seen = @ \cup {q.seq}, ![p].backlog = @ \ {q}]
         /\ written' = written \cup {q}

write_backlog(p) ==
    /\ Running(p, "writing")
    /\ readers[p].backlog # {}
    /\ Emit(p, Oldest(readers[p].backlog))
    /\ UNCHANGED <<storeVars, notifyVars>>

\* Faulty: everything queued so far goes.
delete_written_through(p) ==
    /\ Running(p, "deleting")
    /\ receipts' = {q \in receipts : q.seq > readers[p].receipt.seq}
    /\ readers' = [readers EXCEPT ![p].stage = "writing", ![p].receipt = None]
    /\ UNCHANGED <<accountVars, returned, receipt_subs, routes, last_seq,
                   settled, issued, mailVars, notifyVars, written>>

delete_written(p) ==
    /\ Running(p, "deleting")
    /\ delete_receipt(readers[p].receipt)
    /\ readers' = [readers EXCEPT ![p].stage = "writing", ![p].receipt = None]
    /\ UNCHANGED <<notifyVars, written>>

\* A `wait=0` read returns after the backlog.
backlog_done(p) ==
    /\ p \in PollIds
    /\ Running(p, "writing")
    /\ readers[p].backlog = {}
    /\ End(p)
    /\ UNCHANGED <<storeVars, newest, tasks, faults, written>>

Serving(id) == Running(id, "writing") /\ readers[id].backlog = {}

\* Faulty: Gone is skipped like an event of no interest.
hub_event_skipping_gone(id) ==
    /\ Serving(id)
    /\ queues[id] # <<>>
    /\ queues' = [queues EXCEPT ![id] = Tail(@)]
    /\ IF Head(queues[id]) = Gone THEN UNCHANGED <<readers, written>>
       ELSE Emit(id, Head(queues[id]))
    /\ UNCHANGED <<storeVars, slots, place, phase, newest, tasks, faults>>

\* An event from the hub.  Gone is written and ends the stream.
hub_event(id) ==
    /\ Serving(id)
    /\ Hub!recv(id)
    /\ IF Head(queues[id]) = Gone THEN UNCHANGED <<readers, written>>
       ELSE Emit(id, Head(queues[id]))
    /\ UNCHANGED <<storeVars, newest, tasks, faults>>

\* The hub dropped the listener: the stream ends.
hub_closed(id) ==
    /\ Serving(id)
    /\ Hub!recv_closed(id)
    /\ UNCHANGED <<storeVars, newest, tasks, faults, readers, written>>

\* The client goes away, or the service stops.  A handler is dropped where it
\* is; a pump notices at its next write or select, not between a write and the
\* deletion.
client_leaves(p) ==
    /\ readers[p].stage \notin {"idle", "deleting"}
    /\ End(p)
    /\ UNCHANGED <<storeVars, newest, tasks, faults, written>>

drop_stream(id) ==
    /\ drop_listener(id)
    /\ readers' = [readers EXCEPT ![id] = NoReader]
    /\ UNCHANGED written

\* An endpoint node dies with its streams.
crash_stream_node(n) ==
    /\ crash(n)
    /\ readers' = [p \in Readers |-> IF p \in LostWith(n) THEN NoReader ELSE readers[p]]
    /\ UNCHANGED written

------------------------------------------------------------------------------
\* One subscription with a message of every id that asks for a receipt.
ReceiptInit ==
    /\ user_agents = [u \in Uaids |-> [bridge |-> None, last_seen |-> 0]]
    /\ \E s \in Subscription :
          /\ channels = {s}
          /\ granted = {s}
          /\ push = [p \in PushIds |-> IF p = s.push THEN <<s.uaid, s.channel_id>> ELSE None]
          /\ \E r \in Rsubs :
                messages = {[id |-> id, uaid |-> s.uaid, channel_id |-> s.channel_id,
                             topic |-> None, accepted |-> 0, expiry |-> 1, rsub |-> r] :
                            id \in MsgIds}
    /\ topics = [s \in Slots |-> None]
    /\ receipt_subs = Rsubs
    /\ receipts = {} /\ settled = {} /\ returned = {}
    /\ last_seq = 0
    /\ issued = Uaids \cup MsgIds \cup Rsubs
    /\ NotifyInit
    /\ readers = [p \in Readers |-> NoReader]
    /\ written = {}

OwingSteps ==
    \/ \E s \in channels, id \in MsgIds : message_deleted(id, <<s.uaid, s.channel_id>>)
    \/ \E id \in MsgIds : message_deleted(id, None)
    \/ \E a \in returned : withdrawn(a)
    \/ \E n \in ConnectNodes, a \in returned, status \in {204, 410} : owe_receipt(n, a, status)
    \/ \E n \in EndpointNodes, now \in Times : reap_loop(n, now)
    \/ \E n \in Nodes, s \in channels : unsubscribe(n, s)
    \/ \E n \in EndpointNodes, r \in Rsubs : delete_rsub(n, r)

\* Tasks do not touch the readers.
TaskSteps ==
    /\ \/ \E t \in tasks : notify_local(t)
       \/ \E t \in tasks : read_route(t)
       \/ \E t \in tasks : forward(t)
       \/ \E t \in tasks : clear_stale(t)
    /\ UNCHANGED <<readers, written>>

ReaderSteps ==
    \/ \E id \in ListenerIds : listen_done(id)
    \/ \E p \in Readers : receipt_sub_exists(p)
    \/ \E p \in Readers : queued_receipts(p)
    \/ \E p \in Readers : write_backlog(p)
    \/ \E p \in Readers : delete_written(p)
    \/ \E p \in Readers : backlog_done(p)
    \/ \E id \in ListenerIds : hub_event(id)
    \/ \E id \in ListenerIds : hub_closed(id)
    \/ \E id \in ListenerIds : drop_stream(id)

ClientSteps ==
    \/ \E n \in EndpointNodes, r \in Rsubs, id \in ListenerIds : open(n, r, id)
    \/ \E r \in Rsubs, p \in PollIds : poll(r, p)
    \/ \E p \in Readers : client_leaves(p)

\* Only a request's handler can be dropped with its connection: the deletion
\* of the receipt subscription here.  Reaper and sessions are spawned tasks.
Faults ==
    \/ \E n \in EndpointNodes \ ConnectNodes : crash_stream_node(n)
    \/ /\ \/ \E t \in tasks, connected \in BOOLEAN : forward_fails(t, connected)
          \/ \E t \in tasks : t.job \in Rsubs /\ cancelled(t)
       /\ UNCHANGED <<readers, written>>

ReceiptNext ==
    \/ OwingSteps
    \/ TaskSteps
    \/ ReaderSteps
    \/ ClientSteps
    \/ Faults
    \/ \E id \in ListenerIds : forget(id) /\ UNCHANGED <<readers, written>>

ReceiptSpec == ReceiptInit /\ [][ReceiptNext]_vars

\* The runtime polls every task, a forward ends, and the client of a stream
\* reads what is written to it.
FairReceiptSpec ==
    /\ ReceiptSpec
    /\ \A job \in MsgIds \cup ListenerIds \cup Rsubs :
          WF_vars((\E t \in tasks : t.job = job /\ TaskStep(t)) /\ UNCHANGED <<readers, written>>)
    /\ \A p \in Readers : /\ WF_vars(receipt_sub_exists(p))
                          /\ WF_vars(queued_receipts(p))
                          /\ WF_vars(write_backlog(p))
                          /\ WF_vars(delete_written(p))
    /\ \A id \in ListenerIds : /\ WF_vars(listen_done(id))
                               /\ WF_vars(hub_event(id))
                               /\ WF_vars(hub_closed(id))
                               /\ WF_vars(drop_stream(id))

------------------------------------------------------------------------------
(***************************************************************************)
(* Properties.                                                             *)
(***************************************************************************)

\* The types of the readers, tasks and bookkeeping.
ReceiptTypeOK ==
    /\ NotifyTypeOK
    /\ readers \in [Readers -> Reader]
    /\ written \subseteq Events

\* The stream that completed listen() last, has read the queue and is still
\* registered, while no other is in the middle of listen().
Current(id) ==
    /\ readers[id].stage \in {"writing", "deleting"} /\ phase[id] = "listening"
    /\ newest[RecipientOf(id)] = id
    /\ Hub!Attached(id)
    /\ \A other \in ListenerIds : ~Running(other, "registered")

\* A task that will still try to hand receipt `q` to stream `id`.
OnItsWay(q, id) ==
    \E t \in tasks : \E i \in 1..Len(t.events) :
        /\ t.events[i] = q
        /\ \/ i > 1
           \/ t.step \in {"notify", "route"}
           \/ t.step = "forward" /\ t.target = NodeOf(id)

\* "A receipt queued in between still arrives as a live event": a queued
\* receipt has been written to the current stream, is in the backlog it read,
\* in its channel, or on its way to it.  None waits for the next stream.
NoReceiptForgotten ==
    \A id \in ListenerIds : Current(id) =>
        \A q \in Queued(RecipientOf(id)) :
            \/ q.seq \in readers[id].seen
            \/ q \in readers[id].backlog
            \/ \E i \in 1..Len(queues[id]) : queues[id][i] = q
            \/ OnItsWay(q, id)

\* The current stream gets every queued receipt.
ReceiptInv == ReceiptTypeOK /\ NoReceiptForgotten

\* "Each receipt leaves the queue once written": it leaves only then, or with
\* its receipt subscription, whichever streams and wait=0 reads overlap.
LeavesWhenWritten ==
    [][\A q \in receipts \ receipts' :
          q \in written \/ q.rsub \notin receipt_subs']_vars

\* "Delivery is at most once per receipt": a receipt that a reader writes was
\* not written before.
WrittenOnce ==
    [][\A p \in Readers :
          readers[p].stage # "deleting" /\ readers'[p].stage = "deleting"
          => readers'[p].receipt \notin written]_vars

\* "Opening a second ends the first with event: gone, as does deleting the
\* subscription", also when the deletion falls between listening and checking:
\* no stream of a subscription that is gone stays open, unless a fault lost the
\* Gone it is sent.
DeletedStreamsEnd ==
    \A id \in ListenerIds, r \in Rsubs :
        (phase[id] = "listening" /\ RecipientOf(id) = r /\ r \notin receipt_subs)
        ~> (phase[id] # "listening" \/ faults > 0)

\* A receipt that is queued when a stream reads the queue is written and
\* leaves the queue unless the stream ends first, whatever announcement of it
\* was lost.
BacklogDrains ==
    \A id \in ListenerIds, m \in MsgIds :
        (phase[id] = "listening" /\ readers[id].stage = "reading"
         /\ \E q \in receipts : q.msg_id = m /\ q.rsub = RecipientOf(id))
        ~> (phase[id] # "listening" \/ \A q \in receipts : q.msg_id # m)

==============================================================================
