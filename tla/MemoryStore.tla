----------------------------- MODULE MemoryStore -----------------------------
(***************************************************************************)
(* The in-memory store, crates/webpush-store/src/memory.rs: seven maps     *)
(* behind one mutex.  Every method takes the lock once and never awaits    *)
(* while it holds it, so a method is one atomic action.                    *)
(*                                                                         *)
(* The environment is every caller the server has: sessions, push          *)
(* handlers, the receipt streams, the reaper and the expiry loop.  A       *)
(* caller may act on what it read earlier, so a message may be inserted    *)
(* for a subscription that is gone by then, and a subscription created for *)
(* a channel that another caller registered in between.                    *)
(***************************************************************************)
EXTENDS Integers, FiniteSets

CONSTANTS
    Uaids,       \* user agent ids
    ChannelIds,  \* the user agents' names for their subscriptions
    PushIds,     \* push resource ids
    MsgIds,      \* message ids
    Topics,      \* replacement keys
    Rsubs,       \* receipt subscription ids
    Tokens,      \* device tokens of bridged user agents
    Keys,        \* application server (VAPID) keys
    Nodes,       \* cluster nodes, by their internal URL
    Times,       \* the clock readings that occur
    None         \* Rust's None

ASSUME TimesAssumption == Times \subseteq Nat

ASSUME NoneAssumption ==
    /\ None \notin Uaids \cup ChannelIds \cup PushIds \cup MsgIds
    /\ None \notin Topics \cup Rsubs \cup Tokens \cup Keys \cup Nodes
    /\ None \notin Uaids \X ChannelIds

Maybe(S) == S \cup {None}

UserAgent == [bridge : Maybe(Tokens), last_seen : Times]

Subscription == [uaid : Uaids, channel_id : ChannelIds, push : PushIds,
                 vapid : Maybe(Keys)]

\* The body and the headers that only travel with it are left out.
Message == [id : MsgIds, uaid : Uaids, channel_id : ChannelIds,
            topic : Maybe(Topics), accepted : Times, expiry : Times,
            rsub : Maybe(Rsubs)]

\* A receipt with its queue sequence number.
Receipt == [rsub : Rsubs, seq : Nat, msg_id : MsgIds, status : {204, 410}]

\* A session (by its uaid) or a receipt stream (by its receipt subscription).
Recipients == Uaids \cup Rsubs

VARIABLES
    user_agents,   \* uaid -> UserAgent or None
    channels,      \* the subscriptions; (uaid, channel_id) is the key
    push,          \* push id -> <<uaid, channel_id>> or None
    messages,      \* the stored messages
    topics,        \* <<uaid, channel_id, topic>> -> message id or None
    receipt_subs,  \* the receipt subscriptions that exist
    receipts,      \* the queued receipts of all of them
    routes,        \* recipient -> node or None
    last_seq,      \* the process-wide receipt sequence number
    issued,        \* ids that new_id and new_uaid have handed out
    granted,       \* subscriptions ever created: what a push handler may hold
    returned,      \* messages with a receipt to settle that delete_message gave
                   \*   to a caller still using them
    settled        \* history: every receipt ever queued

storeVars == <<user_agents, channels, push, messages, topics, receipt_subs,
               receipts, routes, last_seq, issued, granted, returned, settled>>

\* Groups that most operations leave alone.
accountVars == <<user_agents, channels, push, granted>>
receiptVars == <<receipts, last_seq, settled>>
mailVars == <<messages, topics>>

Slots == Uaids \X ChannelIds \X Topics

Slot(m) == <<m.uaid, m.channel_id, m.topic>>

Ids(S) == {m.id : m \in S}

Stale(cutoff) ==
    {u \in Uaids : user_agents[u] # None /\ user_agents[u].last_seen < cutoff}

------------------------------------------------------------------------------
(***************************************************************************)
(* Shared steps.                                                           *)
(***************************************************************************)

\* The sequence numbers next_seq hands to a batch: distinct, above all earlier
\* ones, in the arbitrary order a HashMap is iterated in.
next_seq(S) ==
    {f \in [S -> (last_seq + 1)..(last_seq + Cardinality(S))] :
        \A a, b \in S : f[a] = f[b] => a = b}

\* Faulty: the counter does not advance.
Queue_stuck(owed, order, status) ==
    LET new == {[rsub |-> m.rsub, seq |-> order[m], msg_id |-> m.id,
                 status |-> status] : m \in owed}
    IN  /\ receipts' = receipts \cup new
        /\ settled' = settled \cup new
        /\ last_seq' = last_seq

\* Queue one receipt for each message of `owed`, numbered by `order`.
Queue(owed, order, status) ==
    LET new == {[rsub |-> m.rsub, seq |-> order[m], msg_id |-> m.id,
                 status |-> status] : m \in owed}
    IN  /\ receipts' = receipts \cup new
        /\ settled' = settled \cup new
        /\ last_seq' = last_seq + Cardinality(owed)

\* Each message of `gone` that asked for a receipt is owed a 410, if its
\* receipt subscription still exists.
owe_410(gone) ==
    LET owed == {m \in gone : m.rsub \in receipt_subs}
    IN  \E order \in next_seq(owed) : Queue(owed, order, 410)

\* Faulty: the topic index keeps naming a removed message.
remove_message_only(gone) ==
    /\ messages' = messages \ gone
    /\ UNCHANGED topics

\* Remove messages and the topic slots they name.
remove_message(gone) ==
    /\ messages' = messages \ gone
    /\ topics' = [s \in Slots |->
                    IF \E m \in gone : Slot(m) = s THEN None ELSE topics[s]]

\* Delete subscriptions with their messages, owing the receipts.
remove_subscription(subs) ==
    LET gone == {m \in messages : \E s \in subs :
                    m.uaid = s.uaid /\ m.channel_id = s.channel_id}
    IN  /\ channels' = channels \ subs
        /\ push' = [p \in PushIds |->
                      IF \E s \in subs : s.push = p THEN None ELSE push[p]]
        /\ remove_message(gone)
        /\ owe_410(gone)

remove_user_agent(uaids) ==
    /\ user_agents' = [u \in Uaids |->
                         IF u \in uaids THEN None ELSE user_agents[u]]
    /\ remove_subscription({s \in channels : s.uaid \in uaids})
    /\ UNCHANGED <<receipt_subs, routes, issued, granted, returned>>

------------------------------------------------------------------------------
(***************************************************************************)
(* User agents.                                                            *)
(***************************************************************************)

create_user_agent(u, ua) ==
    /\ u \notin issued
    /\ issued' = issued \cup {u}
    /\ user_agents' = [user_agents EXCEPT ![u] = ua]
    /\ UNCHANGED <<channels, push, granted, returned, receipt_subs, routes,
                   receiptVars, mailVars>>

touch_user_agent(u, now) ==
    /\ user_agents[u] # None
    /\ user_agents' = [user_agents EXCEPT ![u].last_seen =
                         IF now > @ THEN now ELSE @]
    /\ UNCHANGED <<channels, push, granted, returned, receipt_subs, routes,
                   issued, receiptVars, mailVars>>

update_bridge_token(u, token) ==
    /\ user_agents[u] # None
    /\ user_agents[u].bridge # None
    /\ user_agents' = [user_agents EXCEPT ![u].bridge = token]
    /\ UNCHANGED <<channels, push, granted, returned, receipt_subs, routes,
                   issued, receiptVars, mailVars>>

delete_user_agent(u) == remove_user_agent({u})

expire_user_agents(cutoff) == remove_user_agent(Stale(cutoff))

------------------------------------------------------------------------------
(***************************************************************************)
(* Subscriptions.                                                          *)
(***************************************************************************)

\* `s.push` is fresh.  The maps are written without looking at what they hold.
create_subscription(s) ==
    /\ s.push \notin {g.push : g \in granted}
    /\ push' = [push EXCEPT ![s.push] = <<s.uaid, s.channel_id>>]
    /\ channels' = {c \in channels : <<c.uaid, c.channel_id>> # <<s.uaid, s.channel_id>>}
                   \cup {s}
    /\ granted' = granted \cup {s}
    /\ UNCHANGED <<user_agents, returned, receipt_subs, routes, issued,
                   receiptVars, mailVars>>

\* The subscriptions a push id resolves to: none or one.
subscription_by_push(p) == {s \in channels : push[p] = <<s.uaid, s.channel_id>>}

delete_subscription(u, ch) ==
    /\ remove_subscription({s \in channels : s.uaid = u /\ s.channel_id = ch})
    /\ UNCHANGED <<user_agents, receipt_subs, routes, issued, granted, returned>>

------------------------------------------------------------------------------
(***************************************************************************)
(* Messages.                                                               *)
(***************************************************************************)

\* The message in the slot, if any, is dropped without a receipt.
insert_message(m) ==
    LET old == IF m.topic = None THEN None ELSE topics[Slot(m)]
    IN  /\ m.id \notin issued
        /\ issued' = issued \cup {m.id}
        /\ messages' = {x \in messages : x.id # old} \cup {m}
        /\ topics' = [s \in Slots |-> IF s = Slot(m) THEN m.id ELSE topics[s]]
        /\ UNCHANGED <<accountVars, returned, receipt_subs, routes, receiptVars>>

Unexpired(u, now) == {m \in messages : m.uaid = u /\ m.expiry > now}

\* The possible results of `pending`: the `limit` oldest unexpired messages.
\* Equal acceptance times are ordered by random ids, hence arbitrarily.
pending(u, now, limit) ==
    LET all == Unexpired(u, now)
    IN  {b \in SUBSET all :
            /\ Cardinality(b) = IF Cardinality(all) < limit THEN Cardinality(all) ELSE limit
            /\ \A x \in b, y \in all \ b : x.accepted <= y.accepted}

\* Faulty: the caller gets the message and the store keeps it.
delete_message_kept(id, owner) ==
    \E m \in messages :
        /\ m.id = id
        /\ owner = None \/ owner = <<m.uaid, m.channel_id>>
        /\ returned' = returned \cup
              {[msg |-> x, acked |-> owner # None] : x \in {y \in {m} : y.rsub # None}}
        /\ UNCHANGED <<accountVars, receipt_subs, routes, issued, receiptVars,
                       mailVars>>

\* Remove message `id` and give it to the caller.  A session passes itself as
\* `owner`, the application server that withdraws a message passes None.  The
\* caller of a message that asked for no receipt has nothing left to do.
delete_message(id, owner) ==
    \E m \in messages :
        /\ m.id = id
        /\ owner = None \/ owner = <<m.uaid, m.channel_id>>
        /\ remove_message({m})
        /\ returned' = returned \cup
              {[msg |-> x, acked |-> owner # None] : x \in {y \in {m} : y.rsub # None}}
        /\ UNCHANGED <<accountVars, receipt_subs, routes, issued, receiptVars>>

\* Faulty: expiry owes nothing.
reap_silently(now) ==
    /\ remove_message({m \in messages : m.expiry <= now})
    /\ UNCHANGED <<accountVars, receipt_subs, routes, issued, returned, receiptVars>>

\* Every message past its expiry is dropped, with or without a receipt.
reap(now) ==
    LET expired == {m \in messages : m.expiry <= now}
    IN  /\ remove_message(expired)
        /\ owe_410(expired)
        /\ UNCHANGED <<accountVars, receipt_subs, routes, issued, returned>>

------------------------------------------------------------------------------
(***************************************************************************)
(* Receipts.                                                               *)
(***************************************************************************)

create_receipt_sub(r) ==
    /\ r \notin issued
    /\ issued' = issued \cup {r}
    /\ receipt_subs' = receipt_subs \cup {r}
    /\ UNCHANGED <<accountVars, returned, routes, receiptVars, mailVars>>

\* The subscription goes with its queue.
delete_receipt_sub(r) ==
    /\ r \in receipt_subs
    /\ receipt_subs' = receipt_subs \ {r}
    /\ receipts' = {q \in receipts : q.rsub # r}
    /\ UNCHANGED <<accountVars, returned, routes, last_seq, settled, issued,
                   mailVars>>

\* The session that acknowledged `a.msg` queues its receipt, unless the
\* receipt subscription is gone.
enqueue_receipt(a, status) ==
    LET owed == {m \in {a.msg} : m.rsub \in receipt_subs}
    IN  /\ a.acked
        /\ returned' = returned \ {a}
        /\ \E order \in next_seq(owed) : Queue(owed, order, status)
        /\ UNCHANGED <<accountVars, receipt_subs, routes, issued, mailVars>>

\* A withdrawal only reports that there was a message: no receipt.
withdraw_done(a) ==
    /\ ~a.acked
    /\ returned' = returned \ {a}
    /\ UNCHANGED <<accountVars, receipt_subs, routes, issued, receiptVars,
                   mailVars>>

delete_receipt(q) ==
    /\ receipts' = receipts \ {q}
    /\ UNCHANGED <<accountVars, returned, receipt_subs, routes, last_seq,
                   settled, issued, mailVars>>

------------------------------------------------------------------------------
(***************************************************************************)
(* Routes.                                                                 *)
(***************************************************************************)

set_route(to, node) ==
    /\ routes' = [routes EXCEPT ![to] = node]
    /\ UNCHANGED <<accountVars, returned, receipt_subs, issued, receiptVars,
                   mailVars>>

\* Faulty: whatever the route says, it goes.
clear_route_any(to, node) ==
    /\ routes' = [routes EXCEPT ![to] = None]
    /\ UNCHANGED <<accountVars, returned, receipt_subs, issued, receiptVars,
                   mailVars>>

\* Only a route that still names `node` is removed.
clear_route(to, node) ==
    /\ routes' = [routes EXCEPT ![to] = IF @ = node THEN None ELSE @]
    /\ UNCHANGED <<accountVars, returned, receipt_subs, issued, receiptVars,
                   mailVars>>

------------------------------------------------------------------------------
StoreInit ==
    /\ user_agents = [u \in Uaids |-> None]
    /\ channels = {}
    /\ push = [p \in PushIds |-> None]
    /\ messages = {}
    /\ topics = [s \in Slots |-> None]
    /\ receipt_subs = {}
    /\ receipts = {}
    /\ routes = [to \in Recipients |-> None]
    /\ last_seq = 0
    /\ issued = {}
    /\ granted = {}
    /\ returned = {}
    /\ settled = {}

\* What the callers may ask for: an operation on ids they were given.
Subscribable(s) == s.uaid \in issued

\* A push handler addresses a subscription that it has looked up at some time,
\* and names a receipt subscription that existed when it checked.
Acceptable(m) ==
    /\ \E g \in granted : g.uaid = m.uaid /\ g.channel_id = m.channel_id
    /\ m.rsub \in Maybe(issued)
    /\ m.accepted <= m.expiry

StoreNext ==
    \/ \E u \in Uaids, ua \in UserAgent : create_user_agent(u, ua)
    \/ \E u \in Uaids, now \in Times : touch_user_agent(u, now)
    \/ \E u \in Uaids, t \in Tokens : update_bridge_token(u, t)
    \/ \E u \in Uaids : delete_user_agent(u)
    \/ \E cutoff \in Times : expire_user_agents(cutoff)
    \/ \E s \in Subscription : Subscribable(s) /\ create_subscription(s)
    \/ \E u \in Uaids, ch \in ChannelIds : delete_subscription(u, ch)
    \/ \E m \in Message : Acceptable(m) /\ insert_message(m)
    \/ \E id \in MsgIds, owner \in Maybe(Uaids \X ChannelIds) : delete_message(id, owner)
    \/ \E now \in Times : reap(now)
    \/ \E r \in Rsubs : create_receipt_sub(r)
    \/ \E r \in Rsubs : delete_receipt_sub(r)
    \/ \E a \in returned, status \in {204, 410} : enqueue_receipt(a, status)
    \/ \E a \in returned : withdraw_done(a)
    \/ \E q \in receipts : delete_receipt(q)
    \/ \E to \in Recipients, n \in Nodes : set_route(to, n)
    \/ \E to \in Recipients, n \in Nodes : clear_route(to, n)

StoreSpec == StoreInit /\ [][StoreNext]_storeVars

------------------------------------------------------------------------------
(***************************************************************************)
(* Properties.                                                             *)
(***************************************************************************)

\* Every map of `State` holds keys and values of its declared type.
StoreTypeOK ==
    /\ user_agents \in [Uaids -> Maybe(UserAgent)]
    /\ channels \subseteq Subscription
    /\ push \in [PushIds -> Maybe(Uaids \X ChannelIds)]
    /\ messages \subseteq Message
    /\ topics \in [Slots -> Maybe(MsgIds)]
    /\ receipt_subs \subseteq Rsubs
    /\ receipts \subseteq Receipt
    /\ routes \in [Recipients -> Maybe(Nodes)]
    /\ last_seq \in Nat
    /\ issued \subseteq Uaids \cup MsgIds \cup Rsubs
    /\ granted \subseteq Subscription
    /\ returned \subseteq [msg : Message, acked : BOOLEAN]
    /\ settled \subseteq Receipt

\* The `topics` index and the messages agree whatever removes a message
\* (acknowledgement, withdrawal, replacement, expiry, deletion of the
\* subscription or of the user agent): a slot names a stored message of that
\* slot, and a stored message with a topic is the one its slot names.  So a
\* topic holds at most one message, and replacing it cannot hit another.
TopicSlotsExact ==
    /\ \A s \in Slots : topics[s] # None =>
          \E m \in messages : m.id = topics[s] /\ Slot(m) = s
    /\ \A m \in messages : m.topic # None => topics[Slot(m)] = m.id

\* Acknowledgement, expiry and unsubscription race for the same message; the
\* application server is told at most one outcome.  A message with a receipt
\* is neither stored nor in the hands of a session that will send another.
OneOutcome ==
    /\ \A q \in settled :
          q.msg_id \notin Ids(messages) \cup {a.msg.id : a \in returned}
    /\ \A q, r \in settled : q.msg_id = r.msg_id => q = r

\* enqueue_receipt and owe_410 look at the receipt subscription under the
\* lock, so no receipt is ever queued where no stream will look for it.
QueuesOwned == \A q \in receipts : q.rsub \in receipt_subs

\* A registered subscription is what its push resource resolves to, also
\* after the channel was registered twice or others were removed.
PushResolves ==
    \A s \in channels : subscription_by_push(s.push) = {s}

\* The maps of `State` agree with each other after every method: the types,
\* the two indexes, and the queues with the receipt subscriptions.
StoreConsistent == StoreTypeOK /\ TopicSlotsExact /\ PushResolves /\ QueuesOwned

\* No silent end: a message whose receipt subscription exists leaves the store
\* only with its 410 queued in the same step, or handed to whoever deleted it,
\* or because a newer message took its topic slot.
EndsAccountedFor ==
    [][\A m \in messages \ messages' : m.rsub \in receipt_subs =>
          \/ \E q \in receipts' : q.msg_id = m.id /\ q.status = 410
          \/ \E a \in returned' : a.msg = m
          \/ m.topic # None /\ \E n \in messages' \ messages : Slot(n) = Slot(m)
      ]_storeVars

\* Receipts are queued in increasing sequence: a receipt that a stream has not
\* seen sorts after all those it has.
SeqsIncrease ==
    [][\A q \in settled' \ settled, r \in settled : q.seq > r.seq]_storeVars

==============================================================================
