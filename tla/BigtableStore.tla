---------------------------- MODULE BigtableStore ----------------------------
(***************************************************************************)
(* The Bigtable store, crates/webpush-store/src/bigtable.rs.  Only single  *)
(* rows are written atomically, so a method that touches several rows is a *)
(* call under way: each read and each mutation is a step, and other calls  *)
(* come in between.  A call may end at any of them: the request fails, its *)
(* handler is dropped or its node dies.  A node has one call under way:    *)
(* those of one node interleave as those of two do, but draw their receipt *)
(* numbers from one counter.                                               *)
(*                                                                         *)
(* The rows of a scan are worked off in any order.  Garbage collection     *)
(* only removes what has long expired; the other cells of a row (device    *)
(* tokens, VAPID keys, payloads) and the route rows are left out.          *)
(***************************************************************************)
EXTENDS Integers, FiniteSets

CONSTANTS
    Uaids, ChannelIds, PushIds, MsgIds, Topics, Rsubs,
    Nodes,         \* the processes that share the table
    Pushes,        \* the topics and receipt subscriptions that pushes name
    Ttls,          \* the TTLs messages have
    ExpireAfter,   \* user_agents.expire_after
    SeqPerMs,      \* sequence numbers per millisecond: 1000 in next_seq
    MaxClock,      \* bound on the clock
    MaxFaults,     \* bound on calls that fail
    MaxCalls,      \* bound on calls that begin
    None

Maybe(S) == S \cup {None}

ASSUME BigtableAssumption ==
    /\ Pushes \subseteq Maybe(Topics) \X Maybe(Rsubs)
    /\ Ttls \subseteq Nat /\ ExpireAfter \in Nat
    /\ SeqPerMs \in Nat \ {0}
    /\ MaxClock \in Nat /\ MaxFaults \in Nat /\ MaxCalls \in Nat
    /\ None \notin Uaids \cup ChannelIds \cup PushIds \cup MsgIds \cup Topics \cup Rsubs
    /\ None \notin Nodes

Message == [id : MsgIds, uaid : Uaids, channel_id : ChannelIds, topic : Maybe(Topics),
            expiry : Nat, rsub : Maybe(Rsubs)]

\* The row of a message: its topic's, which a replacement overwrites, or its own.
message_key(m) == IF m.topic = None THEN m.id ELSE <<m.uaid, m.channel_id, m.topic>>

MessageKeys == MsgIds \cup (Uaids \X ChannelIds \X Topics)

\* The receipt subscription, the sequence number and the content of a queue row.
Receipt == [rsub : Rsubs, seq : Nat, msg_id : MsgIds, status : {204, 410}]

VARIABLES
    ua,       \* ua#{uaid}: when the user agent was seen, or None
    ch,       \* ch#{uaid}#{ch}: its push id, or None
    push,     \* push#{push}: <<uaid, ch>>, or None
    msg,      \* msg#{uaid}#...: the message, or None
    mid,      \* mid#{id}: the row of the message, or None
    rexp,     \* rexp#{expiry}#{id}: [id, expiry, row]
    rsubs,    \* rsub#{rsub}
    rq,       \* rq#{rsub}#{seq}
    last,     \* node -> LAST of next_seq
    calls,    \* the methods under way
    clock,
    faults,
    begun,    \* the number of calls so far
    issued,   \* history: the random ids drawn and the channels created so far
    owing,    \* history: messages deleted by a call that owes their receipt
    settled   \* history: the receipts that were queued

accountRows == <<ua, ch, push>>
mailRows == <<msg, mid, rexp>>
receiptRows == <<rsubs, rq, last, settled>>
counters == <<begun, clock, faults>>
vars == <<accountRows, mailRows, receiptRows, calls, counters, issued, owing>>

\* `step` is the request that the call sends next.
Steps == {"put_mid", "put_rexp", "read_message", "delete_message_row", "delete_mid",
          "receipt_sub_exists", "put_receipt", "read_entry", "delete_entry", "put_push",
          "read_channel", "scan_messages", "delete_channel", "delete_push",
          "scan_channels", "delete_ua", "delete_rsub", "scan_queue", "delete_queued"}

Entry == [id : MsgIds, expiry : Nat, row : MessageKeys]

\* A method under way: what it was called with and what it has read.
Call == [op : {"insert_message", "ack", "withdraw", "delete_subscription", "reap",
               "delete_user_agent", "expire_user_agents", "create_subscription",
               "delete_receipt_sub"},
         step : Steps,
         agents : SUBSET Uaids, uaid : Maybe(Uaids),
         chs : SUBSET ChannelIds, channel_id : Maybe(ChannelIds),
         push : Maybe(PushIds), msgs : SUBSET Message, msg : Maybe(Message),
         id : Maybe(MsgIds), row : Maybe(MessageKeys),
         entries : SUBSET Entry, entry : Maybe(Entry),
         rsub : Maybe(Rsubs), queue : SUBSET Receipt]

ASSUME NoneAssumption == None \notin Message /\ None \notin Entry /\ None \notin Call

NewCall(op, step) ==
    [op |-> op, step |-> step, agents |-> {}, uaid |-> None, chs |-> {},
     channel_id |-> None, push |-> None, msgs |-> {}, msg |-> None, id |-> None,
     row |-> None, entries |-> {}, entry |-> None, rsub |-> None, queue |-> {}]

\* Node `i` begins a call.
Starts(i) ==
    /\ calls[i] = None
    /\ begun < MaxCalls
    /\ begun' = begun + 1

Begin(i, c) ==
    /\ Starts(i)
    /\ calls' = [calls EXCEPT ![i] = c]

At(i, step) == calls[i] # None /\ calls[i].step = step

Goto(i, c, step) == calls' = [calls EXCEPT ![i] = [c EXCEPT !.step = step]]

Return(i) == calls' = [calls EXCEPT ![i] = None]

\* The loops: call `i` in state `c` goes on with the next user agent of
\* expire_user_agents, the next channel of delete_user_agent, the next message
\* of delete_subscription or the next index row of reap.
NextAgent(i, c) ==
    IF c.agents = {} THEN Return(i)
    ELSE \E u \in c.agents :
            Goto(i, [c EXCEPT !.agents = @ \ {u}, !.uaid = u], "scan_channels")

NextChannel(i, c) ==
    IF c.op = "delete_subscription" THEN Return(i)
    ELSE IF c.chs = {} THEN Goto(i, c, "delete_ua")
    ELSE \E x \in c.chs :
            Goto(i, [c EXCEPT !.chs = @ \ {x}, !.channel_id = x], "read_channel")

NextMessage(i, c) ==
    IF c.msgs = {} THEN Goto(i, [c EXCEPT !.msg = None], "delete_channel")
    ELSE \E m \in c.msgs :
            Goto(i, [c EXCEPT !.msgs = @ \ {m}, !.msg = m], "delete_message_row")

NextEntry(i, c) ==
    IF c.entries = {} THEN Return(i)
    ELSE \E e \in c.entries :
            Goto(i, [c EXCEPT !.entries = @ \ {e}, !.entry = e, !.msg = None],
                 "read_entry")

\* Call `i` is done with its message.
MessageDone(i, c) ==
    IF c.op \in {"ack", "withdraw"} THEN Return(i)
    ELSE IF c.op = "reap" THEN Goto(i, c, "delete_entry")
    ELSE NextMessage(i, c)

------------------------------------------------------------------------------
(***************************************************************************)
(* Messages.                                                               *)
(***************************************************************************)

\* The message row comes first, then its indexes.  The caller looked the
\* subscription up, which may be gone by now.
insert_message(i, m) ==
    /\ m.id \notin issued
    /\ <<m.uaid, m.channel_id>> \in issued
    /\ m.rsub \in Maybe(rsubs)
    /\ Begin(i, [NewCall("insert_message", "put_mid") EXCEPT !.msg = m])
    /\ msg' = [msg EXCEPT ![message_key(m)] = m]
    /\ issued' = issued \cup {m.id}
    /\ UNCHANGED <<accountRows, mid, rexp, receiptRows, clock, faults, owing>>

put_mid(i) ==
    LET c == calls[i]
    IN  /\ At(i, "put_mid")
        /\ mid' = [mid EXCEPT ![c.msg.id] = message_key(c.msg)]
        /\ IF c.msg.rsub = None THEN Return(i) ELSE Goto(i, c, "put_rexp")
        /\ UNCHANGED <<accountRows, msg, rexp, receiptRows, counters, issued, owing>>

put_rexp(i) ==
    LET m == calls[i].msg
    IN  /\ At(i, "put_rexp")
        /\ rexp' = rexp \cup {[id |-> m.id, expiry |-> m.expiry, row |-> message_key(m)]}
        /\ Return(i)
        /\ UNCHANGED <<accountRows, msg, mid, receiptRows, counters, issued, owing>>

\* delete_message for an acknowledgement by the message's owner, which owes a
\* receipt, or for a withdrawal: locate() reads the index row, then the message
\* row.  (A client that reports a failure gets 410 in place of 204.)
delete_message(i, op, id) ==
    /\ mid[id] # None
    /\ Begin(i, [NewCall(op, "read_message") EXCEPT !.id = id, !.row = mid[id]])
    /\ UNCHANGED <<accountRows, mailRows, receiptRows, clock, faults, issued, owing>>

\* A message that was replaced does not match.
locate(i) ==
    LET c == calls[i]
    IN  /\ At(i, "read_message")
        /\ IF msg[c.row] # None /\ msg[c.row].id = c.id
           THEN Goto(i, [c EXCEPT !.msg = msg[c.row]], "delete_message_row")
           ELSE Return(i)
        /\ UNCHANGED <<accountRows, mailRows, receiptRows, counters, issued, owing>>

\* Delete the row of the call's message if `matched`.
DeleteRow(i, matched) ==
    LET c == calls[i]
    IN  /\ At(i, "delete_message_row")
        /\ IF matched
           THEN /\ msg' = [msg EXCEPT ![message_key(c.msg)] = None]
                /\ owing' = IF c.op = "withdraw" THEN owing ELSE owing \cup {c.msg}
                /\ Goto(i, c, "delete_mid")
           ELSE /\ UNCHANGED <<msg, owing>>
                /\ MessageDone(i, c)
        /\ UNCHANGED <<accountRows, mid, rexp, receiptRows, counters, issued>>

\* Faulty: deletes the row without looking at what it holds.
delete_message_row_blind(i) == DeleteRow(i, TRUE)

\* Faulty: whatever is in the row is deleted.
delete_message_row_any(i) == DeleteRow(i, msg[message_key(calls[i].msg)] # None)

\* CheckAndMutate: the row is deleted only if it still holds this message.
delete_message_row(i) ==
    DeleteRow(i, LET held == msg[message_key(calls[i].msg)]
                 IN  held # None /\ held.id = calls[i].msg.id)

\* remove_message, second half: the index row.
remove_message(i) ==
    LET c == calls[i]
    IN  /\ At(i, "delete_mid")
        /\ mid' = [mid EXCEPT ![c.msg.id] = None]
        /\ IF c.op = "withdraw" \/ c.msg.rsub = None
           THEN MessageDone(i, c) ELSE Goto(i, c, "receipt_sub_exists")
        /\ UNCHANGED <<accountRows, msg, rexp, receiptRows, counters, issued, owing>>

------------------------------------------------------------------------------
(***************************************************************************)
(* Receipts.                                                               *)
(***************************************************************************)

\* enqueue_receipt, first half.
receipt_sub_exists(i) ==
    LET c == calls[i]
    IN  /\ At(i, "receipt_sub_exists")
        /\ IF c.msg.rsub \in rsubs THEN Goto(i, c, "put_receipt") ELSE MessageDone(i, c)
        /\ UNCHANGED <<accountRows, mailRows, receiptRows, counters, issued, owing>>

\* The clock in microseconds, or one more than this process's last.
next_seq(n) == IF clock * SeqPerMs > last[n] THEN clock * SeqPerMs ELSE last[n] + 1

\* enqueue_receipt, second half: the number is part of the key, so a row with
\* the same number is overwritten.
enqueue_receipt(i) ==
    LET c == calls[i]
        r == [rsub |-> c.msg.rsub, seq |-> next_seq(i), msg_id |-> c.msg.id,
              status |-> IF c.op = "ack" THEN 204 ELSE 410]
    IN  /\ At(i, "put_receipt")
        /\ rq' = {q \in rq : q.rsub # r.rsub \/ q.seq # r.seq} \cup {r}
        /\ last' = [last EXCEPT ![i] = r.seq]
        /\ settled' = settled \cup {r}
        /\ MessageDone(i, c)
        /\ UNCHANGED <<accountRows, mailRows, rsubs, counters, issued, owing>>

create_receipt_sub(r) ==
    /\ r \notin issued
    /\ issued' = issued \cup {r}
    /\ rsubs' = rsubs \cup {r}
    /\ UNCHANGED <<accountRows, mailRows, rq, last, settled, calls, counters, owing>>

\* A reader deletes a receipt it has written.
delete_receipt(q) ==
    /\ q \in rq
    /\ rq' = rq \ {q}
    /\ UNCHANGED <<accountRows, mailRows, rsubs, last, settled, calls, counters,
                   issued, owing>>

delete_receipt_sub(i, r) ==
    /\ r \in rsubs
    /\ Begin(i, [NewCall("delete_receipt_sub", "delete_rsub") EXCEPT !.rsub = r])
    /\ UNCHANGED <<accountRows, mailRows, receiptRows, clock, faults, issued, owing>>

delete_rsub(i) ==
    /\ At(i, "delete_rsub")
    /\ rsubs' = rsubs \ {calls[i].rsub}
    /\ Goto(i, calls[i], "scan_queue")
    /\ UNCHANGED <<accountRows, mailRows, rq, last, settled, counters, issued, owing>>

scan_queue(i) ==
    LET c == calls[i]
        queue == {q \in rq : q.rsub = c.rsub}
    IN  /\ At(i, "scan_queue")
        /\ IF queue = {} THEN Return(i)
           ELSE Goto(i, [c EXCEPT !.queue = queue], "delete_queued")
        /\ UNCHANGED <<accountRows, mailRows, receiptRows, counters, issued, owing>>

\* By key: whatever the row holds by now.
delete_queued(i) ==
    LET c == calls[i]
    IN  /\ At(i, "delete_queued")
        /\ \E d \in c.queue :
              /\ rq' = {q \in rq : q.rsub # d.rsub \/ q.seq # d.seq}
              /\ IF c.queue = {d} THEN Return(i)
                 ELSE Goto(i, [c EXCEPT !.queue = @ \ {d}], "delete_queued")
        /\ UNCHANGED <<accountRows, mailRows, rsubs, last, settled, counters,
                       issued, owing>>

\* The reaper of a node, one at a time, reads the index rows that are due.
reap(i) ==
    LET due == {e \in rexp : e.expiry <= clock}
    IN  /\ due # {}
        /\ Starts(i)
        /\ NextEntry(i, [NewCall("reap", "read_entry") EXCEPT !.entries = due])
        /\ UNCHANGED <<accountRows, mailRows, receiptRows, clock, faults, issued, owing>>

\* An index row whose message is gone or was replaced is only deleted.
read_entry(i) ==
    LET c == calls[i]
        held == msg[c.entry.row]
    IN  /\ At(i, "read_entry")
        /\ IF held # None /\ held.id = c.entry.id
           THEN Goto(i, [c EXCEPT !.msg = held], "delete_message_row")
           ELSE Goto(i, c, "delete_entry")
        /\ UNCHANGED <<accountRows, mailRows, receiptRows, counters, issued, owing>>

\* Faulty: takes the index rows of everything the message row ever held.
delete_entry_row(i) ==
    LET c == calls[i]
    IN  /\ At(i, "delete_entry")
        /\ rexp' = {e \in rexp : e.row # c.entry.row}
        /\ NextEntry(i, c)
        /\ UNCHANGED <<accountRows, msg, mid, receiptRows, counters, issued, owing>>

delete_entry(i) ==
    LET c == calls[i]
    IN  /\ At(i, "delete_entry")
        /\ rexp' = rexp \ {c.entry}
        /\ NextEntry(i, c)
        /\ UNCHANGED <<accountRows, msg, mid, receiptRows, counters, issued, owing>>

------------------------------------------------------------------------------
(***************************************************************************)
(* User agents and subscriptions.                                          *)
(***************************************************************************)

create_user_agent(u) ==
    /\ u \notin issued
    /\ issued' = issued \cup {u}
    /\ ua' = [ua EXCEPT ![u] = clock]
    /\ UNCHANGED <<ch, push, mailRows, receiptRows, calls, counters, owing>>

\* CheckAndMutate on a cell that only an existing user agent has.
touch_user_agent(u) ==
    /\ ua[u] # None
    /\ ua' = [ua EXCEPT ![u] = clock]
    /\ UNCHANGED <<ch, push, mailRows, receiptRows, calls, counters, issued, owing>>

\* The channel row comes first.  The caller knew the user agent, which may be
\* gone by now.
create_subscription(i, u, x, p) ==
    /\ p \notin issued
    /\ u \in issued
    /\ issued' = issued \cup {p, <<u, x>>}
    /\ ch' = [ch EXCEPT ![<<u, x>>] = p]
    /\ Begin(i, [NewCall("create_subscription", "put_push") EXCEPT
                    !.uaid = u, !.channel_id = x, !.push = p])
    /\ UNCHANGED <<ua, push, mailRows, receiptRows, clock, faults, owing>>

put_push(i) ==
    LET c == calls[i]
    IN  /\ At(i, "put_push")
        /\ push' = [push EXCEPT ![c.push] = <<c.uaid, c.channel_id>>]
        /\ Return(i)
        /\ UNCHANGED <<ua, ch, mailRows, receiptRows, counters, issued, owing>>

delete_subscription(i, u, x) ==
    /\ ch[<<u, x>>] # None
    /\ Begin(i, [NewCall("delete_subscription", "scan_messages") EXCEPT
                    !.uaid = u, !.channel_id = x, !.push = ch[<<u, x>>]])
    /\ UNCHANGED <<accountRows, mailRows, receiptRows, clock, faults, issued, owing>>

channel(i) ==
    LET c == calls[i]
        sub == ch[<<c.uaid, c.channel_id>>]
    IN  /\ At(i, "read_channel")
        /\ IF sub = None THEN NextChannel(i, c)
           ELSE Goto(i, [c EXCEPT !.push = sub], "scan_messages")
        /\ UNCHANGED <<accountRows, mailRows, receiptRows, counters, issued, owing>>

scan_messages(i) ==
    LET c == calls[i]
        found == {msg[k] : k \in {k \in MessageKeys : msg[k] # None}}
    IN  /\ At(i, "scan_messages")
        /\ NextMessage(i, [c EXCEPT !.msgs =
              {m \in found : m.uaid = c.uaid /\ m.channel_id = c.channel_id}])
        /\ UNCHANGED <<accountRows, mailRows, receiptRows, counters, issued, owing>>

delete_channel(i) ==
    LET c == calls[i]
    IN  /\ At(i, "delete_channel")
        /\ ch' = [ch EXCEPT ![<<c.uaid, c.channel_id>>] = None]
        /\ Goto(i, c, "delete_push")
        /\ UNCHANGED <<ua, push, mailRows, receiptRows, counters, issued, owing>>

\* The push row of the subscription that was read at the beginning.
delete_push(i) ==
    LET c == calls[i]
    IN  /\ At(i, "delete_push")
        /\ push' = [push EXCEPT ![c.push] = None]
        /\ NextChannel(i, c)
        /\ UNCHANGED <<ua, ch, mailRows, receiptRows, counters, issued, owing>>

Channels(u) == {x \in ChannelIds : ch[<<u, x>>] # None}

\* The caller knew the user agent.  Its channels are read first.
delete_user_agent(i, u) ==
    /\ ua[u] # None
    /\ Starts(i)
    /\ NextChannel(i, [NewCall("delete_user_agent", "scan_channels") EXCEPT
                          !.uaid = u, !.chs = Channels(u)])
    /\ UNCHANGED <<accountRows, mailRows, receiptRows, clock, faults, issued, owing>>

\* The same for the next user agent of the sweep.
scan_channels(i) ==
    LET c == calls[i]
    IN  /\ At(i, "scan_channels")
        /\ NextChannel(i, [c EXCEPT !.chs = Channels(c.uaid)])
        /\ UNCHANGED <<accountRows, mailRows, receiptRows, counters, issued, owing>>

delete_ua(i) ==
    LET c == calls[i]
    IN  /\ At(i, "delete_ua")
        /\ ua' = [ua EXCEPT ![c.uaid] = None]
        /\ NextAgent(i, c)
        /\ UNCHANGED <<ch, push, mailRows, receiptRows, counters, issued, owing>>

\* The expiry sweep reads every user agent row, then deletes those that were
\* stale when it read them.
expire_user_agents(i) ==
    LET stale == {u \in Uaids : ua[u] # None /\ ua[u] < clock - ExpireAfter}
    IN  /\ stale # {}
        /\ Starts(i)
        /\ NextAgent(i, [NewCall("expire_user_agents", "scan_channels") EXCEPT
                            !.agents = stale])
        /\ UNCHANGED <<accountRows, mailRows, receiptRows, clock, faults, issued, owing>>

------------------------------------------------------------------------------
\* The request of a call fails, or its task is dropped.
call_fails(i) ==
    /\ faults < MaxFaults
    /\ faults' = faults + 1
    /\ calls[i] # None
    /\ Return(i)
    /\ UNCHANGED <<accountRows, mailRows, receiptRows, begun, clock, issued, owing>>

tick ==
    /\ clock < MaxClock
    /\ clock' = clock + 1
    /\ UNCHANGED <<accountRows, mailRows, receiptRows, calls, begun, faults, issued, owing>>

\* An empty table.
BigtableInit ==
    /\ ua = [u \in Uaids |-> None]
    /\ ch = [k \in Uaids \X ChannelIds |-> None]
    /\ push = [p \in PushIds |-> None]
    /\ msg = [k \in MessageKeys |-> None] /\ mid = [id \in MsgIds |-> None]
    /\ rexp = {} /\ rsubs = {} /\ rq = {}
    /\ last = [n \in Nodes |-> 0]
    /\ calls = [i \in Nodes |-> None]
    /\ begun = 0 /\ clock = 1 /\ faults = 0
    /\ issued = {} /\ owing = {} /\ settled = {}

Accounts ==
    \/ \E u \in Uaids : create_user_agent(u)
    \/ \E u \in Uaids : touch_user_agent(u)
    \/ \E r \in Rsubs : create_receipt_sub(r)
    \/ \E q \in rq : delete_receipt(q)

Calls ==
    \E i \in Nodes :
        \/ \E u \in Uaids, x \in ChannelIds :
              \/ \E id \in MsgIds, p \in Pushes, ttl \in Ttls :
                    insert_message(i,
                        [id |-> id, uaid |-> u, channel_id |-> x, topic |-> p[1],
                         expiry |-> clock + ttl, rsub |-> p[2]])
              \/ \E p \in PushIds : create_subscription(i, u, x, p)
              \/ delete_subscription(i, u, x)
        \/ \E id \in MsgIds, op \in {"ack", "withdraw"} : delete_message(i, op, id)
        \/ \E r \in Rsubs : delete_receipt_sub(i, r)
        \/ \E u \in Uaids : delete_user_agent(i, u)
        \/ reap(i)
        \/ expire_user_agents(i)

CallSteps(i) ==
    \/ put_mid(i)
    \/ put_rexp(i)
    \/ locate(i)
    \/ delete_message_row(i)
    \/ remove_message(i)
    \/ receipt_sub_exists(i)
    \/ enqueue_receipt(i)
    \/ delete_rsub(i)
    \/ scan_queue(i)
    \/ delete_queued(i)
    \/ read_entry(i)
    \/ delete_entry(i)
    \/ put_push(i)
    \/ channel(i)
    \/ scan_messages(i)
    \/ delete_channel(i)
    \/ delete_push(i)
    \/ scan_channels(i)
    \/ delete_ua(i)

BigtableNext ==
    \/ Accounts
    \/ Calls
    \/ \E i \in Nodes : CallSteps(i)
    \/ \E i \in Nodes : call_fails(i)
    \/ tick

BigtableSpec == BigtableInit /\ [][BigtableNext]_vars

------------------------------------------------------------------------------
(***************************************************************************)
(* Properties.                                                             *)
(***************************************************************************)

\* The types of the rows, the calls and the bookkeeping.
BigtableTypeOK ==
    /\ ua \in [Uaids -> Maybe(Nat)]
    /\ ch \in [Uaids \X ChannelIds -> Maybe(PushIds)]
    /\ push \in [PushIds -> Maybe(Uaids \X ChannelIds)]
    /\ msg \in [MessageKeys -> Maybe(Message)]
    /\ mid \in [MsgIds -> Maybe(MessageKeys)]
    /\ rexp \subseteq Entry
    /\ rsubs \subseteq Rsubs
    /\ rq \subseteq Receipt /\ settled \subseteq Receipt
    /\ last \in [Nodes -> Nat]
    /\ calls \in [Nodes -> Maybe(Call)]
    /\ owing \subseteq Message

\* "Two nodes running them at the same time never owe the same receipt twice":
\* whichever calls delete a message together, it gets one receipt.
OneReceipt == \A q, r \in settled : q.msg_id = r.msg_id => q = r

\* "Deleting a subscription or user agent, reap, and expire_user_agents queue a
\* 410 receipt for each deleted message that requested one", and an
\* acknowledgement its 204: the receipt of a deleted message was queued or is
\* about to be, unless its receipt subscription is gone or a call failed.
ReceiptsFollow ==
    faults = 0 => \A m \in owing : m.rsub \in rsubs =>
        \/ \E q \in settled : q.msg_id = m.id
        \/ \E i \in Nodes : /\ calls[i] # None /\ calls[i].msg = m
                              /\ calls[i].step \in {"delete_mid", "receipt_sub_exists",
                                                    "put_receipt"}

\* "Index rows are written after, and deleted after, the rows they point at":
\* the reaper finds every message that wants a receipt, once insert_message has
\* returned, and an acknowledgement every message.
IndexesLead ==
    faults = 0 => \A k \in MessageKeys : msg[k] # None =>
        \/ /\ mid[msg[k].id] = k
           /\ msg[k].rsub # None => \E e \in rexp : e.id = msg[k].id /\ e.row = k
        \/ \E i \in Nodes : calls[i] # None /\ calls[i].op = "insert_message"
                              /\ calls[i].msg = msg[k]

\* "Deletes only the message currently stored under that id": a message row is
\* emptied only by a call that read this message, never one that has read the
\* message it replaced.
NewerMessagesStay ==
    [][\A k \in MessageKeys : msg[k] # None /\ msg'[k] = None =>
          \E i \in Nodes : /\ calls[i] # None /\ calls[i].msg = msg[k]
                           /\ calls'[i] # calls[i]]_vars

\* "The channel row is authoritative": the push id in a channel row resolves,
\* once create_subscription has returned, whatever deletes and creates overlap.
ChannelsResolve ==
    faults = 0 => \A k \in Uaids \X ChannelIds : ch[k] # None =>
        \/ push[ch[k]] = k
        \/ \E i \in Nodes : calls[i] # None /\ calls[i].step = "put_push"
                              /\ calls[i].push = ch[k]

\* A message that was deleted gets its receipt, and one only.
ReceiptsExact == OneReceipt /\ ReceiptsFollow

\* What is stored is found: messages by their id and by the reaper, channels by
\* their push id.
BigtableInv == BigtableTypeOK /\ IndexesLead /\ ChannelsResolve

\* "Receipts that occur while no stream is open are queued and sent when you
\* connect": the receipts of a subscription have queue rows of their own, so that
\* queueing one does not overwrite another.
QueueKeepsReceipts ==
    \A q, r \in settled : q.rsub = r.rsub /\ q.seq = r.seq => q = r

==============================================================================
