--------------------------- MODULE BigtableProofs ---------------------------
(***************************************************************************)
(* The Bigtable store, for any number of nodes, rows, calls and faults:    *)
(* first the methods of BigtableStore, then the route rows of RouteRows.   *)
(***************************************************************************)
EXTENDS BigtableStore, RouteRows, TLAPS

-----------------------------------------------------------------------------
(* The inductive invariant *)

DeleteOps == {"delete_subscription", "delete_user_agent", "expire_user_agents"}

\* The steps of a call that has deleted a message row.
RemovalSteps == {"delete_mid", "receipt_sub_exists", "put_receipt"}

MessageSteps == {"delete_message_row"} \cup RemovalSteps

SubscriptionSteps == MessageSteps \cup {"scan_messages", "delete_channel", "delete_push"}

Types == BigtableTypeOK /\ clock \in Nat /\ faults \in Nat

(***************************************************************************)
(* A call has read what its step needs.                                    *)
(***************************************************************************)
WellFormed(c) ==
    /\ c.op = "insert_message" <=> c.step \in {"put_mid", "put_rexp"}
    /\ c.op = "create_subscription" <=> c.step = "put_push"
    /\ c.op = "delete_receipt_sub" <=> c.step \in {"delete_rsub", "scan_queue", "delete_queued"}
    /\ c.step = "read_message" => c.op \in {"ack", "withdraw"} /\ c.id # None /\ c.row # None
    /\ c.step \in MessageSteps \/ c.op = "insert_message" => c.msg # None
    /\ c.step \in {"receipt_sub_exists", "put_receipt"} => c.op # "withdraw" /\ c.msg.rsub # None
    /\ c.op = "reap" => c.entry # None /\ c.step \in MessageSteps \cup {"read_entry", "delete_entry"}
    /\ c.step \in {"read_entry", "delete_entry"} => c.op = "reap"
    /\ c.op \in DeleteOps => c.uaid # None
    /\ c.op \in DeleteOps /\ c.step \in SubscriptionSteps => c.channel_id # None /\ c.push # None
    /\ c.step \in {"scan_messages", "delete_channel", "delete_push", "read_channel",
                   "scan_channels", "delete_ua"} => c.op \in DeleteOps
    /\ c.step = "read_channel" => c.channel_id # None
    /\ c.push # None => c.op \in DeleteOps \cup {"create_subscription"}
    /\ c.step = "put_push" => c.uaid # None /\ c.channel_id # None /\ c.push # None

Unstored(id) == \A k \in MessageKeys : msg[k] # None => msg[k].id # id

Unsettled(id) == \A q \in settled : q.msg_id # id

(***************************************************************************)
(* An id is drawn for one message, g[id].                                  *)
(***************************************************************************)
Genuine(g, m) == m = g[m.id] /\ m.id \in issued /\ (m.rsub # None => m.rsub \in issued)

\* The index row e of the reaper names the row that its message is in.
RightRow(e) ==
    e.id \in issued /\ \A k \in MessageKeys : msg[k] # None /\ msg[k].id = e.id => k = e.row

RowsFit(g) ==
    \A k \in MessageKeys : msg[k] # None =>
        Genuine(g, msg[k]) /\ message_key(msg[k]) = k /\ Unsettled(msg[k].id)

OwingFits(g) == \A m \in owing : Genuine(g, m) /\ Unstored(m.id)

EntriesFit == \A e \in rexp : RightRow(e)

IdsIssued == (\A q \in settled : q.msg_id \in issued) /\ rsubs \subseteq issued

(***************************************************************************)
(* A push id is drawn for one channel.                                     *)
(***************************************************************************)
ChannelsFit ==
    /\ \A k \in Uaids \X ChannelIds : ch[k] # None => ch[k] \in issued
    /\ \A k, l \in Uaids \X ChannelIds : ch[k] # None /\ ch[k] = ch[l] => k = l

OwnsPush(c) ==
    /\ c.push # None => c.push \in issued
    /\ c.step \in SubscriptionSteps \cup {"put_push"} =>
          \A k \in Uaids \X ChannelIds :
              ch[k] # None /\ ch[k] = c.push => k = <<c.uaid, c.channel_id>>
    /\ c.step = "delete_push" =>
          \A k \in Uaids \X ChannelIds : ch[k] # None => ch[k] # c.push

(***************************************************************************)
(* What a call knows of the messages it is to index, reap or delete.       *)
(***************************************************************************)
HoldsMail(g, c) ==
    /\ c.msg # None => Genuine(g, c.msg)
    /\ \A m \in c.msgs : Genuine(g, m)
    /\ \A e \in c.entries : RightRow(e)
    /\ c.entry # None => RightRow(c.entry)
    /\ c.op = "reap" /\ c.step \in MessageSteps => c.msg.id = c.entry.id
    /\ c.step = "delete_entry" => Unstored(c.entry.id)
    /\ c.step = "put_rexp" /\ msg[message_key(c.msg)] = c.msg =>
          mid[c.msg.id] = message_key(c.msg)

(***************************************************************************)
(* A message whose row a call has deleted is in no row, and its receipt is *)
(* that call's to queue.                                                   *)
(***************************************************************************)
Removes(c) ==
    c.step \in RemovalSteps =>
        /\ Unstored(c.msg.id)
        /\ c.op # "withdraw" => Unsettled(c.msg.id)
        /\ c.op = "withdraw" => \A m \in owing : m.id # c.msg.id

Fits(g, c) == WellFormed(c) /\ OwnsPush(c) /\ HoldsMail(g, c) /\ Removes(c)

CallsFit(g) == \A i \in Nodes : calls[i] # None => Fits(g, calls[i])

Removing(i) == calls[i] # None /\ calls[i].step \in RemovalSteps

OneRemover ==
    \A i, j \in Nodes :
        Removing(i) /\ Removing(j) /\ calls[i].msg.id = calls[j].msg.id => i = j

StoreFits(g) ==
    /\ Types
    /\ RowsFit(g) /\ OwingFits(g) /\ EntriesFit /\ IdsIssued /\ ChannelsFit
    /\ CallsFit(g) /\ OneRemover
    /\ OneReceipt /\ ReceiptsFollow /\ IndexesLead /\ ChannelsResolve

StoreInv == \E g : StoreFits(g)

-----------------------------------------------------------------------------
(* How a call goes on *)

Moved(i, x) == calls' = [calls EXCEPT ![i] = x]

\* All that a call keeps while it works off its messages.
SameSubscription(x, c) ==
    /\ x.op = c.op /\ x.agents = c.agents /\ x.uaid = c.uaid
    /\ x.chs = c.chs /\ x.channel_id = c.channel_id /\ x.push = c.push
    /\ x.id = c.id /\ x.row = c.row /\ x.rsub = c.rsub /\ x.queue = c.queue
    /\ x.entries = c.entries /\ x.entry = c.entry

SameCall(x, c) == SameSubscription(x, c) /\ x.msg = c.msg /\ x.msgs = c.msgs

LEMMA GotoMoves ==
    ASSUME NEW i \in Nodes, NEW c \in Call, NEW s \in Steps, Goto(i, c, s)
    PROVE  \E x \in Call : Moved(i, x) /\ x.step = s /\ SameCall(x, c)
<1> DEFINE x == [c EXCEPT !.step = s]
<1>1. x \in Call /\ x.step = s /\ SameCall(x, c)
  BY DEF Call, SameCall, SameSubscription
<1> QED BY <1>1 DEF Goto, Moved

AfterMessage(x, c) ==
    /\ x \in Call /\ SameSubscription(x, c) /\ x.msgs \subseteq c.msgs
    /\ \/ c.op = "reap" /\ x.step = "delete_entry" /\ x.msg = c.msg
       \/ c.op \in DeleteOps /\ x.step = "delete_channel" /\ x.msg = None
       \/ c.op \in DeleteOps /\ x.step = "delete_message_row" /\ x.msg \in c.msgs

LEMMA NextMessageMoves ==
    ASSUME NEW i \in Nodes, NEW c \in Call, c.op \in DeleteOps, NextMessage(i, c)
    PROVE  \E x \in Call : Moved(i, x) /\ AfterMessage(x, c)
<1>1. CASE c.msgs = {}
  <2>1. PICK y : y = [c EXCEPT !.msg = None]
    OBVIOUS
  <2>2. y \in Call /\ y.msg = None /\ y.msgs = c.msgs /\ SameSubscription(y, c)
    BY <2>1 DEF Call, Maybe, SameSubscription
  <2>3. Goto(i, y, "delete_channel")
    BY <1>1, <2>1 DEF NextMessage
  <2>4. PICK x \in Call : Moved(i, x) /\ x.step = "delete_channel" /\ SameCall(x, y)
    BY <2>2, <2>3, GotoMoves DEF Steps
  <2> QED BY <2>2, <2>4 DEF AfterMessage, SameCall, SameSubscription
<1>2. CASE c.msgs # {}
  <2>1. PICK m \in c.msgs :
               Goto(i, [c EXCEPT !.msgs = @ \ {m}, !.msg = m], "delete_message_row")
    BY <1>2 DEF NextMessage
  <2>2. PICK y : y = [c EXCEPT !.msgs = @ \ {m}, !.msg = m]
    OBVIOUS
  <2>3. y \in Call /\ y.msg = m /\ y.msgs \subseteq c.msgs /\ SameSubscription(y, c)
    BY <2>2 DEF Call, Maybe, SameSubscription
  <2>4. PICK x \in Call : Moved(i, x) /\ x.step = "delete_message_row" /\ SameCall(x, y)
    BY <2>1, <2>2, <2>3, GotoMoves DEF Steps
  <2> QED BY <2>3, <2>4 DEF AfterMessage, SameCall, SameSubscription
<1> QED BY <1>1, <1>2

LEMMA MessageDoneMoves ==
    ASSUME NEW i \in Nodes, NEW c \in Call, WellFormed(c), c.step \in MessageSteps,
           MessageDone(i, c)
    PROVE  \E x : Moved(i, x) /\ (x = None \/ AfterMessage(x, c))
<1>1. CASE c.op \in {"ack", "withdraw"}
  BY <1>1 DEF MessageDone, Return, Moved
<1>2. CASE c.op = "reap"
  <2>1. Goto(i, c, "delete_entry")
    BY <1>2 DEF MessageDone
  <2>2. PICK x \in Call : Moved(i, x) /\ x.step = "delete_entry" /\ SameCall(x, c)
    BY <2>1, GotoMoves DEF Steps
  <2> QED BY <1>2, <2>2 DEF AfterMessage, SameCall
<1>3. CASE c.op \notin {"ack", "withdraw", "reap"}
  <2>1. NextMessage(i, c)
    BY <1>3 DEF MessageDone
  <2>2. c.op \in DeleteOps
    BY <1>3 DEF WellFormed, Call, DeleteOps, MessageSteps, RemovalSteps
  <2> QED BY <2>1, <2>2, NextMessageMoves
<1> QED BY <1>1, <1>2, <1>3

LEMMA NextEntryMoves ==
    ASSUME NEW i \in Nodes, NEW c \in Call, NextEntry(i, c)
    PROVE  \E x : Moved(i, x) /\
               \/ x = None
               \/ /\ x \in Call /\ x.op = c.op /\ x.step = "read_entry" /\ x.msg = None
                  /\ x.entry \in c.entries /\ x.entries \subseteq c.entries
                  /\ x.msgs = c.msgs /\ x.push = c.push
<1>1. CASE c.entries = {}
  BY <1>1 DEF NextEntry, Return, Moved
<1>2. CASE c.entries # {}
  <2>1. PICK e \in c.entries :
               Goto(i, [c EXCEPT !.entries = @ \ {e}, !.entry = e, !.msg = None], "read_entry")
    BY <1>2 DEF NextEntry
  <2>2. PICK y : y = [c EXCEPT !.entries = @ \ {e}, !.entry = e, !.msg = None]
    OBVIOUS
  <2>3. y \in Call /\ y.op = c.op /\ y.msg = None /\ y.entry = e /\ y.entries \subseteq c.entries
        /\ y.msgs = c.msgs /\ y.push = c.push
    BY <2>2 DEF Call, Maybe
  <2>4. PICK x \in Call : Moved(i, x) /\ x.step = "read_entry" /\ SameCall(x, y)
    BY <2>1, <2>2, <2>3, GotoMoves DEF Steps
  <2> QED BY <2>3, <2>4 DEF SameCall, SameSubscription
<1> QED BY <1>1, <1>2

\* The steps of a call that deletes user agents and is between two channels.
BetweenChannels(x, c) ==
    /\ x \in Call /\ x.op = c.op /\ x.op \in DeleteOps
    /\ x.step \in {"delete_ua", "read_channel", "scan_channels"}
    /\ x.step = "read_channel" => x.channel_id # None
    /\ x.uaid # None
    /\ x.msg = c.msg /\ x.msgs = c.msgs /\ x.push = c.push
    /\ x.entries = c.entries /\ x.entry = c.entry

LEMMA NextChannelMoves ==
    ASSUME NEW i \in Nodes, NEW c \in Call, c.op \in DeleteOps, c.uaid # None, NextChannel(i, c)
    PROVE  \E x : Moved(i, x) /\ (x = None \/ BetweenChannels(x, c))
<1>1. CASE c.op = "delete_subscription"
  BY <1>1 DEF NextChannel, Return, Moved
<1>2. CASE c.op # "delete_subscription" /\ c.chs = {}
  <2>1. Goto(i, c, "delete_ua")
    BY <1>2 DEF NextChannel
  <2>2. PICK x \in Call : Moved(i, x) /\ x.step = "delete_ua" /\ SameCall(x, c)
    BY <2>1, GotoMoves DEF Steps
  <2> QED BY <2>2 DEF BetweenChannels, SameCall, SameSubscription
<1>3. CASE c.op # "delete_subscription" /\ c.chs # {}
  <2>1. PICK k \in c.chs :
               Goto(i, [c EXCEPT !.chs = @ \ {k}, !.channel_id = k], "read_channel")
    BY <1>3 DEF NextChannel
  <2>2. PICK y : y = [c EXCEPT !.chs = @ \ {k}, !.channel_id = k]
    OBVIOUS
  <2>3. y \in Call /\ y.op = c.op /\ y.channel_id = k /\ y.uaid = c.uaid /\ y.msg = c.msg
        /\ y.msgs = c.msgs /\ y.push = c.push /\ y.entries = c.entries /\ y.entry = c.entry
    BY <2>2 DEF Call, Maybe
  <2>4. k # None
    BY BigtableAssumption DEF Call
  <2>5. PICK x \in Call : Moved(i, x) /\ x.step = "read_channel" /\ SameCall(x, y)
    BY <2>1, <2>2, <2>3, GotoMoves DEF Steps
  <2> QED BY <2>3, <2>4, <2>5 DEF BetweenChannels, SameCall, SameSubscription
<1> QED BY <1>1, <1>2, <1>3

LEMMA NextAgentMoves ==
    ASSUME NEW i \in Nodes, NEW c \in Call, c.op \in DeleteOps, NextAgent(i, c)
    PROVE  \E x : Moved(i, x) /\ (x = None \/ BetweenChannels(x, c))
<1>1. CASE c.agents = {}
  BY <1>1 DEF NextAgent, Return, Moved
<1>2. CASE c.agents # {}
  <2>1. PICK u \in c.agents :
               Goto(i, [c EXCEPT !.agents = @ \ {u}, !.uaid = u], "scan_channels")
    BY <1>2 DEF NextAgent
  <2>2. PICK y : y = [c EXCEPT !.agents = @ \ {u}, !.uaid = u]
    OBVIOUS
  <2>3. y \in Call /\ y.op = c.op /\ y.uaid = u /\ y.msg = c.msg
        /\ y.msgs = c.msgs /\ y.push = c.push /\ y.entries = c.entries /\ y.entry = c.entry
    BY <2>2 DEF Call, Maybe
  <2>4. u # None
    BY BigtableAssumption DEF Call
  <2>5. PICK x \in Call : Moved(i, x) /\ x.step = "scan_channels" /\ SameCall(x, y)
    BY <2>1, <2>2, <2>3, GotoMoves DEF Steps
  <2> QED BY <2>3, <2>4, <2>5 DEF BetweenChannels, SameCall, SameSubscription
<1> QED BY <1>1, <1>2

-----------------------------------------------------------------------------
(* What every step leaves alone *)

(***************************************************************************)
(* Rows may be deleted, but what is new in one has a fresh id.             *)
(***************************************************************************)
Drift ==
    /\ issued \subseteq issued'
    /\ \A k \in MessageKeys : msg'[k] # None => msg'[k] = msg[k] \/ msg'[k].id \notin issued
    /\ \A k \in Uaids \X ChannelIds : ch'[k] # None => ch'[k] = ch[k] \/ ch'[k] \notin issued

LEMMA GenuineStays ==
    ASSUME NEW g, NEW h, \A id \in MsgIds \cap issued : h[id] = g[id], issued \subseteq issued',
           NEW m \in Message, Genuine(g, m)
    PROVE  Genuine(h, m)'
BY DEF Genuine, Message

LEMMA UnstoredStays ==
    ASSUME Drift, NEW id \in issued, Unstored(id)
    PROVE  Unstored(id)'
BY DEF Drift, Unstored

LEMMA RightRowStays ==
    ASSUME Drift, NEW e, RightRow(e)
    PROVE  RightRow(e)'
BY DEF Drift, RightRow

(***************************************************************************)
(* A call is not disturbed by the steps of the others, as long as no other *)
(* settles or owes what it removes, or spoils the index row it has put.    *)
(***************************************************************************)
LEMMA FitStays ==
    ASSUME Types, Drift, NEW g, NEW h, \A id \in MsgIds \cap issued : h[id] = g[id],
           NEW c \in Call, Fits(g, c),
           c.step \in RemovalSteps =>
               /\ \A q \in settled' : q \in settled \/ q.msg_id # c.msg.id
               /\ \A m \in owing' : m \in owing \/ m.id # c.msg.id,
           c.step = "put_rexp" =>
               mid'[c.msg.id] = mid[c.msg.id] \/ mid'[c.msg.id] = message_key(c.msg)
               \/ Unstored(c.msg.id)'
    PROVE  Fits(h, c)'
<1>1. WellFormed(c)'
  BY DEF Fits, WellFormed
<1>2. OwnsPush(c)'
  BY DEF Fits, OwnsPush, Drift
<1>3. /\ c.msg # None => c.msg \in Message
      /\ c.msgs \subseteq Message
      /\ c.entry # None => c.entry \in Entry
      /\ c.entries \subseteq Entry
  BY DEF Call, Maybe
<1>4. HoldsMail(h, c)'
  <2>1. (c.msg # None => Genuine(h, c.msg)') /\ (\A m \in c.msgs : Genuine(h, m)')
    <3>1. ASSUME NEW m \in Message, Genuine(g, m) PROVE Genuine(h, m)'
      BY <3>1, GenuineStays DEF Drift
    <3> QED BY <3>1, <1>3 DEF Fits, HoldsMail
  <2>2. (\A e \in c.entries : RightRow(e)') /\ (c.entry # None => RightRow(c.entry)')
    BY RightRowStays DEF Fits, HoldsMail
  <2>3. c.step = "delete_entry" => Unstored(c.entry.id)'
    <3> SUFFICES ASSUME c.step = "delete_entry" PROVE Unstored(c.entry.id)'
      OBVIOUS
    <3>1. c.entry # None
      BY DEF Fits, WellFormed
    <3>2. c.entry.id \in issued /\ Unstored(c.entry.id)
      BY <3>1 DEF Fits, HoldsMail, RightRow
    <3> QED BY <3>2, UnstoredStays
  <2>4. c.step = "put_rexp" /\ msg'[message_key(c.msg)] = c.msg =>
            mid'[c.msg.id] = message_key(c.msg)
    <3> SUFFICES ASSUME c.step = "put_rexp", msg'[message_key(c.msg)] = c.msg
                 PROVE  mid'[c.msg.id] = message_key(c.msg)
      OBVIOUS
    <3>1. c.msg # None
      BY DEF Fits, WellFormed
    <3>2. c.msg \in Message /\ Genuine(g, c.msg)
      BY <3>1, <1>3 DEF Fits, HoldsMail
    <3>3. message_key(c.msg) \in MessageKeys
      BY <3>2 DEF message_key, MessageKeys, Message, Maybe
    <3>4. msg[message_key(c.msg)] = c.msg
      BY <3>1, <3>2, <3>3 DEF Drift, Genuine
    <3>5. mid[c.msg.id] = message_key(c.msg)
      BY <3>4 DEF Fits, HoldsMail
    <3>6. ~(Unstored(c.msg.id)')
      BY <3>1, <3>3 DEF Unstored
    <3> QED BY <3>5, <3>6
  <2> QED BY <2>1, <2>2, <2>3, <2>4 DEF Fits, HoldsMail
<1>5. Removes(c)'
  <2> SUFFICES ASSUME c.step \in RemovalSteps PROVE Removes(c)'
    BY DEF Removes
  <2>1. c.msg # None
    BY DEF Fits, WellFormed, MessageSteps
  <2>2. c.msg.id \in issued
    BY <2>1 DEF Fits, HoldsMail, Genuine
  <2>3. Unstored(c.msg.id)'
    BY <2>2, UnstoredStays DEF Fits, Removes
  <2> QED BY <2>3 DEF Fits, Removes, Unsettled
<1> QED BY <1>1, <1>2, <1>4, <1>5 DEF Fits

(***************************************************************************)
(* The calls after a step of call i.                                       *)
(***************************************************************************)
LEMMA CallsStay ==
    ASSUME Types, Drift, NEW g, NEW h, \A id \in MsgIds \cap issued : h[id] = g[id],
           CallsFit(g), NEW i \in Nodes, NEW x, Moved(i, x), x # None => Fits(h, x)',
           \A j \in Nodes \ {i} : calls[j] # None =>
               /\ calls[j].step \in RemovalSteps =>
                      /\ \A q \in settled' : q \in settled \/ q.msg_id # calls[j].msg.id
                      /\ \A m \in owing' : m \in owing \/ m.id # calls[j].msg.id
               /\ calls[j].step = "put_rexp" =>
                      mid'[calls[j].msg.id] = mid[calls[j].msg.id]
                      \/ mid'[calls[j].msg.id] = message_key(calls[j].msg)
                      \/ Unstored(calls[j].msg.id)'
    PROVE  CallsFit(h)'
<1>1. calls \in [Nodes -> Maybe(Call)]
  BY DEF Types, BigtableTypeOK
<1>2. ASSUME NEW j \in Nodes, NEW c, c = calls'[j], c # None PROVE Fits(h, c)'
  <2>1. CASE j = i
    <3>1. c = x
      BY <1>1, <1>2, <2>1 DEF Moved
    <3> QED BY <1>2, <3>1
  <2>2. CASE j # i
    <3>1. c = calls[j] /\ c \in Call
      BY <1>1, <1>2, <2>2 DEF Moved, Maybe
    <3>2. Fits(g, c)
      BY <1>2, <3>1 DEF CallsFit
    <3> QED BY <1>2, <2>2, <3>1, <3>2, FitStays
  <2> QED BY <2>1, <2>2
<1> SUFFICES ASSUME NEW j \in Nodes, (calls[j] # None)' PROVE Fits(h, calls[j])'
  BY DEF CallsFit
<1>3. PICK c : c = calls'[j]
  OBVIOUS
<1>4. Fits(h, c)'
  BY <1>2, <1>3
<1>5. WellFormed(calls[j])'
  BY <1>3, <1>4 DEF Fits, WellFormed
<1>6. OwnsPush(calls[j])' /\ Removes(calls[j])'
  BY <1>3, <1>4 DEF Fits, OwnsPush, Removes, Unstored, Unsettled
<1>7. HoldsMail(h, calls[j])'
  BY <1>3, <1>4 DEF Fits, HoldsMail, Genuine, RightRow, Unstored, message_key
<1> QED BY <1>5, <1>6, <1>7 DEF Fits

LEMMA IdleCallsStay ==
    ASSUME Types, Drift, NEW g, CallsFit(g), UNCHANGED <<calls, mid, settled, owing>>
    PROVE  CallsFit(g)'
<1> SUFFICES ASSUME NEW i \in Nodes, calls[i] # None PROVE CallsFit(g)'
  BY DEF CallsFit
<1>1. PICK x : x = calls[i]
  OBVIOUS
<1>2. Moved(i, x) /\ x \in Call /\ Fits(g, x)
  BY <1>1 DEF Types, BigtableTypeOK, Moved, Maybe, CallsFit
<1>3. Fits(g, x)'
  BY <1>2, FitStays
<1> QED BY <1>2, <1>3, CallsStay

LEMMA MovedCalls ==
    ASSUME Types, NEW i \in Nodes, NEW x, Moved(i, x)
    PROVE  \A j \in Nodes : calls'[j] = IF j = i THEN x ELSE calls[j]
BY DEF Types, BigtableTypeOK, Moved

LEMMA OneRemoverStays ==
    ASSUME Types, OneRemover, NEW i \in Nodes, NEW x, Moved(i, x),
           x # None /\ x.step \in RemovalSteps => Removing(i) /\ x.msg = calls[i].msg
    PROVE  OneRemover'
BY MovedCalls DEF OneRemover, Removing

(***************************************************************************)
(* Call i leaves receipts, indexes and push rows as they are.              *)
(***************************************************************************)
LEMMA ReceiptsStay ==
    ASSUME Types, ReceiptsFollow, NEW i \in Nodes, NEW x, Moved(i, x),
           UNCHANGED <<faults, owing>>, rsubs' \subseteq rsubs, settled \subseteq settled',
           Removing(i) =>
               \/ x # None /\ x.step \in RemovalSteps /\ x.msg = calls[i].msg
               \/ calls[i].msg.rsub \notin rsubs
               \/ calls[i].msg \notin owing
               \/ \E q \in settled' : q.msg_id = calls[i].msg.id
    PROVE  ReceiptsFollow'
<1> SUFFICES ASSUME faults = 0, NEW m \in owing, m.rsub \in rsubs
             PROVE  \/ \E q \in settled' : q.msg_id = m.id
                    \/ \E j \in Nodes : /\ calls'[j] # None /\ calls'[j].msg = m
                                        /\ calls'[j].step \in RemovalSteps
  BY DEF ReceiptsFollow, RemovalSteps
<1>1. CASE \E q \in settled : q.msg_id = m.id
  BY <1>1
<1>2. CASE \E j \in Nodes : Removing(j) /\ calls[j].msg = m
  BY <1>2, MovedCalls DEF Removing
<1> QED BY <1>1, <1>2 DEF ReceiptsFollow, Removing, RemovalSteps

LEMMA IndexesStay ==
    ASSUME Types, IndexesLead, NEW i \in Nodes, NEW x, Moved(i, x),
           UNCHANGED <<faults, mid, rexp>>,
           \A k \in MessageKeys : msg'[k] # None => msg'[k] = msg[k],
           calls[i] # None => calls[i].op # "insert_message"
    PROVE  IndexesLead'
<1> SUFFICES ASSUME faults = 0, NEW k \in MessageKeys, msg'[k] # None
             PROVE  \/ /\ mid[msg[k].id] = k
                       /\ msg[k].rsub # None => \E e \in rexp : e.id = msg[k].id /\ e.row = k
                    \/ \E j \in Nodes : calls'[j] # None /\ calls'[j].op = "insert_message"
                                          /\ calls'[j].msg = msg[k]
  BY DEF IndexesLead
<1> QED BY MovedCalls DEF IndexesLead

LEMMA ResolveStays ==
    ASSUME Types, ChannelsResolve, NEW i \in Nodes, NEW x, Moved(i, x),
           UNCHANGED <<faults, push>>,
           \A k \in Uaids \X ChannelIds : ch'[k] # None => ch'[k] = ch[k],
           calls[i] # None => calls[i].step # "put_push"
    PROVE  ChannelsResolve'
<1> SUFFICES ASSUME faults = 0, NEW k \in Uaids \X ChannelIds, ch'[k] # None
             PROVE  \/ push[ch[k]] = k
                    \/ \E j \in Nodes : calls'[j] # None /\ calls'[j].step = "put_push"
                                          /\ calls'[j].push = ch[k]
  BY DEF ChannelsResolve
<1> QED BY MovedCalls DEF ChannelsResolve

LEMMA MailStays ==
    ASSUME Types, NEW g, UNCHANGED <<msg, rexp, settled, owing>>, issued \subseteq issued',
           rsubs' \subseteq rsubs,
           RowsFit(g), OwingFits(g), EntriesFit, IdsIssued
    PROVE  RowsFit(g)' /\ OwingFits(g)' /\ EntriesFit' /\ IdsIssued'
<1>1. RowsFit(g)'
  BY DEF RowsFit, Genuine, Unsettled, message_key
<1>2. OwingFits(g)' /\ EntriesFit' /\ IdsIssued'
  BY DEF OwingFits, Genuine, Unstored, EntriesFit, RightRow, IdsIssued
<1> QED BY <1>1, <1>2

LEMMA ChannelsStay ==
    ASSUME ChannelsFit, UNCHANGED ch, issued \subseteq issued'
    PROVE  ChannelsFit'
BY DEF ChannelsFit

LEMMA CallsTyped ==
    ASSUME Types, NEW i \in Nodes, NEW x \in Maybe(Call), Moved(i, x)
    PROVE  calls' \in [Nodes -> Maybe(Call)]
BY DEF Types, BigtableTypeOK, Moved

-----------------------------------------------------------------------------
(* Steps that only move a call on *)

QuietTypes == ua' \in [Uaids -> Maybe(Nat)] /\ rq' \subseteq Receipt /\ last' \in [Nodes -> Nat]
              /\ clock' \in Nat

(***************************************************************************)
(* Call i goes on as x, or begins or ends: no message, channel or index    *)
(* row changes, and a call that is to queue a receipt goes on to do so.    *)
(***************************************************************************)
LEMMA CallGoesOn ==
    ASSUME NEW g, StoreFits(g), NEW i \in Nodes, NEW x \in Maybe(Call), Moved(i, x),
           UNCHANGED <<ch, push, mailRows, settled, owing, faults>>,
           issued \subseteq issued', rsubs' \subseteq rsubs, QuietTypes,
           x # None => Fits(g, x),
           calls[i] # None => calls[i].op # "insert_message" /\ calls[i].step # "put_push",
           x # None /\ x.step \in RemovalSteps => Removing(i) /\ x.msg = calls[i].msg,
           Removing(i) =>
               \/ x # None /\ x.step \in RemovalSteps /\ x.msg = calls[i].msg
               \/ calls[i].msg.rsub \notin rsubs
    PROVE  StoreFits(g)'
<1>1. Types' /\ Types
  BY CallsTyped DEF StoreFits, Types, BigtableTypeOK, QuietTypes, mailRows
<1>2. Drift
  BY DEF Drift, mailRows
<1>3. x # None => Fits(g, x)'
  <2> SUFFICES ASSUME x # None PROVE Fits(g, x)'
    OBVIOUS
  <2>1. x \in Call
    BY DEF Maybe
  <2> QED BY <2>1, <1>1, <1>2, FitStays DEF mailRows
<1>4. CallsFit(g)'
  BY <1>1, <1>2, <1>3, CallsStay DEF StoreFits, mailRows
<1>5. OneRemover'
  BY <1>1, OneRemoverStays DEF StoreFits
<1>6. OneReceipt'
  BY DEF StoreFits, OneReceipt
<1>7. ReceiptsFollow'
  BY <1>1, ReceiptsStay DEF StoreFits
<1>8. IndexesLead'
  BY <1>1, IndexesStay DEF StoreFits, mailRows
<1>9. ChannelsResolve'
  BY <1>1, ResolveStays DEF StoreFits
<1>10. RowsFit(g)' /\ OwingFits(g)' /\ EntriesFit' /\ IdsIssued' /\ ChannelsFit'
  BY <1>1, MailStays, ChannelsStay DEF StoreFits, mailRows
<1> QED BY <1>1, <1>4, <1>5, <1>6, <1>7, <1>8, <1>9, <1>10 DEF StoreFits

LEMMA CallFits ==
    ASSUME NEW g, StoreFits(g), NEW i \in Nodes, calls[i] # None
    PROVE  calls[i] \in Call /\ Fits(g, calls[i]) /\ Types /\ WellFormed(calls[i])
BY DEF StoreFits, Types, BigtableTypeOK, Maybe, CallsFit, Fits

LEMMA NewCallFields ==
    ASSUME NEW op \in {"ack", "withdraw", "delete_subscription", "reap", "delete_user_agent",
                       "expire_user_agents", "create_subscription", "delete_receipt_sub",
                       "insert_message"},
           NEW step \in Steps
    PROVE  /\ NewCall(op, step) \in Call
           /\ NewCall(op, step).op = op /\ NewCall(op, step).step = step
           /\ NewCall(op, step).msgs = {} /\ NewCall(op, step).msg = None
           /\ NewCall(op, step).entries = {} /\ NewCall(op, step).entry = None
           /\ NewCall(op, step).push = None /\ NewCall(op, step).agents = {}
           /\ NewCall(op, step).chs = {}
BY DEF NewCall, Call, Maybe

\* A call that has read no message, no index row and no push id.
LEMMA EmptyFits ==
    ASSUME NEW g, NEW c \in Call, WellFormed(c), c.msg = None, c.msgs = {}, c.entries = {},
           c.entry = None, c.push = None
    PROVE  Fits(g, c)
<1>1. c.step \notin MessageSteps \cup {"put_mid", "put_rexp", "delete_entry", "put_push"}
  BY DEF WellFormed, MessageSteps
<1>2. c.step # "delete_push"
  BY DEF WellFormed, SubscriptionSteps
<1>3. OwnsPush(c)
  BY <1>1, <1>2 DEF OwnsPush
<1>4. HoldsMail(g, c) /\ Removes(c)
  BY <1>1 DEF HoldsMail, Removes, MessageSteps
<1> QED BY <1>3, <1>4 DEF Fits

LEMMA BetweenFits ==
    ASSUME NEW g, NEW c \in Call, NEW x, BetweenChannels(x, c),
           c.push # None => c.push \in issued,
           c.msg # None => Genuine(g, c.msg), \A m \in c.msgs : Genuine(g, m),
           \A e \in c.entries : RightRow(e), c.entry # None => RightRow(c.entry)
    PROVE  Fits(g, x)
<1>1. x.step \in {"delete_ua", "read_channel", "scan_channels"} /\ x.op \in DeleteOps
  BY DEF BetweenChannels
<1>2. WellFormed(x)
  BY <1>1 DEF BetweenChannels, WellFormed, DeleteOps, SubscriptionSteps, MessageSteps, RemovalSteps
<1>3. OwnsPush(x)
  BY <1>1 DEF BetweenChannels, OwnsPush, SubscriptionSteps, MessageSteps, RemovalSteps
<1>4. HoldsMail(g, x) /\ Removes(x)
  BY <1>1 DEF BetweenChannels, HoldsMail, Removes, MessageSteps, RemovalSteps, DeleteOps
<1> QED BY <1>2, <1>3, <1>4 DEF Fits

LEMMA AfterFits ==
    ASSUME NEW g, NEW c \in Call, c.step \in MessageSteps, Fits(g, c), NEW x, AfterMessage(x, c),
           Unstored(c.msg.id)
    PROVE  Fits(g, x)
<1>1. x.step \in {"delete_entry", "delete_channel", "delete_message_row"}
      /\ x.op = c.op /\ WellFormed(c)
  BY DEF AfterMessage, SameSubscription, Fits
<1>2. c.step \in SubscriptionSteps
  BY DEF SubscriptionSteps
<1>3. \A m \in c.msgs : m # None
  BY NoneAssumption DEF Call
<1>4. WellFormed(x)
  BY <1>1, <1>2, <1>3 DEF AfterMessage, SameSubscription, WellFormed, DeleteOps,
     SubscriptionSteps, MessageSteps, RemovalSteps
<1>5. OwnsPush(x)
  BY <1>1, <1>2 DEF AfterMessage, SameSubscription, Fits, OwnsPush, SubscriptionSteps, MessageSteps
<1>6. HoldsMail(g, x)
  <2>1. c.op = "reap" => Unstored(c.entry.id)
    BY DEF Fits, HoldsMail
  <2> QED BY <2>1, <1>1 DEF AfterMessage, SameSubscription, Fits, HoldsMail, DeleteOps,
          MessageSteps, RemovalSteps
<1>7. Removes(x)
  BY <1>1 DEF Removes, RemovalSteps
<1> QED BY <1>4, <1>5, <1>6, <1>7 DEF Fits

-----------------------------------------------------------------------------
(* One lemma per step: first the steps that only move a call on *)

LEMMA RowTyped ==
    ASSUME Types, NEW k \in MessageKeys, msg[k] # None
    PROVE  msg[k] \in Message
BY DEF Types, BigtableTypeOK, Maybe

LEMMA KeyTyped ==
    ASSUME NEW m \in Message
    PROVE  message_key(m) \in MessageKeys
BY DEF message_key, MessageKeys, Message, Maybe

LEMMA locateKeeps ==
    ASSUME NEW g, StoreFits(g), NEW i \in Nodes, locate(i)
    PROVE  StoreFits(g)'
<1>1. PICK c : c = calls[i]
  OBVIOUS
<1>2. c # None /\ c.step = "read_message" /\ c \in Call /\ Fits(g, c) /\ Types /\ WellFormed(c)
  BY <1>1, CallFits DEF locate, At
<1>3. c.op \in {"ack", "withdraw"} /\ c.row \in MessageKeys
  BY <1>2 DEF WellFormed, Call, Maybe
<1>4. /\ UNCHANGED <<ch, push, mailRows, settled, owing, faults, issued, rsubs, ua, rq, last, clock>>
      /\ QuietTypes
  BY <1>2 DEF locate, accountRows, receiptRows, counters, QuietTypes, Types, BigtableTypeOK
<1>5. ~Removing(i)
  BY <1>1, <1>2 DEF Removing, RemovalSteps
<1>6. CASE msg[c.row] # None /\ msg[c.row].id = c.id
  <2>1. PICK y : y = [c EXCEPT !.msg = msg[c.row]]
    OBVIOUS
  <2>2. msg[c.row] \in Message
    BY <1>2, <1>3, <1>6, RowTyped
  <2>3. y \in Call /\ y.op = c.op /\ y.msg = msg[c.row] /\ y.push = c.push /\ y.msgs = c.msgs
        /\ y.entries = c.entries /\ y.entry = c.entry
    BY <1>2, <2>1, <2>2 DEF Call, Maybe
  <2>4. PICK x \in Call : Moved(i, x) /\ x.step = "delete_message_row" /\ SameCall(x, y)
    <3>1. Goto(i, y, "delete_message_row")
      BY <1>1, <1>6, <2>1 DEF locate
    <3> QED BY <3>1, <2>3, GotoMoves DEF Steps
  <2>5. x.op \in {"ack", "withdraw"} /\ x.msg = msg[c.row] /\ x.msgs = c.msgs
        /\ x.entries = c.entries /\ x.entry = c.entry /\ x.push = None
    BY <1>2, <1>3, <2>3, <2>4 DEF SameCall, SameSubscription, WellFormed, DeleteOps
  <2>6. Genuine(g, x.msg)
    BY <1>3, <1>6, <2>5 DEF StoreFits, RowsFit
  <2>7. Fits(g, x)
    <3>1. WellFormed(x)
      BY <1>6, <2>4, <2>5 DEF WellFormed, MessageSteps, RemovalSteps, DeleteOps
    <3>2. OwnsPush(x) /\ Removes(x)
      BY <2>4, <2>5 DEF OwnsPush, Removes, RemovalSteps
    <3>3. HoldsMail(g, x)
      BY <1>2, <2>4, <2>5, <2>6 DEF HoldsMail, Fits
    <3> QED BY <3>1, <3>2, <3>3 DEF Fits
  <2>8. x \in Maybe(Call) /\ x.step \notin RemovalSteps
    BY <2>4 DEF Maybe, RemovalSteps
  <2> QED BY <1>1, <1>2, <1>3, <1>4, <1>5, <2>4, <2>7, <2>8, CallGoesOn
<1>7. CASE ~(msg[c.row] # None /\ msg[c.row].id = c.id)
  <2>1. Moved(i, None)
    BY <1>1, <1>7 DEF locate, Return, Moved
  <2> QED BY <1>1, <1>2, <1>3, <1>4, <1>5, <2>1, CallGoesOn DEF Maybe
<1> QED BY <1>6, <1>7

LEMMA receipt_sub_existsKeeps ==
    ASSUME NEW g, StoreFits(g), NEW i \in Nodes, receipt_sub_exists(i)
    PROVE  StoreFits(g)'
<1>1. PICK c : c = calls[i]
  OBVIOUS
<1>2. /\ c # None /\ c.step = "receipt_sub_exists" /\ c \in Call /\ Fits(g, c) /\ Types
      /\ WellFormed(c)
  BY <1>1, CallFits DEF receipt_sub_exists, At
<1>3. /\ UNCHANGED <<ch, push, mailRows, settled, owing, faults, issued, rsubs, ua, rq, last, clock>>
      /\ QuietTypes
  BY <1>2 DEF receipt_sub_exists, accountRows, receiptRows, counters, QuietTypes, Types,
     BigtableTypeOK
<1>4. c.op # "insert_message" /\ c.step # "put_push" /\ c.step \in MessageSteps
      /\ c.step \in RemovalSteps
  BY <1>2 DEF WellFormed, MessageSteps, RemovalSteps
<1>5. CASE c.msg.rsub \in rsubs
  <2>1. PICK x \in Call : Moved(i, x) /\ x.step = "put_receipt" /\ SameCall(x, c)
    <3>1. Goto(i, c, "put_receipt")
      BY <1>1, <1>5 DEF receipt_sub_exists
    <3> QED BY <1>2, <3>1, GotoMoves DEF Steps
  <2>2. x.op = c.op /\ x.msg = c.msg /\ x.msgs = c.msgs /\ x.entries = c.entries
        /\ x.entry = c.entry /\ x.push = c.push /\ x.uaid = c.uaid /\ x.channel_id = c.channel_id
    BY <2>1 DEF SameCall, SameSubscription
  <2>3. Fits(g, x)
    <3>1. WellFormed(x)
      BY <1>2, <2>1, <2>2 DEF WellFormed, SubscriptionSteps, MessageSteps, RemovalSteps
    <3>2. OwnsPush(x) /\ Removes(x)
      BY <1>2, <2>1, <2>2 DEF Fits, OwnsPush, Removes, SubscriptionSteps, MessageSteps, RemovalSteps
    <3>3. HoldsMail(g, x)
      BY <1>2, <2>1, <2>2 DEF HoldsMail, Fits, MessageSteps, RemovalSteps
    <3> QED BY <3>1, <3>2, <3>3 DEF Fits
  <2>4. x \in Maybe(Call) /\ x # None /\ x.step \in RemovalSteps /\ Removing(i)
    BY <1>1, <1>2, <2>1, NoneAssumption DEF Maybe, RemovalSteps, Removing
  <2> QED BY <1>1, <1>3, <1>4, <2>1, <2>2, <2>3, <2>4, CallGoesOn
<1>6. CASE c.msg.rsub \notin rsubs
  <2>1. PICK x : Moved(i, x) /\ (x = None \/ AfterMessage(x, c))
    <3>1. MessageDone(i, c)
      BY <1>1, <1>6 DEF receipt_sub_exists
    <3> QED BY <1>2, <1>4, <3>1, MessageDoneMoves
  <2>2. x \in Maybe(Call) /\ (x # None => AfterMessage(x, c))
        /\ (x # None => x.step \notin RemovalSteps)
    BY <2>1 DEF AfterMessage, Maybe, RemovalSteps
  <2>3. x # None => Fits(g, x)
    BY <1>2, <1>4, <2>2, AfterFits DEF Fits, Removes
  <2> QED BY <1>1, <1>3, <1>4, <1>6, <2>1, <2>2, <2>3, CallGoesOn
<1> QED BY <1>5, <1>6

\* How delete_receipt_sub goes on.
QueueWork(x, c) ==
    \/ x = None
    \/ /\ x \in Call /\ x.step \in {"scan_queue", "delete_queued"}
       /\ x.op = c.op /\ x.msg = c.msg /\ x.msgs = c.msgs
       /\ x.entries = c.entries /\ x.entry = c.entry /\ x.push = c.push

LEMMA scan_queueKeeps ==
    ASSUME NEW g, StoreFits(g), NEW i \in Nodes,
           scan_queue(i) \/ delete_rsub(i) \/ delete_queued(i)
    PROVE  StoreFits(g)'
<1>1. PICK c : c = calls[i]
  OBVIOUS
<1>2. /\ c # None /\ c.step \in {"scan_queue", "delete_rsub", "delete_queued"}
      /\ c \in Call /\ Fits(g, c) /\ Types /\ WellFormed(c)
  BY <1>1, CallFits DEF scan_queue, delete_rsub, delete_queued, At
<1>3. /\ UNCHANGED <<ch, push, mailRows, settled, owing, faults, issued, ua, last, clock>>
      /\ rq' \subseteq rq /\ rsubs' \subseteq rsubs
      /\ QuietTypes
  <2>1. CASE scan_queue(i)
    BY <1>2, <2>1 DEF scan_queue, accountRows, receiptRows, counters, QuietTypes, Types,
       BigtableTypeOK
  <2>2. CASE delete_rsub(i)
    BY <1>2, <2>2 DEF delete_rsub, accountRows, counters, QuietTypes, Types, BigtableTypeOK
  <2>3. CASE delete_queued(i)
    BY <1>2, <2>3 DEF delete_queued, accountRows, counters, QuietTypes, Types, BigtableTypeOK
  <2> QED BY <2>1, <2>2, <2>3
<1>4. c.op = "delete_receipt_sub" /\ ~Removing(i)
  BY <1>1, <1>2 DEF WellFormed, Removing, RemovalSteps
<1>5. \E x : Moved(i, x) /\ QueueWork(x, c)
  <2>1. CASE Return(i)
    BY <2>1 DEF Return, Moved, QueueWork
  <2>2. ASSUME NEW Q \in SUBSET Receipt, NEW y, y = [c EXCEPT !.queue = Q],
               Goto(i, y, "delete_queued")
        PROVE  \E x : Moved(i, x) /\ QueueWork(x, c)
    <3>1. y \in Call /\ y.op = c.op /\ y.msg = c.msg /\ y.msgs = c.msgs
          /\ y.entries = c.entries /\ y.entry = c.entry /\ y.push = c.push
      BY <1>2, <2>2 DEF Call
    <3>2. PICK x \in Call : Moved(i, x) /\ x.step = "delete_queued" /\ SameCall(x, y)
      BY <2>2, <3>1, GotoMoves DEF Steps
    <3> QED BY <3>1, <3>2 DEF SameCall, SameSubscription, QueueWork
  <2>3. CASE scan_queue(i)
    <3>1. PICK Q : Q = {q \in rq : q.rsub = c.rsub}
      OBVIOUS
    <3>2. Q \in SUBSET Receipt
      BY <1>2, <3>1 DEF Types, BigtableTypeOK
    <3>3. Return(i) \/ Goto(i, [c EXCEPT !.queue = Q], "delete_queued")
      BY <1>1, <2>3, <3>1 DEF scan_queue
    <3> QED BY <2>1, <2>2, <3>2, <3>3
  <2>4. CASE delete_rsub(i)
    <3>1. Goto(i, c, "scan_queue")
      BY <1>1, <2>4 DEF delete_rsub
    <3>2. PICK x \in Call : Moved(i, x) /\ x.step = "scan_queue" /\ SameCall(x, c)
      BY <1>2, <3>1, GotoMoves DEF Steps
    <3> QED BY <3>2 DEF SameCall, SameSubscription, QueueWork
  <2>5. CASE delete_queued(i)
    <3>1. PICK d \in c.queue : Return(i) \/ Goto(i, [c EXCEPT !.queue = @ \ {d}], "delete_queued")
      BY <1>1, <2>5 DEF delete_queued
    <3>2. PICK Q : Q = c.queue \ {d}
      OBVIOUS
    <3>3. Q \in SUBSET Receipt /\ [c EXCEPT !.queue = @ \ {d}] = [c EXCEPT !.queue = Q]
      BY <1>2, <3>2 DEF Call
    <3> QED BY <2>1, <2>2, <3>1, <3>3
  <2> QED BY <2>3, <2>4, <2>5
<1>6. PICK x : Moved(i, x) /\ QueueWork(x, c)
  BY <1>5
<1>7. x # None => Fits(g, x)
  <2> SUFFICES ASSUME x # None PROVE Fits(g, x)
    OBVIOUS
  <2>1. WellFormed(x)
    BY <1>2, <1>4, <1>6 DEF QueueWork, WellFormed, SubscriptionSteps, MessageSteps, RemovalSteps, DeleteOps
  <2>2. OwnsPush(x) /\ Removes(x)
    BY <1>2, <1>4, <1>6 DEF QueueWork, Fits, WellFormed, OwnsPush, Removes, SubscriptionSteps, MessageSteps,
       RemovalSteps
  <2>3. HoldsMail(g, x)
    BY <1>2, <1>4, <1>6 DEF QueueWork, Fits, HoldsMail
  <2> QED BY <2>1, <2>2, <2>3 DEF Fits
<1>8. x \in Maybe(Call) /\ (x # None => x.step \notin RemovalSteps)
      /\ calls[i].op # "insert_message" /\ calls[i].step # "put_push"
  BY <1>1, <1>2, <1>4, <1>6 DEF QueueWork, Maybe, RemovalSteps
<1> QED BY <1>3, <1>4, <1>6, <1>7, <1>8, CallGoesOn

LEMMA read_entryKeeps ==
    ASSUME NEW g, StoreFits(g), NEW i \in Nodes, read_entry(i)
    PROVE  StoreFits(g)'
<1>1. PICK c : c = calls[i]
  OBVIOUS
<1>2. c # None /\ c.step = "read_entry" /\ c \in Call /\ Fits(g, c) /\ Types /\ WellFormed(c)
  BY <1>1, CallFits DEF read_entry, At
<1>3. /\ UNCHANGED <<ch, push, mailRows, settled, owing, faults, issued, rsubs, ua, rq, last, clock>>
      /\ QuietTypes
  BY <1>2 DEF read_entry, accountRows, receiptRows, counters, QuietTypes, Types, BigtableTypeOK
<1>4. c.op = "reap" /\ c.entry \in Entry /\ c.entry # None /\ c.push = None /\ ~Removing(i)
  BY <1>1, <1>2 DEF WellFormed, Call, Maybe, Removing, RemovalSteps, DeleteOps
<1>5. c.entry.row \in MessageKeys /\ RightRow(c.entry)
  BY <1>2, <1>4 DEF Entry, Fits, HoldsMail
<1>6. CASE msg[c.entry.row] # None /\ msg[c.entry.row].id = c.entry.id
  <2>1. PICK y : y = [c EXCEPT !.msg = msg[c.entry.row]]
    OBVIOUS
  <2>2. msg[c.entry.row] \in Message
    BY <1>2, <1>5, <1>6, RowTyped
  <2>3. y \in Call /\ y.op = c.op /\ y.msg = msg[c.entry.row] /\ y.push = c.push
        /\ y.msgs = c.msgs /\ y.entries = c.entries /\ y.entry = c.entry
    BY <1>2, <2>1, <2>2 DEF Call, Maybe
  <2>4. PICK x \in Call : Moved(i, x) /\ x.step = "delete_message_row" /\ SameCall(x, y)
    <3>1. Goto(i, y, "delete_message_row")
      BY <1>1, <1>6, <2>1 DEF read_entry
    <3> QED BY <3>1, <2>3, GotoMoves DEF Steps
  <2>5. x.op = "reap" /\ x.msg = msg[c.entry.row] /\ x.msgs = c.msgs
        /\ x.entries = c.entries /\ x.entry = c.entry /\ x.push = None
    BY <1>4, <2>3, <2>4 DEF SameCall, SameSubscription
  <2>6. Genuine(g, x.msg)
    BY <1>5, <1>6, <2>5 DEF StoreFits, RowsFit
  <2>7. Fits(g, x)
    <3>1. WellFormed(x)
      BY <1>4, <1>6, <2>4, <2>5 DEF WellFormed, MessageSteps, RemovalSteps, DeleteOps
    <3>2. OwnsPush(x) /\ Removes(x)
      BY <2>4, <2>5 DEF OwnsPush, Removes, RemovalSteps
    <3>3. HoldsMail(g, x)
      BY <1>2, <1>6, <2>4, <2>5, <2>6 DEF HoldsMail, Fits
    <3> QED BY <3>1, <3>2, <3>3 DEF Fits
  <2>8. x \in Maybe(Call) /\ x.step \notin RemovalSteps
    BY <2>4 DEF Maybe, RemovalSteps
  <2> QED BY <1>1, <1>2, <1>3, <1>4, <2>4, <2>7, <2>8, CallGoesOn
<1>7. CASE ~(msg[c.entry.row] # None /\ msg[c.entry.row].id = c.entry.id)
  <2>1. PICK x \in Call : Moved(i, x) /\ x.step = "delete_entry" /\ SameCall(x, c)
    <3>1. Goto(i, c, "delete_entry")
      BY <1>1, <1>7 DEF read_entry
    <3> QED BY <1>2, <3>1, GotoMoves DEF Steps
  <2>2. x.op = "reap" /\ x.msg = c.msg /\ x.msgs = c.msgs
        /\ x.entries = c.entries /\ x.entry = c.entry /\ x.push = None
    BY <1>4, <2>1 DEF SameCall, SameSubscription
  <2>3. Unstored(c.entry.id)
    BY <1>5, <1>7 DEF RightRow, Unstored
  <2>4. Fits(g, x)
    <3>1. WellFormed(x)
      BY <1>4, <2>1, <2>2 DEF WellFormed, MessageSteps, RemovalSteps, DeleteOps
    <3>2. OwnsPush(x) /\ Removes(x)
      BY <2>1, <2>2 DEF OwnsPush, Removes, RemovalSteps
    <3>3. HoldsMail(g, x)
      BY <1>2, <2>1, <2>2, <2>3 DEF HoldsMail, Fits, MessageSteps, RemovalSteps
    <3> QED BY <3>1, <3>2, <3>3 DEF Fits
  <2>5. x \in Maybe(Call) /\ x.step \notin RemovalSteps
    BY <2>1 DEF Maybe, RemovalSteps
  <2> QED BY <1>1, <1>2, <1>3, <1>4, <2>1, <2>4, <2>5, CallGoesOn
<1> QED BY <1>6, <1>7

(***************************************************************************)
(* Calls that begin.                                                       *)
(***************************************************************************)
LEMMA CallBegins ==
    ASSUME NEW g, StoreFits(g), NEW i \in Nodes, calls[i] = None,
           UNCHANGED <<accountRows, mailRows, receiptRows, clock, faults, issued, owing>>,
           NEW x \in Maybe(Call), Moved(i, x), x # None => Fits(g, x) /\ x.step \notin RemovalSteps
    PROVE  StoreFits(g)'
<1>1. UNCHANGED <<ch, push, mailRows, settled, owing, faults, issued, rsubs, ua, rq, last, clock>>
  BY DEF accountRows, receiptRows
<1>2. QuietTypes
  BY <1>1 DEF StoreFits, QuietTypes, Types, BigtableTypeOK
<1>3. ~Removing(i)
  BY DEF Removing
<1> QED BY <1>1, <1>2, <1>3, CallGoesOn

LEMMA delete_messageKeeps ==
    ASSUME NEW g, StoreFits(g), NEW i \in Nodes, NEW id \in MsgIds, NEW op \in {"ack", "withdraw"},
           delete_message(i, op, id)
    PROVE  StoreFits(g)'
<1>1. PICK y : y = NewCall(op, "read_message")
  OBVIOUS
<1>2. PICK row : row = mid[id]
  OBVIOUS
<1>3. row \in MessageKeys /\ row # None /\ id # None
  BY <1>2, BigtableAssumption DEF delete_message, StoreFits, Types, BigtableTypeOK, Maybe
<1>4. y \in Call /\ y.op = op /\ y.step = "read_message" /\ y.msgs = {} /\ y.msg = None
      /\ y.entries = {} /\ y.entry = None /\ y.push = None
  BY <1>1, NewCallFields DEF Steps
<1>5. PICK x : x = [y EXCEPT !.id = id, !.row = row]
  OBVIOUS
<1>6. x \in Call /\ x.op = op /\ x.step = "read_message" /\ x.msgs = {} /\ x.msg = None
      /\ x.entries = {} /\ x.entry = None /\ x.push = None /\ x.id = id /\ x.row = row
  BY <1>3, <1>4, <1>5 DEF Call, Maybe
<1>7. WellFormed(x)
  BY <1>3, <1>6 DEF WellFormed, MessageSteps, RemovalSteps, DeleteOps
<1>8. calls[i] = None /\ Moved(i, x)
  BY <1>1, <1>2, <1>5 DEF delete_message, Begin, Starts, Moved
<1>9. x \in Maybe(Call) /\ Fits(g, x) /\ x.step \notin RemovalSteps
  BY <1>6, <1>7, EmptyFits DEF Maybe, RemovalSteps
<1> QED BY <1>8, <1>9, CallBegins DEF delete_message

LEMMA delete_receipt_subKeeps ==
    ASSUME NEW g, StoreFits(g), NEW i \in Nodes, NEW r \in Rsubs, delete_receipt_sub(i, r)
    PROVE  StoreFits(g)'
<1>1. PICK y : y = NewCall("delete_receipt_sub", "delete_rsub")
  OBVIOUS
<1>2. y \in Call /\ y.op = "delete_receipt_sub" /\ y.step = "delete_rsub" /\ y.msgs = {}
      /\ y.msg = None /\ y.entries = {} /\ y.entry = None /\ y.push = None
  BY <1>1, NewCallFields DEF Steps
<1>3. PICK x : x = [y EXCEPT !.rsub = r]
  OBVIOUS
<1>4. x \in Call /\ x.op = "delete_receipt_sub" /\ x.step = "delete_rsub" /\ x.msgs = {}
      /\ x.msg = None /\ x.entries = {} /\ x.entry = None /\ x.push = None
  BY <1>2, <1>3 DEF Call, Maybe
<1>5. WellFormed(x)
  BY <1>4 DEF WellFormed, MessageSteps, RemovalSteps, DeleteOps
<1>6. calls[i] = None /\ Moved(i, x)
  BY <1>1, <1>3 DEF delete_receipt_sub, Begin, Starts, Moved
<1>7. x \in Maybe(Call) /\ Fits(g, x) /\ x.step \notin RemovalSteps
  BY <1>4, <1>5, EmptyFits DEF Maybe, RemovalSteps
<1> QED BY <1>6, <1>7, CallBegins DEF delete_receipt_sub

LEMMA reapKeeps ==
    ASSUME NEW g, StoreFits(g), NEW i \in Nodes, reap(i)
    PROVE  StoreFits(g)'
<1>1. PICK y : y = NewCall("reap", "read_entry")
  OBVIOUS
<1>2. PICK due : due = {e \in rexp : e.expiry <= clock}
  OBVIOUS
<1>3. due \subseteq Entry /\ due \subseteq rexp
  BY <1>2 DEF StoreFits, Types, BigtableTypeOK
<1>4. y \in Call /\ y.op = "reap" /\ y.msgs = {} /\ y.push = None
  BY <1>1, NewCallFields DEF Steps
<1>5. PICK c : c = [y EXCEPT !.entries = due]
  OBVIOUS
<1>6. c \in Call /\ c.op = "reap" /\ c.msgs = {} /\ c.push = None /\ c.entries = due
  BY <1>3, <1>4, <1>5 DEF Call
<1>7. NextEntry(i, c) /\ calls[i] = None
  BY <1>1, <1>2, <1>5 DEF reap, Starts
<1>8. PICK x : Moved(i, x) /\
               \/ x = None
               \/ /\ x \in Call /\ x.op = "reap" /\ x.step = "read_entry" /\ x.msg = None
                  /\ x.entry \in due /\ x.entries \subseteq due /\ x.msgs = {} /\ x.push = None
  BY <1>6, <1>7, NextEntryMoves
<1>9. x # None => Fits(g, x) /\ x.step \notin RemovalSteps
  <2> SUFFICES ASSUME x # None PROVE Fits(g, x) /\ x.step \notin RemovalSteps
    OBVIOUS
  <2>1. \A e \in due : RightRow(e) /\ e # None
    BY <1>3, NoneAssumption DEF StoreFits, EntriesFit
  <2>2. WellFormed(x)
    BY <1>8, <2>1 DEF WellFormed, MessageSteps, RemovalSteps, DeleteOps
  <2>3. OwnsPush(x) /\ Removes(x) /\ x.step \notin RemovalSteps
    BY <1>8 DEF OwnsPush, Removes, RemovalSteps
  <2>4. HoldsMail(g, x)
    BY <1>8, <2>1 DEF HoldsMail, MessageSteps, RemovalSteps
  <2> QED BY <2>2, <2>3, <2>4 DEF Fits
<1>10. x \in Maybe(Call)
  BY <1>8 DEF Maybe
<1> QED BY <1>7, <1>8, <1>9, <1>10, CallBegins DEF reap

LEMMA delete_subscriptionKeeps ==
    ASSUME NEW g, StoreFits(g), NEW i \in Nodes, NEW u \in Uaids, NEW k \in ChannelIds,
           delete_subscription(i, u, k)
    PROVE  StoreFits(g)'
<1>1. PICK y : y = NewCall("delete_subscription", "scan_messages")
  OBVIOUS
<1>2. PICK p : p = ch[<<u, k>>]
  OBVIOUS
<1>3. p \in PushIds /\ p # None /\ u # None /\ k # None /\ p \in issued
  BY <1>2, BigtableAssumption DEF delete_subscription, StoreFits, Types, BigtableTypeOK, Maybe,
     ChannelsFit
<1>4. y \in Call /\ y.op = "delete_subscription" /\ y.step = "scan_messages" /\ y.msgs = {}
      /\ y.msg = None /\ y.entries = {} /\ y.entry = None
  BY <1>1, NewCallFields DEF Steps
<1>5. PICK x : x = [y EXCEPT !.uaid = u, !.channel_id = k, !.push = p]
  OBVIOUS
<1>6. x \in Call /\ x.op = "delete_subscription" /\ x.step = "scan_messages" /\ x.msgs = {}
      /\ x.msg = None /\ x.entries = {} /\ x.entry = None
      /\ x.uaid = u /\ x.channel_id = k /\ x.push = p
  BY <1>3, <1>4, <1>5 DEF Call, Maybe
<1>7. WellFormed(x)
  BY <1>3, <1>6 DEF WellFormed, MessageSteps, RemovalSteps, DeleteOps
<1>8. OwnsPush(x)
  BY <1>2, <1>3, <1>6 DEF OwnsPush, StoreFits, ChannelsFit
<1>9. HoldsMail(g, x) /\ Removes(x) /\ x.step \notin RemovalSteps
  BY <1>6 DEF HoldsMail, Removes, RemovalSteps
<1>10. calls[i] = None /\ Moved(i, x)
  BY <1>1, <1>2, <1>5 DEF delete_subscription, Begin, Starts, Moved
<1>11. x \in Maybe(Call) /\ Fits(g, x)
  BY <1>6, <1>7, <1>8, <1>9 DEF Maybe, Fits
<1> QED BY <1>9, <1>10, <1>11, CallBegins DEF delete_subscription

LEMMA delete_user_agentKeeps ==
    ASSUME NEW g, StoreFits(g), NEW i \in Nodes, NEW u \in Uaids, delete_user_agent(i, u)
    PROVE  StoreFits(g)'
<1>1. PICK y : y = NewCall("delete_user_agent", "scan_channels")
  OBVIOUS
<1>2. PICK all : all = Channels(u)
  OBVIOUS
<1>3. y \in Call /\ y.op = "delete_user_agent" /\ y.msgs = {}
      /\ y.msg = None /\ y.entries = {} /\ y.entry = None /\ y.push = None
  BY <1>1, NewCallFields DEF Steps
<1>4. PICK c : c = [y EXCEPT !.uaid = u, !.chs = all]
  OBVIOUS
<1>5. all \subseteq ChannelIds /\ u # None
  BY <1>2, BigtableAssumption DEF Channels
<1>6. c \in Call /\ c.op = "delete_user_agent" /\ c.uaid = u /\ c.msgs = {}
      /\ c.msg = None /\ c.entries = {} /\ c.entry = None /\ c.push = None
  BY <1>3, <1>4, <1>5 DEF Call, Maybe
<1>7. NextChannel(i, c) /\ calls[i] = None
  BY <1>1, <1>2, <1>4 DEF delete_user_agent, Starts
<1>8. PICK x : Moved(i, x) /\ (x = None \/ BetweenChannels(x, c))
  BY <1>5, <1>6, <1>7, NextChannelMoves DEF DeleteOps
<1>9. x \in Maybe(Call) /\ (x # None => Fits(g, x) /\ x.step \notin RemovalSteps)
  BY <1>6, <1>8, BetweenFits DEF Maybe, BetweenChannels, RemovalSteps
<1> QED BY <1>7, <1>8, <1>9, CallBegins DEF delete_user_agent

LEMMA expire_user_agentsKeeps ==
    ASSUME NEW g, StoreFits(g), NEW i \in Nodes, expire_user_agents(i)
    PROVE  StoreFits(g)'
<1>1. PICK y : y = NewCall("expire_user_agents", "scan_channels")
  OBVIOUS
<1>2. PICK stale : stale = {u \in Uaids : ua[u] # None /\ ua[u] < clock - ExpireAfter}
  OBVIOUS
<1>3. y \in Call /\ y.op = "expire_user_agents" /\ y.msgs = {}
      /\ y.msg = None /\ y.entries = {} /\ y.entry = None /\ y.push = None
  BY <1>1, NewCallFields DEF Steps
<1>4. PICK c : c = [y EXCEPT !.agents = stale]
  OBVIOUS
<1>5. stale \subseteq Uaids
  BY <1>2
<1>6. c \in Call /\ c.op = "expire_user_agents" /\ c.msgs = {}
      /\ c.msg = None /\ c.entries = {} /\ c.entry = None /\ c.push = None
  BY <1>3, <1>4, <1>5 DEF Call
<1>7. NextAgent(i, c) /\ calls[i] = None
  BY <1>1, <1>2, <1>4 DEF expire_user_agents, Starts
<1>8. PICK x : Moved(i, x) /\ (x = None \/ BetweenChannels(x, c))
  BY <1>6, <1>7, NextAgentMoves DEF DeleteOps
<1>9. x \in Maybe(Call) /\ (x # None => Fits(g, x) /\ x.step \notin RemovalSteps)
  BY <1>6, <1>8, BetweenFits DEF Maybe, BetweenChannels, RemovalSteps
<1> QED BY <1>7, <1>8, <1>9, CallBegins DEF expire_user_agents

(***************************************************************************)
(* Deleting subscriptions and user agents.                                 *)
(***************************************************************************)
LEMMA channelKeeps ==
    ASSUME NEW g, StoreFits(g), NEW i \in Nodes, channel(i)
    PROVE  StoreFits(g)'
<1>1. PICK c : c = calls[i]
  OBVIOUS
<1>2. c # None /\ c.step = "read_channel" /\ c \in Call /\ Fits(g, c) /\ Types /\ WellFormed(c)
  BY <1>1, CallFits DEF channel, At
<1>3. /\ UNCHANGED <<ch, push, mailRows, settled, owing, faults, issued, rsubs, ua, rq, last, clock>>
      /\ QuietTypes
  BY <1>2 DEF channel, accountRows, receiptRows, counters, QuietTypes, Types, BigtableTypeOK
<1>4. c.op \in DeleteOps /\ c.uaid \in Uaids /\ c.channel_id \in ChannelIds /\ c.uaid # None
      /\ c.channel_id # None /\ ~Removing(i)
  BY <1>1, <1>2 DEF WellFormed, Call, Maybe, Removing, RemovalSteps
<1>5. PICK sub : sub = ch[<<c.uaid, c.channel_id>>]
  OBVIOUS
<1>6. sub \in Maybe(PushIds)
  BY <1>2, <1>4, <1>5 DEF Types, BigtableTypeOK
<1>7. calls[i].op # "insert_message" /\ calls[i].step # "put_push"
  BY <1>1, <1>2, <1>4 DEF DeleteOps
<1>8. CASE sub = None
  <2>1. NextChannel(i, c)
    BY <1>1, <1>5, <1>8 DEF channel
  <2>2. PICK x : Moved(i, x) /\ (x = None \/ BetweenChannels(x, c))
    BY <1>2, <1>4, <2>1, NextChannelMoves
  <2>3. x \in Maybe(Call) /\ (x # None => Fits(g, x) /\ x.step \notin RemovalSteps)
    BY <1>2, <2>2, BetweenFits DEF Maybe, BetweenChannels, RemovalSteps, Fits, OwnsPush, HoldsMail
  <2> QED BY <1>3, <1>4, <1>7, <2>2, <2>3, CallGoesOn
<1>9. CASE sub # None
  <2>1. PICK y : y = [c EXCEPT !.push = sub]
    OBVIOUS
  <2>2. y \in Call /\ y.op = c.op /\ y.uaid = c.uaid /\ y.channel_id = c.channel_id
        /\ y.push = sub /\ y.msg = c.msg /\ y.msgs = c.msgs
        /\ y.entries = c.entries /\ y.entry = c.entry
    BY <1>2, <1>6, <2>1 DEF Call
  <2>3. PICK x \in Call : Moved(i, x) /\ x.step = "scan_messages" /\ SameCall(x, y)
    <3>1. Goto(i, y, "scan_messages")
      BY <1>1, <1>5, <1>9, <2>1 DEF channel
    <3> QED BY <2>2, <3>1, GotoMoves DEF Steps
  <2>4. x.op = c.op /\ x.uaid = c.uaid /\ x.channel_id = c.channel_id
        /\ x.push = sub /\ x.msg = c.msg /\ x.msgs = c.msgs
        /\ x.entries = c.entries /\ x.entry = c.entry
    BY <2>2, <2>3 DEF SameCall, SameSubscription
  <2>5. Fits(g, x)
    <3>1. WellFormed(x)
      BY <1>4, <1>9, <2>3, <2>4 DEF WellFormed, MessageSteps, RemovalSteps, DeleteOps
    <3>2. OwnsPush(x)
      BY <1>4, <1>5, <1>9, <2>3, <2>4 DEF OwnsPush, StoreFits, ChannelsFit
    <3>3. HoldsMail(g, x) /\ Removes(x)
      BY <1>2, <2>3, <2>4 DEF Fits, HoldsMail, Removes, MessageSteps, RemovalSteps
    <3> QED BY <3>1, <3>2, <3>3 DEF Fits
  <2>6. x \in Maybe(Call) /\ x.step \notin RemovalSteps
    BY <2>3 DEF Maybe, RemovalSteps
  <2> QED BY <1>3, <1>4, <1>7, <2>3, <2>5, <2>6, CallGoesOn
<1> QED BY <1>8, <1>9

LEMMA scan_channelsKeeps ==
    ASSUME NEW g, StoreFits(g), NEW i \in Nodes, scan_channels(i)
    PROVE  StoreFits(g)'
<1>1. PICK c : c = calls[i]
  OBVIOUS
<1>2. c # None /\ c.step = "scan_channels" /\ c \in Call /\ Fits(g, c) /\ Types /\ WellFormed(c)
  BY <1>1, CallFits DEF scan_channels, At
<1>3. /\ UNCHANGED <<ch, push, mailRows, settled, owing, faults, issued, rsubs, ua, rq, last, clock>>
      /\ QuietTypes
  BY <1>2 DEF scan_channels, accountRows, receiptRows, counters, QuietTypes, Types, BigtableTypeOK
<1>4. c.op \in DeleteOps /\ c.uaid # None /\ ~Removing(i)
  BY <1>1, <1>2 DEF WellFormed, Removing, RemovalSteps
<1>5. PICK all : all = Channels(c.uaid)
  OBVIOUS
<1>6. PICK y : y = [c EXCEPT !.chs = all]
  OBVIOUS
<1>7. all \subseteq ChannelIds
  BY <1>5 DEF Channels
<1>8. y \in Call /\ y.op = c.op /\ y.uaid = c.uaid /\ y.push = c.push
      /\ y.msg = c.msg /\ y.msgs = c.msgs /\ y.entries = c.entries /\ y.entry = c.entry
  BY <1>2, <1>6, <1>7 DEF Call
<1>9. NextChannel(i, y)
  BY <1>1, <1>5, <1>6 DEF scan_channels
<1>10. PICK x : Moved(i, x) /\ (x = None \/ BetweenChannels(x, y))
  BY <1>4, <1>8, <1>9, NextChannelMoves
<1>11. x \in Maybe(Call) /\ (x # None => Fits(g, x) /\ x.step \notin RemovalSteps)
  BY <1>2, <1>8, <1>10, BetweenFits DEF Maybe, BetweenChannels, RemovalSteps, Fits, OwnsPush,
     HoldsMail
<1>12. calls[i].op # "insert_message" /\ calls[i].step # "put_push"
  BY <1>1, <1>2, <1>4 DEF DeleteOps
<1> QED BY <1>3, <1>4, <1>10, <1>11, <1>12, CallGoesOn

LEMMA delete_uaKeeps ==
    ASSUME NEW g, StoreFits(g), NEW i \in Nodes, delete_ua(i)
    PROVE  StoreFits(g)'
<1>1. PICK c : c = calls[i]
  OBVIOUS
<1>2. c # None /\ c.step = "delete_ua" /\ c \in Call /\ Fits(g, c) /\ Types /\ WellFormed(c)
  BY <1>1, CallFits DEF delete_ua, At
<1>3. UNCHANGED <<ch, push, mailRows, settled, owing, faults, issued, rsubs, rq, last, clock>>
  BY DEF delete_ua, receiptRows, counters
<1>4. QuietTypes
  BY <1>2, <1>3 DEF delete_ua, QuietTypes, Types, BigtableTypeOK, Maybe
<1>5. c.op \in DeleteOps /\ ~Removing(i)
  BY <1>1, <1>2 DEF WellFormed, Removing, RemovalSteps
<1>6. NextAgent(i, c)
  BY <1>1 DEF delete_ua
<1>7. PICK x : Moved(i, x) /\ (x = None \/ BetweenChannels(x, c))
  BY <1>2, <1>5, <1>6, NextAgentMoves
<1>8. x \in Maybe(Call) /\ (x # None => Fits(g, x) /\ x.step \notin RemovalSteps)
  BY <1>2, <1>7, BetweenFits DEF Maybe, BetweenChannels, RemovalSteps, Fits, OwnsPush, HoldsMail
<1>9. calls[i].op # "insert_message" /\ calls[i].step # "put_push"
  BY <1>1, <1>2, <1>5 DEF DeleteOps
<1> QED BY <1>3, <1>4, <1>5, <1>7, <1>8, <1>9, CallGoesOn

LEMMA scan_messagesKeeps ==
    ASSUME NEW g, StoreFits(g), NEW i \in Nodes, scan_messages(i)
    PROVE  StoreFits(g)'
<1>1. PICK c : c = calls[i]
  OBVIOUS
<1>2. c # None /\ c.step = "scan_messages" /\ c \in Call /\ Fits(g, c) /\ Types /\ WellFormed(c)
  BY <1>1, CallFits DEF scan_messages, At
<1>3. /\ UNCHANGED <<ch, push, mailRows, settled, owing, faults, issued, rsubs, ua, rq, last, clock>>
      /\ QuietTypes
  BY <1>2 DEF scan_messages, accountRows, receiptRows, counters, QuietTypes, Types, BigtableTypeOK
<1>4. c.op \in DeleteOps /\ c.uaid # None /\ c.channel_id # None /\ c.push # None /\ ~Removing(i)
  BY <1>1, <1>2 DEF WellFormed, SubscriptionSteps, Removing, RemovalSteps
<1>5. PICK found : found = {m \in {msg[k] : k \in {k \in MessageKeys : msg[k] # None}} :
                               m.uaid = c.uaid /\ m.channel_id = c.channel_id}
  OBVIOUS
<1>6. \A m \in found : m \in Message /\ m # None /\ Genuine(g, m)
  BY <1>2, <1>5, RowTyped DEF StoreFits, RowsFit
<1>7. PICK y : y = [c EXCEPT !.msgs = found]
  OBVIOUS
<1>8. y \in Call /\ y.op = c.op /\ y.uaid = c.uaid /\ y.channel_id = c.channel_id
      /\ y.push = c.push /\ y.msgs = found /\ y.entries = c.entries /\ y.entry = c.entry
  BY <1>2, <1>6, <1>7 DEF Call
<1>9. NextMessage(i, y)
  BY <1>1, <1>5, <1>7 DEF scan_messages
<1>10. PICK x \in Call : Moved(i, x) /\ AfterMessage(x, y)
  BY <1>4, <1>8, <1>9, NextMessageMoves
<1>11. /\ x.op = c.op /\ x.uaid = c.uaid /\ x.channel_id = c.channel_id /\ x.push = c.push
       /\ x.entries = c.entries /\ x.entry = c.entry /\ x.msgs \subseteq found
       /\ \/ x.step = "delete_channel" /\ x.msg = None
          \/ x.step = "delete_message_row" /\ x.msg \in found
  BY <1>4, <1>8, <1>10 DEF AfterMessage, SameSubscription, DeleteOps
<1>12. Fits(g, x)
  <2>1. WellFormed(x)
    BY <1>4, <1>6, <1>11 DEF WellFormed, MessageSteps, RemovalSteps, DeleteOps
  <2>2. OwnsPush(x)
    BY <1>2, <1>11 DEF Fits, OwnsPush, SubscriptionSteps, MessageSteps
  <2>3. HoldsMail(g, x)
    BY <1>2, <1>4, <1>6, <1>11 DEF Fits, HoldsMail, DeleteOps
  <2>4. Removes(x)
    BY <1>11 DEF Removes, RemovalSteps
  <2> QED BY <2>1, <2>2, <2>3, <2>4 DEF Fits
<1>13. x \in Maybe(Call) /\ x.step \notin RemovalSteps
  BY <1>11 DEF Maybe, RemovalSteps
<1>14. calls[i].op # "insert_message" /\ calls[i].step # "put_push"
  BY <1>1, <1>2, <1>4 DEF DeleteOps
<1> QED BY <1>3, <1>4, <1>10, <1>12, <1>13, <1>14, CallGoesOn

(***************************************************************************)
(* Steps that belong to no call.                                           *)
(***************************************************************************)
LEMMA AccountsKeep ==
    ASSUME NEW g, StoreFits(g),
           \/ \E u \in Uaids : create_user_agent(u) \/ touch_user_agent(u)
           \/ \E q \in rq : delete_receipt(q)
           \/ tick
    PROVE  StoreFits(g)'
<1>1. /\ UNCHANGED <<ch, push, mailRows, settled, owing, faults, rsubs, calls, last>>
      /\ issued \subseteq issued'
  BY DEF create_user_agent, touch_user_agent, delete_receipt, tick, accountRows, receiptRows, counters
<1>2. QuietTypes
  <2>1. Types
    BY DEF StoreFits
  <2>2. CASE \E u \in Uaids : create_user_agent(u) \/ touch_user_agent(u)
    BY <2>1, <2>2 DEF create_user_agent, touch_user_agent, receiptRows, counters, QuietTypes, Types,
       BigtableTypeOK, Maybe
  <2>3. CASE \E q \in rq : delete_receipt(q)
    BY <2>1, <2>3 DEF delete_receipt, accountRows, counters, QuietTypes, Types, BigtableTypeOK
  <2>4. CASE tick
    BY <2>1, <2>4 DEF tick, accountRows, receiptRows, QuietTypes, Types, BigtableTypeOK
  <2> QED BY <2>2, <2>3, <2>4
<1>3. Types' /\ Types
  BY <1>1, <1>2 DEF StoreFits, Types, BigtableTypeOK, QuietTypes, mailRows
<1>4. RowsFit(g)' /\ OwingFits(g)' /\ EntriesFit' /\ IdsIssued' /\ ChannelsFit'
  BY <1>1, MailStays, ChannelsStay DEF StoreFits, mailRows
<1>5. Drift
  BY <1>1 DEF Drift, mailRows
<1>6. CallsFit(g)'
  BY <1>1, <1>3, <1>5, IdleCallsStay DEF StoreFits, mailRows
<1>7. OneRemover' /\ OneReceipt'
  BY <1>1 DEF OneRemover, Removing, OneReceipt, StoreFits
<1>8. ReceiptsFollow' /\ IndexesLead' /\ ChannelsResolve'
  BY <1>1 DEF StoreFits, ReceiptsFollow, IndexesLead, ChannelsResolve, mailRows
<1> QED BY <1>3, <1>4, <1>6, <1>7, <1>8 DEF StoreFits

LEMMA create_receipt_subKeeps ==
    ASSUME NEW g, StoreFits(g), NEW r \in Rsubs, create_receipt_sub(r)
    PROVE  StoreFits(g)'
<1>1. /\ UNCHANGED <<ua, ch, push, msg, mid, rexp, rq, last, settled, owing, faults, clock, calls>>
      /\ issued' = issued \cup {r} /\ rsubs' = rsubs \cup {r} /\ r \notin issued
  BY DEF create_receipt_sub, accountRows, mailRows, counters
<1>2. Types' /\ Types
  BY <1>1 DEF StoreFits, Types, BigtableTypeOK
<1>3. Drift
  BY <1>1 DEF Drift
<1>4. RowsFit(g)' /\ OwingFits(g)' /\ EntriesFit'
  <2>1. RowsFit(g)'
    BY <1>1 DEF StoreFits, RowsFit, Genuine, Unsettled, message_key
  <2>2. OwingFits(g)' /\ EntriesFit'
    BY <1>1 DEF StoreFits, OwingFits, Genuine, Unstored, EntriesFit, RightRow
  <2> QED BY <2>1, <2>2
<1>5. IdsIssued' /\ ChannelsFit'
  BY <1>1 DEF StoreFits, IdsIssued, ChannelsFit
<1>6. CallsFit(g)'
  BY <1>1, <1>2, <1>3, IdleCallsStay DEF StoreFits
<1>7. OneRemover' /\ OneReceipt' /\ IndexesLead' /\ ChannelsResolve'
  BY <1>1 DEF OneRemover, Removing, OneReceipt, StoreFits, IndexesLead, ChannelsResolve
<1>8. ReceiptsFollow'
  <2>1. \A m \in owing : m.rsub # r
    BY <1>1, BigtableAssumption DEF StoreFits, OwingFits, Genuine
  <2> QED BY <1>1, <2>1 DEF StoreFits, ReceiptsFollow
<1> QED BY <1>2, <1>4, <1>5, <1>6, <1>7, <1>8 DEF StoreFits

LEMMA call_failsKeeps ==
    ASSUME NEW g, StoreFits(g), NEW i \in Nodes, call_fails(i)
    PROVE  StoreFits(g)'
<1>1. UNCHANGED <<ua, ch, push, msg, mid, rexp, rsubs, rq, last, settled, owing, clock, issued>>
  BY DEF call_fails, accountRows, mailRows, receiptRows
<1>2. Moved(i, None) /\ Types
  BY DEF call_fails, Return, Moved, StoreFits
<1>3. faults' \in Nat /\ faults' # 0
  BY <1>2 DEF call_fails, Types
<1>4. Types'
  <2>1. calls' \in [Nodes -> Maybe(Call)]
    BY <1>2, CallsTyped DEF Maybe
  <2> QED BY <1>1, <1>2, <1>3, <2>1 DEF Types, BigtableTypeOK
<1>5. Drift
  BY <1>1 DEF Drift
<1>6. CallsFit(g)'
  BY <1>1, <1>2, <1>5, CallsStay DEF StoreFits
<1>7. OneRemover' /\ OneReceipt'
  BY <1>1, <1>2, OneRemoverStays DEF StoreFits, OneReceipt
<1>8. ReceiptsFollow' /\ IndexesLead' /\ ChannelsResolve'
  BY <1>3 DEF ReceiptsFollow, IndexesLead, ChannelsResolve
<1>9. RowsFit(g)' /\ OwingFits(g)' /\ EntriesFit' /\ IdsIssued' /\ ChannelsFit'
  BY <1>1, <1>2, MailStays, ChannelsStay DEF StoreFits
<1> QED BY <1>4, <1>6, <1>7, <1>8, <1>9 DEF StoreFits

(***************************************************************************)
(* Channel and push rows.                                                  *)
(***************************************************************************)

\* What a step on channel or push rows leaves as it was.
LEMMA ChannelStep ==
    ASSUME NEW g, StoreFits(g), NEW i \in Nodes, NEW x \in Maybe(Call), Moved(i, x),
           UNCHANGED <<ua, mailRows, receiptRows, owing, faults, clock>>, issued \subseteq issued',
           Drift, x # None => Fits(g, x)' /\ x.step \notin RemovalSteps,
           calls[i] # None => calls[i].op # "insert_message" /\ calls[i].step \notin RemovalSteps,
           ch' \in [Uaids \X ChannelIds -> Maybe(PushIds)],
           push' \in [PushIds -> Maybe(Uaids \X ChannelIds)],
           ChannelsFit', ChannelsResolve'
    PROVE  StoreFits(g)'
<1>1. UNCHANGED <<ua, msg, mid, rexp, rsubs, rq, last, settled, owing, faults, clock>>
  BY DEF mailRows, receiptRows
<1>2. Types' /\ Types
  BY <1>1, CallsTyped DEF StoreFits, Types, BigtableTypeOK
<1>3. CallsFit(g)'
  BY <1>1, <1>2, CallsStay DEF StoreFits
<1>4. OneRemover' /\ OneReceipt'
  BY <1>1, <1>2, OneRemoverStays DEF StoreFits, OneReceipt
<1>5. ReceiptsFollow'
  <2>1. ~Removing(i)
    BY DEF Removing
  <2> QED BY <1>1, <1>2, <2>1, ReceiptsStay DEF StoreFits
<1>6. IndexesLead'
  BY <1>1, <1>2, IndexesStay DEF StoreFits
<1>7. RowsFit(g)' /\ OwingFits(g)' /\ EntriesFit' /\ IdsIssued'
  BY <1>1, <1>2, MailStays DEF StoreFits
<1> QED BY <1>2, <1>3, <1>4, <1>5, <1>6, <1>7 DEF StoreFits

LEMMA create_subscriptionKeeps ==
    ASSUME NEW g, StoreFits(g), NEW i \in Nodes, NEW u \in Uaids, NEW k \in ChannelIds,
           NEW p \in PushIds, create_subscription(i, u, k, p)
    PROVE  StoreFits(g)'
<1>1. PICK y : y = NewCall("create_subscription", "put_push")
  OBVIOUS
<1>2. y \in Call /\ y.op = "create_subscription" /\ y.step = "put_push" /\ y.msgs = {}
      /\ y.msg = None /\ y.entries = {} /\ y.entry = None
  BY <1>1, NewCallFields DEF Steps
<1>3. PICK x : x = [y EXCEPT !.uaid = u, !.channel_id = k, !.push = p]
  OBVIOUS
<1>4. x \in Call /\ x.op = "create_subscription" /\ x.step = "put_push" /\ x.msgs = {}
      /\ x.msg = None /\ x.entries = {} /\ x.entry = None
      /\ x.uaid = u /\ x.channel_id = k /\ x.push = p
  BY <1>2, <1>3 DEF Call, Maybe
<1>5. /\ calls[i] = None /\ Moved(i, x) /\ p \notin issued
      /\ ch' = [ch EXCEPT ![<<u, k>>] = p]
      /\ issued' = issued \cup {p, <<u, k>>}
      /\ UNCHANGED <<ua, push, mailRows, receiptRows, clock, faults, owing>>
  BY <1>1, <1>3 DEF create_subscription, Begin, Starts, Moved
<1>6. Types /\ u # None /\ k # None /\ p # None /\ x # None /\ <<u, k>> \in Uaids \X ChannelIds
  BY <1>4, BigtableAssumption, NoneAssumption DEF StoreFits
<1>7. /\ ch' \in [Uaids \X ChannelIds -> Maybe(PushIds)]
      /\ push' \in [PushIds -> Maybe(Uaids \X ChannelIds)]
      /\ \A l \in Uaids \X ChannelIds : ch'[l] = IF l = <<u, k>> THEN p ELSE ch[l]
  BY <1>5, <1>6 DEF Types, BigtableTypeOK, Maybe
<1>8. Drift
  BY <1>5, <1>7 DEF Drift, mailRows
<1>9. ChannelsFit'
  BY <1>5, <1>7 DEF StoreFits, ChannelsFit
<1>10. Fits(g, x)' /\ x.step \notin RemovalSteps
  <2>1. WellFormed(x)'
    BY <1>4, <1>6 DEF WellFormed, MessageSteps, RemovalSteps, DeleteOps
  <2>2. OwnsPush(x)'
    BY <1>4, <1>5, <1>7 DEF OwnsPush, StoreFits, ChannelsFit
  <2>3. HoldsMail(g, x)' /\ Removes(x)' /\ x.step \notin RemovalSteps
    BY <1>4 DEF HoldsMail, Removes, RemovalSteps
  <2> QED BY <2>1, <2>2, <2>3 DEF Fits
<1>11. ChannelsResolve'
  <2> SUFFICES ASSUME faults' = 0, NEW l \in Uaids \X ChannelIds, ch'[l] # None
               PROVE  \/ push'[ch'[l]] = l
                      \/ \E j \in Nodes : calls'[j] # None /\ calls'[j].step = "put_push"
                                            /\ calls'[j].push = ch'[l]
    BY DEF ChannelsResolve
  <2>1. \A j \in Nodes : calls'[j] = IF j = i THEN x ELSE calls[j]
    BY <1>5, <1>6, MovedCalls
  <2>2. CASE l = <<u, k>>
    BY <1>4, <1>6, <1>7, <2>1, <2>2
  <2>3. CASE l # <<u, k>>
    BY <1>5, <1>7, <2>1, <2>3 DEF StoreFits, ChannelsResolve
  <2> QED BY <2>2, <2>3
<1>12. x \in Maybe(Call) /\ issued \subseteq issued'
  BY <1>4, <1>5 DEF Maybe
<1> QED BY <1>5, <1>7, <1>8, <1>9, <1>10, <1>11, <1>12, ChannelStep

LEMMA put_pushKeeps ==
    ASSUME NEW g, StoreFits(g), NEW i \in Nodes, put_push(i)
    PROVE  StoreFits(g)'
<1>1. PICK c : c = calls[i]
  OBVIOUS
<1>2. c # None /\ c.step = "put_push" /\ c \in Call /\ Fits(g, c) /\ Types /\ WellFormed(c)
  BY <1>1, CallFits DEF put_push, At
<1>3. /\ c.op = "create_subscription" /\ c.uaid \in Uaids /\ c.channel_id \in ChannelIds
      /\ c.push \in PushIds /\ c.step \notin RemovalSteps
  BY <1>2 DEF WellFormed, Call, Maybe, RemovalSteps
<1>4. /\ Moved(i, None) /\ push' = [push EXCEPT ![c.push] = <<c.uaid, c.channel_id>>]
      /\ UNCHANGED <<ua, ch, mailRows, receiptRows, clock, faults, owing, issued>>
  BY <1>1 DEF put_push, Return, Moved, counters
<1>5. /\ ch' \in [Uaids \X ChannelIds -> Maybe(PushIds)]
      /\ push' \in [PushIds -> Maybe(Uaids \X ChannelIds)]
      /\ \A p \in PushIds : push'[p] = IF p = c.push THEN <<c.uaid, c.channel_id>> ELSE push[p]
  BY <1>2, <1>3, <1>4 DEF Types, BigtableTypeOK, Maybe
<1>6. Drift /\ ChannelsFit'
  BY <1>4 DEF Drift, mailRows, StoreFits, ChannelsFit
<1>7. ChannelsResolve'
  <2> SUFFICES ASSUME faults = 0, NEW l \in Uaids \X ChannelIds, ch[l] # None
               PROVE  \/ push'[ch[l]] = l
                      \/ \E j \in Nodes : calls'[j] # None /\ calls'[j].step = "put_push"
                                            /\ calls'[j].push = ch[l]
    BY <1>4 DEF ChannelsResolve
  <2>1. ch[l] \in PushIds
    BY <1>2 DEF Types, BigtableTypeOK, Maybe
  <2>2. CASE ch[l] = c.push
    <3>1. l = <<c.uaid, c.channel_id>>
      BY <1>2, <2>2 DEF Fits, OwnsPush
    <3> QED BY <1>5, <2>1, <2>2, <3>1
  <2>3. CASE ch[l] # c.push
    <3>1. \A j \in Nodes : calls'[j] = IF j = i THEN None ELSE calls[j]
      BY <1>2, <1>4, MovedCalls
    <3> QED BY <1>1, <1>5, <2>1, <2>3, <3>1 DEF StoreFits, ChannelsResolve
  <2> QED BY <2>2, <2>3
<1> QED BY <1>1, <1>3, <1>4, <1>5, <1>6, <1>7, ChannelStep DEF Maybe

LEMMA delete_channelKeeps ==
    ASSUME NEW g, StoreFits(g), NEW i \in Nodes, delete_channel(i)
    PROVE  StoreFits(g)'
<1>1. PICK c : c = calls[i]
  OBVIOUS
<1>2. c # None /\ c.step = "delete_channel" /\ c \in Call /\ Fits(g, c) /\ Types /\ WellFormed(c)
  BY <1>1, CallFits DEF delete_channel, At
<1>3. /\ c.op \in DeleteOps /\ c.uaid \in Uaids /\ c.channel_id \in ChannelIds
      /\ c.step \notin RemovalSteps
  BY <1>2 DEF WellFormed, Call, Maybe, RemovalSteps, SubscriptionSteps
<1>4. /\ ch' = [ch EXCEPT ![<<c.uaid, c.channel_id>>] = None]
      /\ UNCHANGED <<ua, push, mailRows, receiptRows, clock, faults, owing, issued>>
  BY <1>1 DEF delete_channel, counters
<1>5. PICK x \in Call : Moved(i, x) /\ x.step = "delete_push" /\ SameCall(x, c)
  <2>1. Goto(i, c, "delete_push")
    BY <1>1 DEF delete_channel
  <2> QED BY <1>2, <2>1, GotoMoves DEF Steps
<1>6. /\ ch' \in [Uaids \X ChannelIds -> Maybe(PushIds)]
      /\ push' \in [PushIds -> Maybe(Uaids \X ChannelIds)]
      /\ \A l \in Uaids \X ChannelIds :
             ch'[l] = IF l = <<c.uaid, c.channel_id>> THEN None ELSE ch[l]
  BY <1>2, <1>3, <1>4 DEF Types, BigtableTypeOK, Maybe
<1>7. Drift
  BY <1>4, <1>6 DEF Drift, mailRows
<1>8. ChannelsFit'
  BY <1>4, <1>6 DEF StoreFits, ChannelsFit
<1>9. x.op = c.op /\ x.msg = c.msg /\ x.msgs = c.msgs /\ x.entries = c.entries
      /\ x.entry = c.entry /\ x.push = c.push /\ x.uaid = c.uaid /\ x.channel_id = c.channel_id
  BY <1>5 DEF SameCall, SameSubscription
<1>10. Fits(g, x)' /\ x.step \notin RemovalSteps
  <2>1. WellFormed(x)'
    BY <1>2, <1>3, <1>5, <1>9 DEF WellFormed, SubscriptionSteps, MessageSteps, RemovalSteps, DeleteOps
  <2>2. OwnsPush(x)'
    BY <1>2, <1>4, <1>5, <1>6, <1>9 DEF Fits, OwnsPush, SubscriptionSteps
  <2>3. HoldsMail(g, x)'
    BY <1>2, <1>4, <1>5, <1>9 DEF Fits, HoldsMail, Genuine, RightRow, mailRows, MessageSteps,
       RemovalSteps
  <2>4. Removes(x)' /\ x.step \notin RemovalSteps
    BY <1>5 DEF Removes, RemovalSteps
  <2> QED BY <2>1, <2>2, <2>3, <2>4 DEF Fits
<1>11. ChannelsResolve'
  <2>1. calls[i] # None => calls[i].step # "put_push"
    BY <1>1, <1>2
  <2> QED BY <1>2, <1>4, <1>5, <1>6, <2>1, ResolveStays DEF StoreFits
<1>12. x \in Maybe(Call) /\ calls[i].op # "insert_message" /\ calls[i].step \notin RemovalSteps
  BY <1>1, <1>3, <1>5 DEF Maybe, DeleteOps
<1> QED BY <1>4, <1>5, <1>6, <1>7, <1>8, <1>10, <1>11, <1>12, ChannelStep

LEMMA delete_pushKeeps ==
    ASSUME NEW g, StoreFits(g), NEW i \in Nodes, delete_push(i)
    PROVE  StoreFits(g)'
<1>1. PICK c : c = calls[i]
  OBVIOUS
<1>2. c # None /\ c.step = "delete_push" /\ c \in Call /\ Fits(g, c) /\ Types /\ WellFormed(c)
  BY <1>1, CallFits DEF delete_push, At
<1>3. c.op \in DeleteOps /\ c.uaid # None /\ c.push \in PushIds /\ c.step \notin RemovalSteps
  BY <1>2 DEF WellFormed, Call, Maybe, RemovalSteps, SubscriptionSteps
<1>4. /\ push' = [push EXCEPT ![c.push] = None]
      /\ UNCHANGED <<ua, ch, mailRows, receiptRows, clock, faults, owing, issued>>
  BY <1>1 DEF delete_push, counters
<1>5. PICK x : Moved(i, x) /\ (x = None \/ BetweenChannels(x, c))
  <2>1. NextChannel(i, c)
    BY <1>1 DEF delete_push
  <2> QED BY <1>2, <1>3, <2>1, NextChannelMoves
<1>6. /\ ch' \in [Uaids \X ChannelIds -> Maybe(PushIds)]
      /\ push' \in [PushIds -> Maybe(Uaids \X ChannelIds)]
      /\ \A p \in PushIds : p # c.push => push'[p] = push[p]
  BY <1>2, <1>3, <1>4 DEF Types, BigtableTypeOK, Maybe
<1>7. Drift /\ ChannelsFit'
  BY <1>4 DEF Drift, mailRows, StoreFits, ChannelsFit
<1>8. x # None => Fits(g, x)' /\ x.step \notin RemovalSteps
  <2> SUFFICES ASSUME x # None PROVE Fits(g, x)' /\ x.step \notin RemovalSteps
    OBVIOUS
  <2>1. Fits(g, x) /\ x \in Call /\ x.step \notin RemovalSteps
    BY <1>2, <1>5, BetweenFits DEF BetweenChannels, RemovalSteps, Fits, OwnsPush, HoldsMail
  <2> QED BY <1>2, <1>4, <1>7, <2>1, FitStays DEF mailRows, receiptRows
<1>9. ChannelsResolve'
  <2> SUFFICES ASSUME faults = 0, NEW l \in Uaids \X ChannelIds, ch[l] # None
               PROVE  \/ push'[ch[l]] = l
                      \/ \E j \in Nodes : calls'[j] # None /\ calls'[j].step = "put_push"
                                            /\ calls'[j].push = ch[l]
    BY <1>4 DEF ChannelsResolve
  <2>1. ch[l] \in PushIds /\ ch[l] # c.push
    BY <1>2 DEF Types, BigtableTypeOK, Maybe, Fits, OwnsPush
  <2>2. \A j \in Nodes : calls'[j] = IF j = i THEN x ELSE calls[j]
    BY <1>2, <1>5, MovedCalls
  <2> QED BY <1>1, <1>2, <1>6, <2>1, <2>2 DEF StoreFits, ChannelsResolve
<1>10. x \in Maybe(Call) /\ calls[i].op # "insert_message" /\ calls[i].step \notin RemovalSteps
  BY <1>1, <1>3, <1>5 DEF Maybe, DeleteOps, BetweenChannels
<1> QED BY <1>4, <1>5, <1>6, <1>7, <1>8, <1>9, <1>10, ChannelStep

(***************************************************************************)
(* Message rows and their indexes.                                         *)
(***************************************************************************)

\* A message is in its own row only.
LEMMA OwnRow ==
    ASSUME NEW g, StoreFits(g), NEW m \in Message, Genuine(g, m),
           NEW k \in MessageKeys, msg[k] # None, msg[k].id = m.id
    PROVE  msg[k] = m /\ k = message_key(m)
BY DEF StoreFits, RowsFit, Genuine

LEMMA insert_messageKeeps ==
    ASSUME NEW g, StoreFits(g), NEW i \in Nodes, NEW m \in Message, insert_message(i, m)
    PROVE  \E h : StoreFits(h)'
<1>1. PICK y : y = NewCall("insert_message", "put_mid")
  OBVIOUS
<1>2. y \in Call /\ y.op = "insert_message" /\ y.step = "put_mid" /\ y.msgs = {}
      /\ y.entries = {} /\ y.entry = None /\ y.push = None
  BY <1>1, NewCallFields DEF Steps
<1>3. PICK x : x = [y EXCEPT !.msg = m]
  OBVIOUS
<1>4. x \in Call /\ x.op = "insert_message" /\ x.step = "put_mid" /\ x.msgs = {}
      /\ x.entries = {} /\ x.entry = None /\ x.push = None /\ x.msg = m
  BY <1>2, <1>3 DEF Call, Maybe
<1>5. /\ calls[i] = None /\ Moved(i, x) /\ m.id \notin issued
      /\ m.rsub \in Maybe(rsubs)
      /\ msg' = [msg EXCEPT ![message_key(m)] = m]
      /\ issued' = issued \cup {m.id}
  BY <1>1, <1>3 DEF insert_message, Begin, Starts, Moved
<1>6. UNCHANGED <<ua, ch, push, mid, rexp, rsubs, rq, last, settled, clock, faults, owing>>
  BY DEF insert_message, accountRows, receiptRows
<1>7. Types /\ m # None /\ x # None /\ x \in Maybe(Call) /\ m.id \in MsgIds
  BY <1>4, NoneAssumption DEF StoreFits, Maybe, Message
<1>8. message_key(m) \in MessageKeys
  BY KeyTyped
<1>9. /\ msg' \in [MessageKeys -> Maybe(Message)]
      /\ \A k \in MessageKeys : msg'[k] = IF k = message_key(m) THEN m ELSE msg[k]
  BY <1>5, <1>7, <1>8 DEF Types, BigtableTypeOK, Maybe
<1>10. Types'
  BY <1>5, <1>6, <1>7, <1>9, CallsTyped DEF Types, BigtableTypeOK
<1>11. Drift
  BY <1>5, <1>6, <1>9 DEF Drift
<1>12. PICK h : h = [id \in MsgIds |-> IF id = m.id THEN m ELSE g[id]]
  OBVIOUS
<1>13. /\ \A id \in MsgIds \cap issued : h[id] = g[id]
       /\ h[m.id] = m
  BY <1>5, <1>7, <1>12
<1>14. Genuine(h, m)'
  BY <1>5, <1>13 DEF Genuine, StoreFits, IdsIssued, Maybe
<1>15. RowsFit(h)'
  <2> SUFFICES ASSUME NEW k \in MessageKeys, msg'[k] # None
               PROVE  /\ Genuine(h, msg[k])' /\ message_key(msg'[k]) = k
                      /\ \A q \in settled' : q.msg_id # msg'[k].id
    BY DEF RowsFit, Unsettled
  <2>1. CASE k = message_key(m)
    <3>1. msg'[k] = m
      BY <1>9, <2>1
    <3>2. \A q \in settled' : q.msg_id # m.id
      BY <1>5, <1>6 DEF StoreFits, IdsIssued
    <3> QED BY <1>14, <2>1, <3>1, <3>2 DEF Genuine
  <2>2. CASE k # message_key(m)
    <3>1. PICK n : n = msg[k]
      OBVIOUS
    <3>2. msg'[k] = n /\ n # None
      BY <1>9, <2>2, <3>1
    <3>3. n \in Message /\ Genuine(g, n) /\ message_key(n) = k /\ Unsettled(n.id)
      BY <1>7, <3>1, <3>2, RowTyped DEF StoreFits, RowsFit
    <3>4. Genuine(h, n)'
      BY <1>11, <1>13, <3>3, GenuineStays DEF Drift
    <3> QED BY <1>6, <3>2, <3>3, <3>4 DEF Genuine, Unsettled
  <2> QED BY <2>1, <2>2
<1>16. OwingFits(h)'
  <2> SUFFICES ASSUME NEW n \in owing PROVE Genuine(h, n)' /\ Unstored(n.id)'
    BY <1>6 DEF OwingFits
  <2>1. n \in Message /\ Genuine(g, n) /\ Unstored(n.id) /\ n.id \in issued
    BY DEF StoreFits, OwingFits, Types, BigtableTypeOK, Genuine
  <2> QED BY <1>11, <1>13, <2>1, GenuineStays, UnstoredStays DEF Drift
<1>17. EntriesFit'
  BY <1>6, <1>11, RightRowStays DEF StoreFits, EntriesFit
<1>18. IdsIssued' /\ ChannelsFit' /\ OneReceipt'
  BY <1>5, <1>6 DEF StoreFits, IdsIssued, ChannelsFit, OneReceipt
<1>19. Fits(h, x)'
  <2>1. WellFormed(x)'
    BY <1>4, <1>7 DEF WellFormed, MessageSteps, RemovalSteps, DeleteOps
  <2>2. OwnsPush(x)' /\ Removes(x)'
    BY <1>4 DEF OwnsPush, Removes, RemovalSteps, SubscriptionSteps, MessageSteps
  <2>3. HoldsMail(h, x)'
    BY <1>4, <1>14 DEF HoldsMail, Genuine
  <2> QED BY <2>1, <2>2, <2>3 DEF Fits
<1>20. CallsFit(h)'
  BY <1>5, <1>6, <1>7, <1>11, <1>13, <1>19, CallsStay DEF StoreFits
<1>21. ~Removing(i) /\ x.step \notin RemovalSteps
  BY <1>4, <1>5 DEF Removing, RemovalSteps
<1>22. OneRemover'
  BY <1>5, <1>7, <1>21, OneRemoverStays DEF StoreFits
<1>23. ReceiptsFollow'
  BY <1>5, <1>6, <1>7, <1>21, ReceiptsStay DEF StoreFits
<1>24. ChannelsResolve'
  BY <1>5, <1>6, <1>7, ResolveStays DEF StoreFits
<1>25. IndexesLead'
  <2> SUFFICES ASSUME faults = 0, NEW k \in MessageKeys, msg'[k] # None
               PROVE  \/ /\ mid[msg'[k].id] = k
                         /\ msg'[k].rsub # None =>
                                \E e \in rexp : e.id = msg'[k].id /\ e.row = k
                      \/ \E j \in Nodes : calls'[j] # None /\ calls'[j].op = "insert_message"
                                            /\ calls'[j].msg = msg'[k]
    BY <1>6 DEF IndexesLead
  <2>1. \A j \in Nodes : calls'[j] = IF j = i THEN x ELSE calls[j]
    BY <1>5, <1>7, MovedCalls
  <2>2. CASE k = message_key(m)
    BY <1>4, <1>7, <1>9, <2>1, <2>2
  <2>3. CASE k # message_key(m)
    BY <1>5, <1>9, <2>1, <2>3 DEF StoreFits, IndexesLead
  <2> QED BY <2>2, <2>3
<1> QED BY <1>10, <1>15, <1>16, <1>17, <1>18, <1>20, <1>22, <1>23, <1>24, <1>25 DEF StoreFits

LEMMA put_midKeeps ==
    ASSUME NEW g, StoreFits(g), NEW i \in Nodes, put_mid(i)
    PROVE  StoreFits(g)'
<1>1. PICK c : c = calls[i]
  OBVIOUS
<1>2. c # None /\ c.step = "put_mid" /\ c \in Call /\ Fits(g, c) /\ Types /\ WellFormed(c)
  BY <1>1, CallFits DEF put_mid, At
<1>3. PICK m : m = c.msg
  OBVIOUS
<1>4. m \in Message /\ m # None /\ c.op = "insert_message" /\ Genuine(g, m) /\ ~Removing(i)
      /\ c.step # "put_push"
  BY <1>1, <1>2, <1>3 DEF WellFormed, Call, Maybe, Fits, HoldsMail, Removing, RemovalSteps
<1>5. message_key(m) \in MessageKeys /\ m.id \in MsgIds
  BY <1>4, KeyTyped DEF Message
<1>6. /\ mid' = [mid EXCEPT ![m.id] = message_key(m)]
      /\ UNCHANGED <<ua, ch, push, msg, rexp, rsubs, rq, last, settled, clock, faults, owing, issued>>
      /\ IF m.rsub = None THEN Return(i) ELSE Goto(i, c, "put_rexp")
  BY <1>1, <1>3 DEF put_mid, accountRows, receiptRows, counters
<1>7. /\ mid' \in [MsgIds -> Maybe(MessageKeys)]
      /\ \A id \in MsgIds : mid'[id] = IF id = m.id THEN message_key(m) ELSE mid[id]
  BY <1>2, <1>5, <1>6 DEF Types, BigtableTypeOK, Maybe
<1>8. PICK x \in Maybe(Call) :
         /\ Moved(i, x)
         /\ m.rsub # None => x # None
         /\ x # None => x.step = "put_rexp" /\ SameCall(x, c)
  <2>1. CASE m.rsub = None
    BY <1>6, <2>1 DEF Return, Moved, Maybe
  <2>2. CASE m.rsub # None
    <3>1. PICK x \in Call : Moved(i, x) /\ x.step = "put_rexp" /\ SameCall(x, c)
      BY <1>2, <1>6, <2>2, GotoMoves DEF Steps
    <3> QED BY <3>1, NoneAssumption DEF Maybe
  <2> QED BY <2>1, <2>2
<1>9. x # None => /\ x.op = c.op /\ x.msg = m /\ x.msgs = c.msgs /\ x.entries = c.entries
                  /\ x.entry = c.entry /\ x.push = c.push /\ x.uaid = c.uaid
                  /\ x.channel_id = c.channel_id
  BY <1>3, <1>8 DEF SameCall, SameSubscription
<1>10. Types'
  BY <1>2, <1>6, <1>7, <1>8, CallsTyped DEF Types, BigtableTypeOK
<1>11. Drift
  BY <1>6 DEF Drift
<1>12. x # None => Fits(g, x)'
  <2> SUFFICES ASSUME x # None PROVE Fits(g, x)'
    OBVIOUS
  <2>1. WellFormed(x)'
    BY <1>2, <1>4, <1>8, <1>9 DEF WellFormed, SubscriptionSteps, MessageSteps, RemovalSteps, DeleteOps
  <2>2. OwnsPush(x)' /\ Removes(x)'
    BY <1>2, <1>6, <1>8, <1>9 DEF Fits, OwnsPush, Removes, RemovalSteps, SubscriptionSteps, MessageSteps
  <2>3. mid'[x.msg.id] = message_key(x.msg)
    BY <1>5, <1>7, <1>9
  <2>4. HoldsMail(g, x)'
    BY <1>2, <1>3, <1>4, <1>6, <1>8, <1>9, <2>3 DEF Fits, HoldsMail, Genuine, RightRow
  <2> QED BY <2>1, <2>2, <2>4 DEF Fits
<1>13. CallsFit(g)'
  <2>1. ASSUME NEW j \in Nodes, calls[j] # None, calls[j].step = "put_rexp"
        PROVE  \/ mid'[calls[j].msg.id] = mid[calls[j].msg.id]
               \/ mid'[calls[j].msg.id] = message_key(calls[j].msg)
    <3>1. PICK n : n = calls[j].msg
      OBVIOUS
    <3>2. n \in Message /\ Genuine(g, n)
      BY <2>1, <3>1, CallFits DEF WellFormed, Call, Maybe, Fits, HoldsMail
    <3>3. n.id = m.id => n = m
      BY <1>4, <3>2 DEF Genuine
    <3>4. n.id \in MsgIds
      BY <3>2 DEF Message
    <3> QED BY <1>7, <3>1, <3>3, <3>4
  <2> QED BY <1>2, <1>6, <1>8, <1>11, <1>12, <2>1, CallsStay DEF StoreFits
<1>14. x # None => x.step \notin RemovalSteps
  BY <1>8 DEF RemovalSteps
<1>15. OneRemover'
  BY <1>2, <1>8, <1>14, OneRemoverStays DEF StoreFits
<1>16. ReceiptsFollow' /\ ChannelsResolve'
  BY <1>1, <1>2, <1>4, <1>6, <1>8, ReceiptsStay, ResolveStays DEF StoreFits
<1>17. IndexesLead'
  <2> SUFFICES ASSUME faults = 0, NEW k \in MessageKeys, msg[k] # None
               PROVE  \/ /\ mid'[msg[k].id] = k
                         /\ msg[k].rsub # None =>
                                \E e \in rexp : e.id = msg[k].id /\ e.row = k
                      \/ \E j \in Nodes : calls'[j] # None /\ calls'[j].op = "insert_message"
                                            /\ calls'[j].msg = msg[k]
    BY <1>6 DEF IndexesLead
  <2>1. \A j \in Nodes : calls'[j] = IF j = i THEN x ELSE calls[j]
    BY <1>2, <1>8, MovedCalls
  <2>2. msg[k].id \in MsgIds
    BY <1>2, RowTyped DEF Message
  <2>3. CASE msg[k].id = m.id
    <3>1. msg[k] = m /\ k = message_key(m)
      BY <1>4, <2>3, OwnRow
    <3>2. CASE m.rsub = None
      BY <1>7, <2>2, <3>1, <3>2
    <3>3. CASE m.rsub # None
      BY <1>4, <1>8, <1>9, <2>1, <3>1, <3>3
    <3> QED BY <3>2, <3>3
  <2>4. CASE msg[k].id # m.id
    <3>1. mid'[msg[k].id] = mid[msg[k].id] /\ calls[i].msg # msg[k]
      BY <1>1, <1>3, <1>7, <2>2, <2>4
    <3> QED BY <2>1, <3>1 DEF StoreFits, IndexesLead
  <2> QED BY <2>3, <2>4
<1>18. RowsFit(g)' /\ OwingFits(g)' /\ EntriesFit' /\ IdsIssued' /\ ChannelsFit' /\ OneReceipt'
  BY <1>2, <1>6, MailStays, ChannelsStay DEF StoreFits, OneReceipt
<1> QED BY <1>10, <1>13, <1>15, <1>16, <1>17, <1>18 DEF StoreFits

LEMMA put_rexpKeeps ==
    ASSUME NEW g, StoreFits(g), NEW i \in Nodes, put_rexp(i)
    PROVE  StoreFits(g)'
<1>1. PICK c : c = calls[i]
  OBVIOUS
<1>2. c # None /\ c.step = "put_rexp" /\ c \in Call /\ Fits(g, c) /\ Types /\ WellFormed(c)
  BY <1>1, CallFits DEF put_rexp, At
<1>3. PICK m : m = c.msg
  OBVIOUS
<1>4. m \in Message /\ m # None /\ c.op = "insert_message" /\ Genuine(g, m) /\ ~Removing(i)
      /\ c.step # "put_push"
  BY <1>1, <1>2, <1>3 DEF WellFormed, Call, Maybe, Fits, HoldsMail, Removing, RemovalSteps
<1>5. message_key(m) \in MessageKeys /\ m.id \in MsgIds /\ m.expiry \in Nat
  BY <1>4, KeyTyped DEF Message
<1>6. PICK e : e = [id |-> m.id, expiry |-> m.expiry, row |-> message_key(m)]
  OBVIOUS
<1>7. e \in Entry /\ e.id = m.id /\ e.row = message_key(m)
  BY <1>5, <1>6 DEF Entry
<1>8. /\ rexp' = rexp \cup {e} /\ Moved(i, None)
      /\ UNCHANGED <<ua, ch, push, msg, mid, rsubs, rq, last, settled, clock, faults, owing, issued>>
  BY <1>1, <1>3, <1>6 DEF put_rexp, Return, Moved, accountRows, receiptRows, counters
<1>9. Types'
  <2>1. calls' \in [Nodes -> Maybe(Call)]
    BY <1>2, <1>8, CallsTyped DEF Maybe
  <2> QED BY <1>2, <1>7, <1>8, <2>1 DEF Types, BigtableTypeOK
<1>10. Drift
  BY <1>8 DEF Drift
<1>11. CallsFit(g)'
  BY <1>2, <1>8, <1>10, CallsStay DEF StoreFits
<1>12. OneRemover' /\ ReceiptsFollow' /\ ChannelsResolve'
  BY <1>1, <1>2, <1>4, <1>8, OneRemoverStays, ReceiptsStay, ResolveStays DEF StoreFits
<1>13. RightRow(e)
  BY <1>4, <1>7, OwnRow DEF RightRow, Genuine
<1>14. EntriesFit'
  BY <1>8, <1>13 DEF StoreFits, EntriesFit, RightRow
<1>15. RowsFit(g)' /\ OwingFits(g)' /\ IdsIssued' /\ ChannelsFit' /\ OneReceipt'
  <2>1. RowsFit(g)'
    BY <1>8 DEF StoreFits, RowsFit, Genuine, Unsettled, message_key
  <2>2. OwingFits(g)' /\ IdsIssued'
    BY <1>8 DEF StoreFits, OwingFits, Genuine, Unstored, IdsIssued
  <2> QED BY <1>8, <2>1, <2>2, ChannelsStay DEF StoreFits, OneReceipt
<1>16. IndexesLead'
  <2> SUFFICES ASSUME faults = 0, NEW k \in MessageKeys, msg[k] # None
               PROVE  \/ /\ mid[msg[k].id] = k
                         /\ msg[k].rsub # None =>
                                \E f \in rexp' : f.id = msg[k].id /\ f.row = k
                      \/ \E j \in Nodes : calls'[j] # None /\ calls'[j].op = "insert_message"
                                            /\ calls'[j].msg = msg[k]
    BY <1>8 DEF IndexesLead
  <2>1. \A j \in Nodes : calls'[j] = IF j = i THEN None ELSE calls[j]
    BY <1>2, <1>8, MovedCalls
  <2>2. CASE msg[k] = m
    <3>1. k = message_key(m)
      BY <1>4, <2>2, OwnRow
    <3>2. mid[m.id] = message_key(m)
      BY <1>2, <1>3, <2>2, <3>1 DEF Fits, HoldsMail
    <3> QED BY <1>7, <1>8, <2>2, <3>1, <3>2
  <2>3. CASE msg[k] # m
    BY <1>1, <1>3, <1>8, <2>1, <2>3 DEF StoreFits, IndexesLead
  <2> QED BY <2>2, <2>3
<1> QED BY <1>9, <1>11, <1>12, <1>14, <1>15, <1>16 DEF StoreFits

(***************************************************************************)
(* The row is deleted if it still holds the message: the call now owes the *)
(* index row and the receipt.                                              *)
(***************************************************************************)
LEMMA RowDeleted ==
    ASSUME NEW g, StoreFits(g), NEW i \in Nodes, delete_message_row(i),
           NEW c, c = calls[i], NEW m, m = c.msg,
           msg[message_key(m)] # None, msg[message_key(m)].id = m.id
    PROVE  StoreFits(g)'
<1>1. c # None /\ c.step = "delete_message_row" /\ c \in Call /\ Fits(g, c) /\ Types /\ WellFormed(c)
  BY CallFits DEF delete_message_row, DeleteRow, At
<1>2. m \in Message /\ m # None /\ c.op # "insert_message" /\ Genuine(g, m) /\ ~Removing(i)
  BY <1>1 DEF WellFormed, Call, Maybe, Fits, HoldsMail, MessageSteps, Removing, RemovalSteps
<1>3. message_key(m) \in MessageKeys /\ m.id \in issued
  BY <1>2, KeyTyped DEF Genuine
<1>4. msg[message_key(m)] = m
  BY <1>2, <1>3, OwnRow
<1>5. /\ msg' = [msg EXCEPT ![message_key(m)] = None]
      /\ owing' = IF c.op = "withdraw" THEN owing ELSE owing \cup {m}
      /\ Goto(i, c, "delete_mid")
      /\ UNCHANGED <<ua, ch, push, mid, rexp, rsubs, rq, last, settled, clock, faults, issued>>
  BY DEF delete_message_row, DeleteRow, accountRows, receiptRows, counters
<1>6. PICK x \in Call : Moved(i, x) /\ x.step = "delete_mid" /\ SameCall(x, c)
  BY <1>1, <1>5, GotoMoves DEF Steps
<1>7. x.op = c.op /\ x.msg = m /\ x.msgs = c.msgs /\ x.entries = c.entries
      /\ x.entry = c.entry /\ x.push = c.push /\ x.uaid = c.uaid /\ x.channel_id = c.channel_id
      /\ x # None /\ x \in Maybe(Call)
  BY <1>6, NoneAssumption DEF SameCall, SameSubscription, Maybe
<1>8. /\ msg' \in [MessageKeys -> Maybe(Message)]
      /\ \A k \in MessageKeys : msg'[k] = IF k = message_key(m) THEN None ELSE msg[k]
  BY <1>1, <1>3, <1>5 DEF Types, BigtableTypeOK, Maybe
<1>9. Types'
  <2>1. owing' \subseteq Message
    BY <1>1, <1>2, <1>5 DEF Types, BigtableTypeOK
  <2> QED BY <1>1, <1>5, <1>6, <1>7, <1>8, <2>1, CallsTyped DEF Types, BigtableTypeOK
<1>10. Drift
  BY <1>5, <1>8 DEF Drift
<1>11. Unstored(m.id)'
  <2> SUFFICES ASSUME NEW k \in MessageKeys, msg'[k] # None PROVE msg'[k].id # m.id
    BY DEF Unstored
  <2> QED BY <1>2, <1>8, OwnRow
<1>12. Unsettled(m.id) /\ \A n \in owing : n.id # m.id
  BY <1>2, <1>3, <1>4 DEF StoreFits, RowsFit, OwingFits, Unstored
<1>13. \A j \in Nodes : Removing(j) => calls[j].msg.id # m.id
  <2> SUFFICES ASSUME NEW j \in Nodes, Removing(j) PROVE calls[j].msg.id # m.id
    OBVIOUS
  <2>1. Unstored(calls[j].msg.id)
    BY CallFits DEF Removing, Fits, Removes
  <2> QED BY <1>2, <1>3, <1>4, <2>1 DEF Unstored
<1>14. Fits(g, x)'
  <2>1. WellFormed(x)'
    BY <1>1, <1>2, <1>6, <1>7 DEF WellFormed, SubscriptionSteps, MessageSteps, RemovalSteps, DeleteOps
  <2>2. OwnsPush(x)'
    BY <1>1, <1>5, <1>6, <1>7 DEF Fits, OwnsPush, SubscriptionSteps, MessageSteps, RemovalSteps
  <2>3. Removes(x)'
    BY <1>5, <1>6, <1>7, <1>11, <1>12 DEF Removes, Unsettled, Unstored
  <2>4. HoldsMail(g, x)'
    <3>1. (\A e \in x.entries : RightRow(e)') /\ (x.entry # None => RightRow(x.entry)')
      BY <1>1, <1>7, <1>10, RightRowStays DEF Fits, HoldsMail
    <3>2. (x.msg # None => Genuine(g, x.msg)') /\ (\A n \in x.msgs : Genuine(g, n)')
      BY <1>1, <1>5, <1>7, <1>2 DEF Fits, HoldsMail, Genuine
    <3>3. x.op = "reap" => x.msg.id = x.entry.id
      BY <1>1, <1>7 DEF Fits, HoldsMail, MessageSteps
    <3> QED BY <1>6, <3>1, <3>2, <3>3 DEF HoldsMail
  <2> QED BY <2>1, <2>2, <2>3, <2>4 DEF Fits
<1>15. CallsFit(g)'
  BY <1>1, <1>5, <1>6, <1>10, <1>13, <1>14, CallsStay DEF StoreFits, Removing
<1>16. \A j \in Nodes : calls'[j] = IF j = i THEN x ELSE calls[j]
  BY <1>1, <1>6, MovedCalls
<1>17. OneRemover'
  BY <1>7, <1>13, <1>16 DEF StoreFits, OneRemover, Removing
<1>18. ReceiptsFollow'
  <2> SUFFICES ASSUME faults = 0, NEW n \in owing', n.rsub \in rsubs
               PROVE  \/ \E q \in settled : q.msg_id = n.id
                      \/ \E j \in Nodes : /\ calls'[j] # None /\ calls'[j].msg = n
                                          /\ calls'[j].step \in RemovalSteps
    BY <1>5 DEF ReceiptsFollow, RemovalSteps
  <2>1. CASE n = m
    BY <1>6, <1>7, <1>16, <2>1 DEF RemovalSteps
  <2>2. CASE n # m
    BY <1>2, <1>5, <1>16, <2>2 DEF StoreFits, ReceiptsFollow, Removing, RemovalSteps
  <2> QED BY <2>1, <2>2
<1>19. IndexesLead'
  BY <1>1, <1>2, <1>5, <1>6, <1>8, IndexesStay DEF StoreFits
<1>20. ChannelsResolve'
  <2>1. calls[i].step # "put_push"
    BY <1>1
  <2> QED BY <1>1, <1>5, <1>6, <2>1, ResolveStays DEF StoreFits
<1>21. RowsFit(g)'
  <2> SUFFICES ASSUME NEW k \in MessageKeys, msg'[k] # None
               PROVE  /\ Genuine(g, msg[k])' /\ message_key(msg'[k]) = k
                      /\ \A q \in settled' : q.msg_id # msg'[k].id
    BY DEF RowsFit, Unsettled
  <2>1. msg'[k] = msg[k]
    BY <1>8
  <2> QED BY <1>5, <2>1 DEF StoreFits, RowsFit, Unsettled, Genuine
<1>22. OwingFits(g)'
  <2> SUFFICES ASSUME NEW n \in owing' PROVE Genuine(g, n)' /\ Unstored(n.id)'
    BY DEF OwingFits
  <2>1. CASE n = m
    BY <1>2, <1>5, <1>11, <2>1 DEF Genuine
  <2>2. CASE n # m
    <3>1. n \in owing
      BY <1>5, <2>2
    <3>2. Genuine(g, n) /\ Unstored(n.id) /\ n.id \in issued
      BY <3>1 DEF StoreFits, OwingFits, Genuine
    <3>3. Unstored(n.id)'
      BY <1>10, <3>2, UnstoredStays
    <3> QED BY <1>5, <3>2, <3>3 DEF Genuine
  <2> QED BY <2>1, <2>2
<1>23. EntriesFit'
  BY <1>5, <1>10, RightRowStays DEF StoreFits, EntriesFit
<1>24. IdsIssued' /\ ChannelsFit' /\ OneReceipt'
  BY <1>5 DEF StoreFits, IdsIssued, ChannelsFit, OneReceipt
<1> QED BY <1>9, <1>15, <1>17, <1>18, <1>19, <1>20, <1>21, <1>22, <1>23, <1>24 DEF StoreFits

LEMMA delete_message_rowKeeps ==
    ASSUME NEW g, StoreFits(g), NEW i \in Nodes, delete_message_row(i)
    PROVE  StoreFits(g)'
<1>1. PICK c : c = calls[i]
  OBVIOUS
<1>2. c # None /\ c.step = "delete_message_row" /\ c \in Call /\ Fits(g, c) /\ Types /\ WellFormed(c)
  BY <1>1, CallFits DEF delete_message_row, DeleteRow, At
<1>3. PICK m : m = c.msg
  OBVIOUS
<1>4. m \in Message /\ c.op # "insert_message" /\ Genuine(g, m) /\ ~Removing(i)
      /\ c.step \in MessageSteps
  BY <1>1, <1>2, <1>3 DEF WellFormed, Call, Maybe, Fits, HoldsMail, MessageSteps, Removing,
     RemovalSteps
<1>5. CASE msg[message_key(m)] # None /\ msg[message_key(m)].id = m.id
  BY <1>1, <1>3, <1>5, RowDeleted
<1>6. CASE ~(msg[message_key(m)] # None /\ msg[message_key(m)].id = m.id)
  <2>1. /\ UNCHANGED <<ch, push, mailRows, settled, owing, faults, issued, rsubs, ua, rq, last, clock>>
        /\ MessageDone(i, c)
    BY <1>1, <1>3, <1>6 DEF delete_message_row, DeleteRow, accountRows, mailRows, receiptRows, counters
  <2>2. QuietTypes
    BY <1>2, <2>1 DEF QuietTypes, Types, BigtableTypeOK
  <2>3. PICK x : Moved(i, x) /\ (x = None \/ AfterMessage(x, c))
    BY <1>2, <1>4, <2>1, MessageDoneMoves
  <2>4. Unstored(m.id)
    BY <1>4, <1>6, OwnRow DEF Unstored
  <2>5. x \in Maybe(Call) /\ (x # None => Fits(g, x) /\ x.step \notin RemovalSteps)
    BY <1>2, <1>3, <1>4, <2>3, <2>4, AfterFits DEF AfterMessage, Maybe, RemovalSteps
  <2>6. calls[i].op # "insert_message" /\ calls[i].step # "put_push"
    BY <1>1, <1>2, <1>4
  <2> QED BY <1>4, <2>1, <2>2, <2>3, <2>5, <2>6, CallGoesOn
<1> QED BY <1>5, <1>6

(***************************************************************************)
(* What a call does for the message whose row it has deleted.              *)
(***************************************************************************)
LEMMA remove_messageKeeps ==
    ASSUME NEW g, StoreFits(g), NEW i \in Nodes, remove_message(i)
    PROVE  StoreFits(g)'
<1>1. PICK c : c = calls[i]
  OBVIOUS
<1>2. c # None /\ c.step = "delete_mid" /\ c \in Call /\ Fits(g, c) /\ Types /\ WellFormed(c)
  BY <1>1, CallFits DEF remove_message, At
<1>3. PICK m : m = c.msg
  OBVIOUS
<1>4. m \in Message /\ c.op # "insert_message" /\ Genuine(g, m) /\ Removing(i) /\ Unstored(m.id)
      /\ c.step \in MessageSteps /\ c.step \in RemovalSteps
  BY <1>1, <1>2, <1>3 DEF WellFormed, Call, Maybe, Fits, HoldsMail, MessageSteps, Removing,
     RemovalSteps, Removes
<1>5. /\ mid' = [mid EXCEPT ![m.id] = None]
      /\ UNCHANGED <<ua, ch, push, msg, rexp, rsubs, rq, last, settled, owing, clock, faults, issued>>
      /\ IF c.op = "withdraw" \/ m.rsub = None
         THEN MessageDone(i, c) ELSE Goto(i, c, "receipt_sub_exists")
  BY <1>1, <1>3 DEF remove_message, accountRows, receiptRows, counters
<1>6. /\ mid' \in [MsgIds -> Maybe(MessageKeys)]
      /\ \A id \in MsgIds : id # m.id => mid'[id] = mid[id]
  BY <1>2, <1>4, <1>5 DEF Types, BigtableTypeOK, Maybe, Message
<1>7. Drift
  BY <1>5 DEF Drift
<1>8. PICK x \in Maybe(Call) :
         /\ Moved(i, x)
         /\ x # None => Fits(g, x) /\ x.step # "put_rexp"
         /\ x # None /\ x.step \in RemovalSteps => x.msg = m
         /\ \/ x # None /\ x.step \in RemovalSteps
            \/ c.op = "withdraw" \/ m.rsub = None
  <2>1. CASE c.op = "withdraw" \/ m.rsub = None
    <3>1. PICK x : Moved(i, x) /\ (x = None \/ AfterMessage(x, c))
      BY <1>2, <1>4, <1>5, <2>1, MessageDoneMoves
    <3>2. x # None => Fits(g, x) /\ x.step \notin RemovalSteps /\ x.step # "put_rexp" /\ x \in Call
      BY <1>2, <1>3, <1>4, <3>1, AfterFits DEF AfterMessage, RemovalSteps
    <3> QED BY <2>1, <3>1, <3>2 DEF Maybe
  <2>2. CASE c.op # "withdraw" /\ m.rsub # None
    <3>1. PICK x \in Call : Moved(i, x) /\ x.step = "receipt_sub_exists" /\ SameCall(x, c)
      BY <1>2, <1>5, <2>2, GotoMoves DEF Steps
    <3>2. x.op = c.op /\ x.msg = m /\ x.msgs = c.msgs /\ x.entries = c.entries
          /\ x.entry = c.entry /\ x.push = c.push /\ x.uaid = c.uaid
          /\ x.channel_id = c.channel_id
      BY <1>3, <3>1 DEF SameCall, SameSubscription
    <3>3. WellFormed(x)
      BY <1>2, <1>3, <2>2, <3>1, <3>2 DEF WellFormed, SubscriptionSteps, MessageSteps, RemovalSteps
    <3>4. OwnsPush(x) /\ Removes(x)
      BY <1>2, <1>3, <3>1, <3>2 DEF Fits, OwnsPush, Removes, SubscriptionSteps, MessageSteps,
         RemovalSteps
    <3>5. HoldsMail(g, x)
      BY <1>2, <1>3, <3>1, <3>2 DEF HoldsMail, Fits, MessageSteps, RemovalSteps
    <3> QED BY <3>1, <3>2, <3>3, <3>4, <3>5, NoneAssumption DEF Fits, Maybe, RemovalSteps
  <2> QED BY <2>1, <2>2
<1>9. Types'
  BY <1>2, <1>5, <1>6, <1>8, CallsTyped DEF Types, BigtableTypeOK
<1>10. x # None => Fits(g, x)'
  <2> SUFFICES ASSUME x # None PROVE Fits(g, x)'
    OBVIOUS
  <2>1. x \in Call
    BY DEF Maybe
  <2> QED BY <1>2, <1>5, <1>7, <1>8, <2>1, FitStays
<1>11. CallsFit(g)'
  <2>1. ASSUME NEW j \in Nodes \ {i}, calls[j] # None, calls[j].step = "put_rexp"
        PROVE  \/ mid'[calls[j].msg.id] = mid[calls[j].msg.id]
               \/ Unstored(calls[j].msg.id)'
    <3>1. PICK n : n = calls[j].msg
      OBVIOUS
    <3>2. n.id \in MsgIds /\ calls'[j] = calls[j]
      BY <1>2, <1>8, <2>1, <3>1, CallFits, MovedCalls DEF WellFormed, Call, Maybe, Message
    <3>3. CASE n.id = m.id
      BY <1>4, <1>5, <3>1, <3>2, <3>3 DEF Unstored
    <3> QED BY <1>6, <3>1, <3>2, <3>3
  <2> QED BY <1>2, <1>5, <1>7, <1>8, <1>10, <2>1, CallsStay DEF StoreFits
<1>12. OneRemover'
  BY <1>1, <1>2, <1>3, <1>4, <1>8, OneRemoverStays DEF StoreFits
<1>13. ReceiptsFollow'
  <2>1. c.op = "withdraw" => m \notin owing
    BY <1>2, <1>3, <1>4 DEF Fits, Removes
  <2>2. m.rsub = None => m.rsub \notin rsubs
    BY <1>2, BigtableAssumption DEF Types, BigtableTypeOK
  <2> QED BY <1>1, <1>2, <1>3, <1>5, <1>8, <2>1, <2>2, ReceiptsStay DEF StoreFits
<1>14. IndexesLead'
  <2> SUFFICES ASSUME faults = 0, NEW k \in MessageKeys, msg[k] # None
               PROVE  \/ /\ mid'[msg[k].id] = k
                         /\ msg[k].rsub # None =>
                                \E e \in rexp : e.id = msg[k].id /\ e.row = k
                      \/ \E j \in Nodes : calls'[j] # None /\ calls'[j].op = "insert_message"
                                            /\ calls'[j].msg = msg[k]
    BY <1>5 DEF IndexesLead
  <2>1. \A j \in Nodes : calls'[j] = IF j = i THEN x ELSE calls[j]
    BY <1>2, <1>8, MovedCalls
  <2>2. msg[k].id \in MsgIds /\ msg[k].id # m.id
    BY <1>2, <1>4, RowTyped DEF Message, Unstored
  <2>3. mid'[msg[k].id] = mid[msg[k].id]
    BY <1>6, <2>2
  <2> QED BY <1>1, <1>4, <2>1, <2>3 DEF StoreFits, IndexesLead
<1>15. ChannelsResolve'
  <2>1. calls[i].step # "put_push"
    BY <1>1, <1>2
  <2> QED BY <1>2, <1>5, <1>8, <2>1, ResolveStays DEF StoreFits
<1>16. RowsFit(g)' /\ OwingFits(g)' /\ EntriesFit' /\ IdsIssued' /\ ChannelsFit' /\ OneReceipt'
  BY <1>2, <1>5, MailStays, ChannelsStay DEF StoreFits, OneReceipt
<1> QED BY <1>9, <1>11, <1>12, <1>13, <1>14, <1>15, <1>16 DEF StoreFits

LEMMA enqueue_receiptKeeps ==
    ASSUME NEW g, StoreFits(g), NEW i \in Nodes, enqueue_receipt(i)
    PROVE  StoreFits(g)'
<1>1. PICK c : c = calls[i]
  OBVIOUS
<1>2. c # None /\ c.step = "put_receipt" /\ c \in Call /\ Fits(g, c) /\ Types /\ WellFormed(c)
  BY <1>1, CallFits DEF enqueue_receipt, At
<1>3. PICK m : m = c.msg
  OBVIOUS
<1>4. m \in Message /\ c.op # "insert_message" /\ c.op # "withdraw" /\ Genuine(g, m) /\ Removing(i)
      /\ Unstored(m.id) /\ Unsettled(m.id) /\ c.step \in MessageSteps /\ m.rsub \in Rsubs
  BY <1>1, <1>2, <1>3 DEF WellFormed, Call, Maybe, Fits, HoldsMail, MessageSteps, Removing,
     RemovalSteps, Removes, Message
<1>5. PICK r : r = [rsub |-> m.rsub, seq |-> next_seq(i), msg_id |-> m.id,
                    status |-> IF c.op = "ack" THEN 204 ELSE 410]
  OBVIOUS
<1>6. next_seq(i) \in Nat
  BY <1>2, BigtableAssumption DEF next_seq, Types, BigtableTypeOK
<1>7. r \in Receipt /\ r.msg_id = m.id /\ r.seq \in Nat
  BY <1>4, <1>5, <1>6 DEF Receipt, Message
<1>8. /\ rq' = {q \in rq : q.rsub # r.rsub \/ q.seq # r.seq} \cup {r}
      /\ last' = [last EXCEPT ![i] = r.seq] /\ settled' = settled \cup {r}
      /\ MessageDone(i, c)
      /\ UNCHANGED <<ua, ch, push, msg, mid, rexp, rsubs, owing, clock, faults, issued>>
  BY <1>1, <1>3, <1>5 DEF enqueue_receipt, accountRows, mailRows, counters
<1>9. PICK x : Moved(i, x) /\ (x = None \/ AfterMessage(x, c))
  BY <1>2, <1>4, <1>8, MessageDoneMoves
<1>10. x \in Maybe(Call) /\ (x # None => Fits(g, x) /\ x \in Call /\ x.step \notin RemovalSteps
                                          /\ x.step # "put_rexp")
  BY <1>2, <1>3, <1>4, <1>9, AfterFits DEF AfterMessage, RemovalSteps, Maybe
<1>11. Types'
  <2>1. rq' \subseteq Receipt /\ settled' \subseteq Receipt /\ last' \in [Nodes -> Nat]
    BY <1>2, <1>7, <1>8 DEF Types, BigtableTypeOK
  <2> QED BY <1>2, <1>8, <1>9, <1>10, <2>1, CallsTyped DEF Types, BigtableTypeOK
<1>12. Drift
  BY <1>8 DEF Drift
<1>13. x # None => Fits(g, x)'
  BY <1>2, <1>8, <1>10, <1>12, FitStays
<1>14. CallsFit(g)'
  <2>1. \A j \in Nodes \ {i} : Removing(j) => calls[j].msg.id # r.msg_id
    BY <1>1, <1>3, <1>4, <1>7 DEF StoreFits, OneRemover
  <2> QED BY <1>2, <1>8, <1>9, <1>12, <1>13, <2>1, CallsStay DEF StoreFits, Removing
<1>15. OneRemover'
  BY <1>2, <1>9, <1>10, OneRemoverStays DEF StoreFits
<1>16. ReceiptsFollow'
  BY <1>1, <1>2, <1>3, <1>7, <1>8, <1>9, ReceiptsStay DEF StoreFits
<1>17. IndexesLead' /\ ChannelsResolve'
  <2>1. calls[i].op # "insert_message" /\ calls[i].step # "put_push"
    BY <1>1, <1>2, <1>4
  <2> QED BY <1>2, <1>8, <1>9, <2>1, IndexesStay, ResolveStays DEF StoreFits
<1>18. RowsFit(g)'
  BY <1>4, <1>7, <1>8 DEF StoreFits, RowsFit, Genuine, Unsettled, Unstored, message_key
<1>19. OwingFits(g)' /\ EntriesFit' /\ ChannelsFit'
  BY <1>8 DEF StoreFits, OwingFits, Genuine, Unstored, EntriesFit, RightRow, ChannelsFit
<1>20. IdsIssued'
  BY <1>4, <1>7, <1>8 DEF StoreFits, IdsIssued, Genuine
<1>21. OneReceipt'
  BY <1>4, <1>7, <1>8 DEF StoreFits, OneReceipt, Unsettled
<1> QED BY <1>11, <1>14, <1>15, <1>16, <1>17, <1>18, <1>19, <1>20, <1>21 DEF StoreFits

LEMMA delete_entryKeeps ==
    ASSUME NEW g, StoreFits(g), NEW i \in Nodes, delete_entry(i)
    PROVE  StoreFits(g)'
<1>1. PICK c : c = calls[i]
  OBVIOUS
<1>2. c # None /\ c.step = "delete_entry" /\ c \in Call /\ Fits(g, c) /\ Types /\ WellFormed(c)
  BY <1>1, CallFits DEF delete_entry, At
<1>3. c.op = "reap" /\ c.push = None /\ ~Removing(i) /\ Unstored(c.entry.id)
  BY <1>1, <1>2 DEF WellFormed, Fits, HoldsMail, Removing, RemovalSteps, DeleteOps
<1>4. /\ rexp' = rexp \ {c.entry} /\ NextEntry(i, c)
      /\ UNCHANGED <<ua, ch, push, msg, mid, rsubs, rq, last, settled, owing, clock, faults, issued>>
  BY <1>1 DEF delete_entry, accountRows, receiptRows, counters
<1>5. PICK x : Moved(i, x) /\
               \/ x = None
               \/ /\ x \in Call /\ x.op = "reap" /\ x.step = "read_entry" /\ x.msg = None
                  /\ x.entry \in c.entries /\ x.entries \subseteq c.entries
                  /\ x.msgs = c.msgs /\ x.push = None
  BY <1>2, <1>3, <1>4, NextEntryMoves
<1>6. x # None => Fits(g, x) /\ x.step \notin RemovalSteps
  <2> SUFFICES ASSUME x # None PROVE Fits(g, x) /\ x.step \notin RemovalSteps
    OBVIOUS
  <2>1. \A e \in c.entries : RightRow(e) /\ e # None
    BY <1>2, NoneAssumption DEF Fits, HoldsMail, Call
  <2>2. WellFormed(x)
    BY <1>5, <2>1 DEF WellFormed, MessageSteps, RemovalSteps, DeleteOps
  <2>3. OwnsPush(x) /\ Removes(x) /\ x.step \notin RemovalSteps
    BY <1>5 DEF OwnsPush, Removes, RemovalSteps
  <2>4. HoldsMail(g, x)
    BY <1>2, <1>5, <2>1 DEF Fits, HoldsMail, MessageSteps, RemovalSteps
  <2> QED BY <2>2, <2>3, <2>4 DEF Fits
<1>7. x \in Maybe(Call) /\ (x # None => x \in Call)
  BY <1>5 DEF Maybe
<1>8. Types'
  BY <1>2, <1>4, <1>5, <1>7, CallsTyped DEF Types, BigtableTypeOK
<1>9. Drift
  BY <1>4 DEF Drift
<1>10. x # None => Fits(g, x)'
  BY <1>2, <1>4, <1>5, <1>6, <1>7, <1>9, FitStays
<1>11. CallsFit(g)'
  BY <1>2, <1>4, <1>5, <1>9, <1>10, CallsStay DEF StoreFits
<1>12. OneRemover' /\ ReceiptsFollow'
  BY <1>2, <1>3, <1>4, <1>5, <1>6, OneRemoverStays, ReceiptsStay DEF StoreFits
<1>13. ChannelsResolve'
  <2>1. calls[i].step # "put_push"
    BY <1>1, <1>2
  <2> QED BY <1>2, <1>4, <1>5, <2>1, ResolveStays DEF StoreFits
<1>14. IndexesLead'
  <2> SUFFICES ASSUME faults = 0, NEW k \in MessageKeys, msg[k] # None
               PROVE  \/ /\ mid[msg[k].id] = k
                         /\ msg[k].rsub # None =>
                                \E e \in rexp' : e.id = msg[k].id /\ e.row = k
                      \/ \E j \in Nodes : calls'[j] # None /\ calls'[j].op = "insert_message"
                                            /\ calls'[j].msg = msg[k]
    BY <1>4 DEF IndexesLead
  <2>1. \A j \in Nodes : calls'[j] = IF j = i THEN x ELSE calls[j]
    BY <1>2, <1>5, MovedCalls
  <2>2. \A e \in rexp : e.id = msg[k].id => e \in rexp'
    BY <1>3, <1>4 DEF Unstored
  <2> QED BY <1>1, <1>3, <2>1, <2>2 DEF StoreFits, IndexesLead
<1>15. EntriesFit'
  BY <1>4 DEF StoreFits, EntriesFit, RightRow
<1>16. RowsFit(g)'
  BY <1>4 DEF StoreFits, RowsFit, Genuine, Unsettled, message_key
<1>17. OwingFits(g)' /\ IdsIssued' /\ ChannelsFit' /\ OneReceipt'
  BY <1>4 DEF StoreFits, OwingFits, Genuine, Unstored, IdsIssued, ChannelsFit, OneReceipt
<1> QED BY <1>8, <1>11, <1>12, <1>13, <1>14, <1>15, <1>16, <1>17 DEF StoreFits

(***************************************************************************)
(* Together.                                                               *)
(***************************************************************************)
LEMMA StoreInitInv == BigtableInit => StoreInv
<1> SUFFICES ASSUME BigtableInit, NEW g PROVE StoreFits(g)
  BY DEF StoreInv
<1>1. Types
  BY DEF BigtableInit, Types, BigtableTypeOK, Maybe
<1>2. RowsFit(g) /\ OwingFits(g) /\ EntriesFit /\ IdsIssued /\ ChannelsFit
  BY DEF BigtableInit, RowsFit, OwingFits, EntriesFit, IdsIssued, ChannelsFit
<1>3. CallsFit(g) /\ OneRemover
  BY DEF BigtableInit, CallsFit, OneRemover, Removing
<1>4. OneReceipt /\ ReceiptsFollow /\ IndexesLead /\ ChannelsResolve
  BY DEF BigtableInit, OneReceipt, ReceiptsFollow, IndexesLead, ChannelsResolve
<1> QED BY <1>1, <1>2, <1>3, <1>4 DEF StoreFits

LEMMA StoreCalls ==
    ASSUME NEW g, StoreFits(g), Calls
    PROVE  StoreInv'
<1>1. PICK i \in Nodes :
         \/ \E u \in Uaids, k \in ChannelIds :
               \/ \E id \in MsgIds, p \in Pushes, ttl \in Ttls :
                     insert_message(i,
                         [id |-> id, uaid |-> u, channel_id |-> k, topic |-> p[1],
                          expiry |-> clock + ttl, rsub |-> p[2]])
               \/ \E p \in PushIds : create_subscription(i, u, k, p)
               \/ delete_subscription(i, u, k)
         \/ \E id \in MsgIds, op \in {"ack", "withdraw"} : delete_message(i, op, id)
         \/ \E r \in Rsubs : delete_receipt_sub(i, r)
         \/ \E u \in Uaids : delete_user_agent(i, u)
         \/ reap(i)
         \/ expire_user_agents(i)
  BY DEF Calls
<1>2. ASSUME NEW u \in Uaids, NEW k \in ChannelIds, NEW id \in MsgIds, NEW p \in Pushes,
             NEW ttl \in Ttls,
             insert_message(i, [id |-> id, uaid |-> u, channel_id |-> k, topic |-> p[1],
                                expiry |-> clock + ttl, rsub |-> p[2]])
      PROVE  StoreInv'
  <2>1. PICK m : m = [id |-> id, uaid |-> u, channel_id |-> k, topic |-> p[1],
                      expiry |-> clock + ttl, rsub |-> p[2]]
    OBVIOUS
  <2>2. p[1] \in Maybe(Topics) /\ p[2] \in Maybe(Rsubs) /\ clock + ttl \in Nat
    BY BigtableAssumption DEF StoreFits, Types
  <2>3. m \in Message
    BY <2>1, <2>2 DEF Message
  <2>4. insert_message(i, m)
    BY <1>2, <2>1
  <2> QED BY <2>3, <2>4, insert_messageKeeps DEF StoreInv
<1>3. CASE \E u \in Uaids, k \in ChannelIds :
              (\E p \in PushIds : create_subscription(i, u, k, p)) \/ delete_subscription(i, u, k)
  BY <1>3, create_subscriptionKeeps, delete_subscriptionKeeps DEF StoreInv
<1>4. CASE \E id \in MsgIds, op \in {"ack", "withdraw"} : delete_message(i, op, id)
  BY <1>4, delete_messageKeeps DEF StoreInv
<1>5. CASE \E r \in Rsubs : delete_receipt_sub(i, r)
  BY <1>5, delete_receipt_subKeeps DEF StoreInv
<1>6. CASE \E u \in Uaids : delete_user_agent(i, u)
  BY <1>6, delete_user_agentKeeps DEF StoreInv
<1>7. CASE reap(i)
  BY <1>7, reapKeeps DEF StoreInv
<1>8. CASE expire_user_agents(i)
  BY <1>8, expire_user_agentsKeeps DEF StoreInv
<1> QED BY <1>1, <1>2, <1>3, <1>4, <1>5, <1>6, <1>7, <1>8

LEMMA StoreCallSteps ==
    ASSUME NEW g, StoreFits(g), NEW i \in Nodes, CallSteps(i)
    PROVE  StoreFits(g)'
<1>1. CASE put_mid(i)
  BY <1>1, put_midKeeps
<1>2. CASE put_rexp(i)
  BY <1>2, put_rexpKeeps
<1>3. CASE locate(i)
  BY <1>3, locateKeeps
<1>4. CASE delete_message_row(i)
  BY <1>4, delete_message_rowKeeps
<1>5. CASE remove_message(i)
  BY <1>5, remove_messageKeeps
<1>6. CASE receipt_sub_exists(i)
  BY <1>6, receipt_sub_existsKeeps
<1>7. CASE enqueue_receipt(i)
  BY <1>7, enqueue_receiptKeeps
<1>8. CASE delete_rsub(i) \/ scan_queue(i) \/ delete_queued(i)
  BY <1>8, scan_queueKeeps
<1>9. CASE read_entry(i)
  BY <1>9, read_entryKeeps
<1>10. CASE delete_entry(i)
  BY <1>10, delete_entryKeeps
<1>11. CASE put_push(i)
  BY <1>11, put_pushKeeps
<1>12. CASE channel(i)
  BY <1>12, channelKeeps
<1>13. CASE scan_messages(i)
  BY <1>13, scan_messagesKeeps
<1>14. CASE delete_channel(i)
  BY <1>14, delete_channelKeeps
<1>15. CASE delete_push(i)
  BY <1>15, delete_pushKeeps
<1>16. CASE scan_channels(i)
  BY <1>16, scan_channelsKeeps
<1>17. CASE delete_ua(i)
  BY <1>17, delete_uaKeeps
<1> QED BY <1>1, <1>2, <1>3, <1>4, <1>5, <1>6, <1>7, <1>8, <1>9, <1>10, <1>11, <1>12, <1>13,
           <1>14, <1>15, <1>16, <1>17 DEF CallSteps

LEMMA StoreIdle ==
    ASSUME NEW g, StoreFits(g), UNCHANGED vars
    PROVE  StoreFits(g)'
<1>1. UNCHANGED <<ua, ch, push, msg, mid, rexp, rsubs, rq, last, settled, calls, clock, faults,
                  issued, owing>>
  BY DEF vars, accountRows, mailRows, receiptRows, counters
<1>2. Types' /\ OneRemover' /\ OneReceipt'
  BY <1>1 DEF StoreFits, Types, BigtableTypeOK, OneRemover, Removing, OneReceipt
<1>3. ReceiptsFollow'
  BY <1>1 DEF StoreFits, ReceiptsFollow
<1>4. IndexesLead'
  BY <1>1 DEF StoreFits, IndexesLead
<1>5. ChannelsResolve'
  BY <1>1 DEF StoreFits, ChannelsResolve
<1>6. RowsFit(g)' /\ OwingFits(g)' /\ EntriesFit' /\ IdsIssued' /\ ChannelsFit'
  BY <1>1, MailStays, ChannelsStay DEF StoreFits
<1>7. CallsFit(g)'
  BY <1>1, IdleCallsStay DEF StoreFits, Drift
<1> QED BY <1>2, <1>3, <1>4, <1>5, <1>6, <1>7 DEF StoreFits

LEMMA StoreStep == StoreInv /\ [BigtableNext]_vars => StoreInv'
<1> SUFFICES ASSUME NEW g, StoreFits(g), [BigtableNext]_vars PROVE StoreInv'
  BY DEF StoreInv
<1>1. CASE Accounts
  BY <1>1, AccountsKeep, create_receipt_subKeeps DEF StoreInv, Accounts
<1>2. CASE Calls
  BY <1>2, StoreCalls
<1>3. CASE \E i \in Nodes : CallSteps(i)
  BY <1>3, StoreCallSteps DEF StoreInv
<1>4. CASE \E i \in Nodes : call_fails(i)
  BY <1>4, call_failsKeeps DEF StoreInv
<1>5. CASE tick
  BY <1>5, AccountsKeep DEF StoreInv
<1>6. CASE UNCHANGED vars
  BY <1>6, StoreIdle DEF StoreInv
<1> QED BY <1>1, <1>2, <1>3, <1>4, <1>5, <1>6 DEF BigtableNext

(***************************************************************************)
(* Whatever calls of bigtable.rs overlap, and wherever they fail, a call   *)
(* knows of the rows it is about to write what StoreFits says.             *)
(***************************************************************************)
THEOREM StoreInvariant == BigtableSpec => []StoreInv
<1> QED BY StoreInitInv, StoreStep, PTL DEF BigtableSpec

(***************************************************************************)
(* "Index rows are written after, and deleted after, the rows they point   *)
(* at", bigtable.rs: as long as no call fails, what insert_message and     *)
(* create_subscription have stored is found by its id and by the reaper,   *)
(* on any number of nodes.                                                 *)
(***************************************************************************)
THEOREM StoredIsFound == BigtableSpec => []BigtableInv
<1>1. StoreInv => BigtableInv
  BY DEF StoreInv, StoreFits, BigtableInv, Types
<1> QED BY <1>1, StoreInvariant, PTL

(***************************************************************************)
(* "Two nodes running them at the same time never owe the same receipt     *)
(* twice": an acknowledgement, the reaper, the deletion of a subscription  *)
(* and the expiry sweep queue one receipt for a message between them, and  *)
(* the one that deletes its row queues it unless it fails or the receipt   *)
(* subscription is gone.                                                   *)
(***************************************************************************)
THEOREM ReceiptsAreExact == BigtableSpec => []ReceiptsExact
<1>1. StoreInv => ReceiptsExact
  BY DEF StoreInv, StoreFits, ReceiptsExact
<1> QED BY <1>1, StoreInvariant, PTL

(***************************************************************************)
(* Only delete_message_row empties a message row.                          *)
(***************************************************************************)
RowsStay == \A k \in MessageKeys : msg[k] # None => msg'[k] # None

LEMMA CallsKeepRows ==
    ASSUME NEW g, StoreFits(g), Calls
    PROVE  RowsStay
<1>1. Types
  BY DEF StoreFits
<1>2. ASSUME NEW i \in Nodes, NEW u \in Uaids, NEW x \in ChannelIds, NEW id \in MsgIds,
             NEW p \in Pushes, NEW ttl \in Ttls,
             insert_message(i, [id |-> id, uaid |-> u, channel_id |-> x, topic |-> p[1],
                                expiry |-> clock + ttl, rsub |-> p[2]])
      PROVE  RowsStay
  <2>1. PICK m : m = [id |-> id, uaid |-> u, channel_id |-> x, topic |-> p[1],
                      expiry |-> clock + ttl, rsub |-> p[2]]
    OBVIOUS
  <2>2. p[1] \in Maybe(Topics) /\ p[2] \in Maybe(Rsubs) /\ clock + ttl \in Nat
    BY <1>1, BigtableAssumption DEF Types
  <2>3. m \in Message /\ m # None
    BY <2>1, <2>2, NoneAssumption DEF Message
  <2>4. msg' = [msg EXCEPT ![message_key(m)] = m]
    BY <1>2, <2>1 DEF insert_message
  <2> QED BY <1>1, <2>3, <2>4 DEF RowsStay, Types, BigtableTypeOK
<1>3. ASSUME NEW i \in Nodes,
             \/ \E u \in Uaids, x \in ChannelIds :
                    (\E p \in PushIds : create_subscription(i, u, x, p)) \/ delete_subscription(i, u, x)
             \/ \E id \in MsgIds, op \in {"ack", "withdraw"} : delete_message(i, op, id)
             \/ \E r \in Rsubs : delete_receipt_sub(i, r)
             \/ \E u \in Uaids : delete_user_agent(i, u)
             \/ reap(i)
             \/ expire_user_agents(i)
      PROVE  RowsStay
  <2>1. UNCHANGED msg
    BY <1>3, Zenon DEF create_subscription, delete_subscription, delete_message,
       delete_receipt_sub, delete_user_agent, reap, expire_user_agents, mailRows
  <2> QED BY <2>1 DEF RowsStay
<1> QED BY <1>2, <1>3, Zenon DEF Calls

LEMMA StepsKeepRows ==
    ASSUME NEW i \in Nodes, CallSteps(i), ~delete_message_row(i)
    PROVE  RowsStay
<1>1. UNCHANGED msg
  BY DEF CallSteps, put_mid, put_rexp, locate, remove_message, receipt_sub_exists,
     enqueue_receipt, delete_rsub, scan_queue, delete_queued, read_entry, delete_entry, put_push,
     channel, scan_messages, delete_channel, delete_push, scan_channels, delete_ua, mailRows
<1> QED BY <1>1 DEF RowsStay

(***************************************************************************)
(* "Deletes only the message currently stored under that id": no call      *)
(* empties a row that holds a newer message than the one it has read, the  *)
(* CheckAndMutate of delete_message_row seeing to it.                      *)
(***************************************************************************)
THEOREM NewerMessagesKept == BigtableSpec => NewerMessagesStay
<1> DEFINE Emptied == \A k \in MessageKeys : msg[k] # None /\ msg'[k] = None =>
                          \E i \in Nodes : /\ calls[i] # None /\ calls[i].msg = msg[k]
                                           /\ calls'[i] # calls[i]
<1>1. ASSUME NEW g, StoreFits(g), [BigtableNext]_vars PROVE Emptied
  <2>1. RowsStay => Emptied
    BY DEF RowsStay
  <2>2. CASE Accounts \/ tick \/ UNCHANGED vars \/ \E i \in Nodes : call_fails(i)
    <3>1. UNCHANGED msg
      BY <2>2 DEF Accounts, create_user_agent, touch_user_agent, create_receipt_sub,
         delete_receipt, tick, call_fails, vars, mailRows
    <3> QED BY <3>1
  <2>3. CASE Calls
    BY <1>1, <2>1, <2>3, CallsKeepRows
  <2>4. ASSUME NEW i \in Nodes, delete_message_row(i) PROVE Emptied
    <3>1. PICK c : c = calls[i]
      OBVIOUS
    <3>2. c # None /\ c.step = "delete_message_row" /\ c \in Call /\ Fits(g, c) /\ Types
          /\ WellFormed(c)
      BY <1>1, <2>4, <3>1, CallFits DEF delete_message_row, DeleteRow, At
    <3>3. PICK m : m = c.msg
      OBVIOUS
    <3>4. m \in Message /\ Genuine(g, m) /\ message_key(m) \in MessageKeys
      BY <3>2, <3>3, KeyTyped DEF WellFormed, Call, Maybe, Fits, HoldsMail, MessageSteps
    <3>5. CASE msg[message_key(m)] # None /\ msg[message_key(m)].id = m.id
      <4>1. msg[message_key(m)] = m
        BY <1>1, <3>4, <3>5, OwnRow
      <4>2. /\ msg' = [msg EXCEPT ![message_key(m)] = None]
            /\ Goto(i, c, "delete_mid")
        BY <2>4, <3>1, <3>3, <3>5 DEF delete_message_row, DeleteRow
      <4>3. PICK x \in Call : Moved(i, x) /\ x.step = "delete_mid" /\ SameCall(x, c)
        BY <3>2, <4>2, GotoMoves DEF Steps
      <4>4. calls'[i] # calls[i]
        BY <3>1, <3>2, <4>3, MovedCalls
      <4>5. \A k \in MessageKeys : k # message_key(m) => msg'[k] = msg[k]
        BY <3>2, <4>2 DEF Types, BigtableTypeOK
      <4> QED BY <3>1, <3>2, <3>3, <4>1, <4>4, <4>5
    <3>6. CASE ~(msg[message_key(m)] # None /\ msg[message_key(m)].id = m.id)
      <4>1. UNCHANGED msg
        BY <2>4, <3>1, <3>3, <3>6 DEF delete_message_row, DeleteRow
      <4> QED BY <4>1
    <3> QED BY <3>5, <3>6
  <2>5. CASE \E i \in Nodes : CallSteps(i)
    BY <2>1, <2>4, <2>5, StepsKeepRows
  <2> QED BY <1>1, <2>2, <2>3, <2>5 DEF BigtableNext
<1>2. StoreInv /\ [BigtableNext]_vars => [Emptied]_vars
  BY <1>1 DEF StoreInv
<1>3. [][Emptied]_vars => NewerMessagesStay
  BY PTL DEF NewerMessagesStay
<1> QED BY <1>2, <1>3, StoreInvariant, PTL DEF BigtableSpec

-----------------------------------------------------------------------------
(* The route rows *)

(***************************************************************************)
(* The types, with what makes a cleanup harmless: it belongs to a          *)
(* connection that has ended, and an ended connection is not resumed.      *)
(***************************************************************************)
RouteTypeOK ==
    /\ routeRow \subseteq [node : RouteNodes, stamp : RouteStamps]
    /\ link \in [RouteNodes -> {"away", "linking", "putting", "connected", "ended"}]
    /\ before \in [RouteNodes -> SUBSET RouteNodes]
    /\ stamp \in [RouteNodes -> Nat]
    /\ \A n \in RouteNodes : link[n] = "putting" => stamp[n] \in RouteStamps
    /\ closing \subseteq RouteNodes
    /\ cleanups \subseteq RouteNodes
    /\ latest \in RouteNodes \cup {NoNode}
    /\ contended \in BOOLEAN /\ skewed \in BOOLEAN /\ overtaken \in BOOLEAN
    /\ mishaps \in Nat

CleanupsEnded == \A n \in cleanups : link[n] = "ended"

(***************************************************************************)
(* Without overlap there is one takeover at a time, and what it has read   *)
(* is still the route of the connection it supersedes.                     *)
(***************************************************************************)
OneTakeover == ~contended => \A m, n \in Linking : m = n

ReadIsLatest ==
    ~contended /\ ~overtaken /\ mishaps = 0 /\ latest # NoNode /\ link[latest] = "connected" =>
        \A n \in Linking : before[n] = {latest}

(***************************************************************************)
(* With clocks in step as well, the time of a write that is under way is   *)
(* no earlier than any in the row.                                         *)
(***************************************************************************)
InStep ==
    ~contended /\ ~skewed =>
        \A n \in RouteNodes : link[n] = "putting" => \A c \in routeRow : c.stamp <= stamp[n]

RouteInv ==
    /\ RouteTypeOK
    /\ CleanupsEnded
    /\ RouteNamesLatest
    /\ OneTakeover
    /\ ReadIsLatest
    /\ InStep
    /\ SupersededTold

LEMMA RouteInitInv == RouteInit => RouteInv
<1> SUFFICES ASSUME RouteInit PROVE RouteInv
  OBVIOUS
<1>1. Linking = {}
  BY DEF RouteInit, Linking
<1>2. RouteTypeOK
  BY DEF RouteInit, RouteTypeOK
<1>3. CleanupsEnded /\ RouteNamesLatest /\ SupersededTold /\ InStep
  BY DEF RouteInit, CleanupsEnded, RouteNamesLatest, SupersededTold, InStep
<1> QED BY <1>1, <1>2, <1>3 DEF RouteInv, OneTakeover, ReadIsLatest

(***************************************************************************)
(* What the row names depends on nothing but the row.                      *)
(***************************************************************************)
LEMMA NamedByRow == ASSUME UNCHANGED routeRow PROVE Named' = Named
BY DEF Named

LEMMA NamedAreNodes == ASSUME RouteTypeOK PROVE Named \subseteq RouteNodes
BY DEF RouteTypeOK, Named

LEMMA ReadKeeps == ASSUME RouteInv, NEW n \in RouteNodes, read_previous(n) PROVE RouteInv'
<1>1. Named' = Named /\ Named \subseteq RouteNodes
  BY NamedByRow, NamedAreNodes DEF read_previous, RouteInv
<1>2. RouteTypeOK' /\ CleanupsEnded' /\ RouteNamesLatest' /\ OneTakeover'
  BY <1>1, RouteAssumption DEF RouteInv, RouteTypeOK, CleanupsEnded, RouteNamesLatest, OneTakeover,
     Linking, read_previous
<1>3. ReadIsLatest'
  BY <1>1, RouteAssumption DEF RouteInv, RouteTypeOK, RouteNamesLatest, ReadIsLatest, Linking, read_previous
<1>4. InStep' /\ SupersededTold'
  BY RouteAssumption DEF RouteInv, RouteTypeOK, InStep, SupersededTold, read_previous
<1> QED BY <1>2, <1>3, <1>4 DEF RouteInv

LEMMA DrawKeeps == ASSUME RouteInv, NEW n \in RouteNodes, begin_put(n) PROVE RouteInv'
<1>1. Named' = Named
  BY NamedByRow DEF begin_put
<1>2. /\ Linking' = Linking
      /\ \A m \in RouteNodes : link'[m] = "connected" <=> link[m] = "connected"
  BY RouteAssumption DEF RouteInv, RouteTypeOK, Linking, begin_put
<1>3. RouteTypeOK' /\ CleanupsEnded'
  BY RouteAssumption DEF RouteInv, RouteTypeOK, CleanupsEnded, begin_put
<1>4. RouteNamesLatest' /\ OneTakeover' /\ ReadIsLatest' /\ SupersededTold'
  BY <1>1, <1>2, RouteAssumption DEF RouteInv, RouteTypeOK, RouteNamesLatest, OneTakeover, ReadIsLatest,
     SupersededTold, begin_put
<1>5. InStep'
  <2>1. PICK t \in RouteStamps : /\ stamp' = [stamp EXCEPT ![n] = t]
                                 /\ skewed' = (skewed \/ \E c \in routeRow : c.stamp > t)
    BY DEF begin_put
  <2>2. /\ \A c \in routeRow : c.stamp \in Nat
        /\ t \in Nat /\ UNCHANGED <<contended, routeRow>>
        /\ \A m \in RouteNodes : m # n => link'[m] = link[m] /\ stamp'[m] = stamp[m]
        /\ stamp'[n] = t
    BY <2>1, RouteAssumption DEF RouteInv, RouteTypeOK, begin_put
  <2>3. SUFFICES ASSUME ~contended, ~skewed' , NEW m \in RouteNodes, link'[m] = "putting", NEW c \in routeRow
                 PROVE  c.stamp <= stamp'[m]
    BY <2>2, Zenon DEF InStep
  <2>4. ~skewed /\ ~(c.stamp > t)
    BY <2>1, <2>3, Zenon
  <2>5. CASE m = n
    BY <2>2, <2>4, <2>5
  <2>6. CASE m # n
    <3>1. link[m] = "putting" /\ stamp'[m] = stamp[m]
      BY <2>2, <2>3, <2>6
    <3> QED BY <2>3, <2>4, <3>1, Zenon DEF RouteInv, InStep
  <2> QED BY <2>5, <2>6
<1> QED BY <1>3, <1>4, <1>5 DEF RouteInv

(***************************************************************************)
(* A write that meets no later time is the one that the row names; it only *)
(* meets one if takeovers overlap or clocks are out of step.               *)
(***************************************************************************)
LEMMA PutNames ==
    ASSUME RouteInv, NEW n \in RouteNodes, link[n] = "putting", Put(n)
    PROVE  /\ routeRow' \subseteq [node : RouteNodes, stamp : RouteStamps]
           /\ Named' = {n} \/ overtaken'
           /\ overtaken' => overtaken \/ contended \/ skewed
           /\ latest' = n /\ overtaken' \in BOOLEAN
           /\ stamp' = [stamp EXCEPT ![n] = 0]
           /\ overtaken => overtaken'
<1>1. /\ \A c \in routeRow : c.stamp \in Nat
      /\ stamp[n] \in Nat /\ stamp[n] \in RouteStamps
      /\ routeRow \subseteq [node : RouteNodes, stamp : RouteStamps]
  BY RouteAssumption DEF RouteInv, RouteTypeOK
<1>2. routeRow' = {c \in routeRow : c.stamp # stamp[n]} \cup {[node |-> n, stamp |-> stamp[n]]}
  BY DEF Put
<1>3. overtaken' = (overtaken \/ \E c \in routeRow : c.stamp > stamp[n])
  BY DEF Put
<1>4. ASSUME ~overtaken' PROVE Named' = {n}
  <2>1. \A c \in routeRow' : c.stamp = stamp[n] => c = [node |-> n, stamp |-> stamp[n]]
    BY <1>2
  <2>5. ~ \E c \in routeRow : c.stamp > stamp[n]
    BY <1>3, <1>4, Zenon
  <2>2. \A c \in routeRow' : c.stamp \in Nat /\ c.stamp <= stamp[n]
    BY <1>1, <1>2, <2>5
  <2>3. [node |-> n, stamp |-> stamp[n]] \in routeRow'
    BY <1>2
  <2>4. {v \in routeRow' : \A w \in routeRow' : w.stamp <= v.stamp} = {[node |-> n, stamp |-> stamp[n]]}
    BY <1>1, <2>1, <2>2, <2>3
  <2>6. Named' = {c.node : c \in {[node |-> n, stamp |-> stamp[n]]}}
    BY <2>4, Zenon DEF Named
  <2> QED BY <2>6
<1>5. overtaken' => overtaken \/ contended \/ skewed
  <2>1. SUFFICES ASSUME ~contended /\ ~skewed PROVE ~ \E c \in routeRow : c.stamp > stamp[n]
    BY <1>3, Zenon
  <2>2. \A c \in routeRow : c.stamp <= stamp[n]
    BY <2>1, Zenon DEF RouteInv, InStep
  <2> QED BY <1>1, <2>2
<1> QED BY <1>1, <1>2, <1>3, <1>4, <1>5 DEF Put, RouteInv, RouteTypeOK

LEMMA PutKeeps == ASSUME RouteInv, NEW n \in RouteNodes, put_route(n) PROVE RouteInv'
<1>1. /\ routeRow' \subseteq [node : RouteNodes, stamp : RouteStamps]
      /\ Named' = {n} \/ overtaken'
      /\ overtaken' => overtaken \/ contended \/ skewed
      /\ latest' = n /\ overtaken' \in BOOLEAN
      /\ stamp' = [stamp EXCEPT ![n] = 0]
      /\ overtaken => overtaken'
  BY PutNames DEF put_route
<1>2. RouteTypeOK' /\ CleanupsEnded' /\ RouteNamesLatest' /\ OneTakeover'
  BY <1>1, RouteAssumption DEF RouteInv, RouteTypeOK, CleanupsEnded, RouteNamesLatest, OneTakeover,
     Linking, put_route
<1>3. ReadIsLatest' /\ InStep'
  BY <1>1, RouteAssumption DEF RouteInv, RouteTypeOK, OneTakeover, ReadIsLatest, InStep, Linking, put_route
<1>4. SupersededTold'
  BY <1>1, RouteAssumption DEF RouteInv, RouteTypeOK, ReadIsLatest, SupersededTold, Linking, put_route
<1> QED BY <1>2, <1>3, <1>4 DEF RouteInv

LEMMA SetFails == ASSUME RouteInv, NEW n \in RouteNodes, set_route_fails(n) PROVE RouteInv'
<1>1. /\ link[n] \in {"linking", "putting"} /\ link' = [link EXCEPT ![n] = "ended"]
      /\ stamp' = [stamp EXCEPT ![n] = 0]
      /\ cleanups' = cleanups \cup {n} /\ UNCHANGED <<before, closing, contended, skewed>>
      /\ mishaps \in Nat /\ mishaps' = mishaps + 1
  BY DEF set_route_fails, Put, Linking, Mishap, RouteInv, RouteTypeOK
<1>2. \/ UNCHANGED <<routeRow, overtaken, latest>> /\ Named' = Named
      \/ /\ link[n] = "putting"
         /\ routeRow' \subseteq [node : RouteNodes, stamp : RouteStamps]
         /\ overtaken' => overtaken \/ contended \/ skewed
         /\ latest' = n /\ overtaken' \in BOOLEAN
  BY PutNames, NamedByRow DEF set_route_fails
<1>3. RouteTypeOK' /\ CleanupsEnded' /\ OneTakeover'
  BY <1>1, <1>2, RouteAssumption DEF RouteInv, RouteTypeOK, CleanupsEnded, OneTakeover, Linking
<1>4. RouteNamesLatest' /\ ReadIsLatest' /\ SupersededTold'
  BY <1>1, <1>2, RouteAssumption DEF RouteInv, RouteTypeOK, RouteNamesLatest, ReadIsLatest, SupersededTold
<1>5. InStep'
  BY <1>1, <1>2, RouteAssumption DEF RouteInv, RouteTypeOK, InStep, OneTakeover, Linking
<1> QED BY <1>3, <1>4, <1>5 DEF RouteInv

LEMMA NodeDies == ASSUME RouteInv, NEW n \in RouteNodes, node_dies(n) PROVE RouteInv'
<1>1. /\ link[n] # "away" /\ link' = [link EXCEPT ![n] = "ended"]
      /\ stamp' = [stamp EXCEPT ![n] = 0]
      /\ closing' \subseteq closing /\ UNCHANGED <<before, cleanups, contended, skewed>>
      /\ mishaps \in Nat /\ mishaps' = mishaps + 1
  BY DEF node_dies, Put, Mishap, RouteInv, RouteTypeOK
<1>2. \/ UNCHANGED <<routeRow, overtaken, latest>> /\ Named' = Named
      \/ /\ link[n] = "putting"
         /\ routeRow' \subseteq [node : RouteNodes, stamp : RouteStamps]
         /\ overtaken' => overtaken \/ contended \/ skewed
         /\ latest' = n /\ overtaken' \in BOOLEAN
  BY PutNames, NamedByRow DEF node_dies
<1>3. RouteTypeOK' /\ CleanupsEnded' /\ OneTakeover'
  BY <1>1, <1>2, RouteAssumption DEF RouteInv, RouteTypeOK, CleanupsEnded, OneTakeover, Linking
<1>4. RouteNamesLatest' /\ ReadIsLatest' /\ SupersededTold'
  BY <1>1, <1>2, RouteAssumption DEF RouteInv, RouteTypeOK, RouteNamesLatest, ReadIsLatest, SupersededTold
<1>5. InStep'
  BY <1>1, <1>2, RouteAssumption DEF RouteInv, RouteTypeOK, InStep, OneTakeover, Linking
<1> QED BY <1>3, <1>4, <1>5 DEF RouteInv

(***************************************************************************)
(* The steps that end a connection or lose something.                      *)
(***************************************************************************)
LEMMA EndKeeps ==
    ASSUME RouteInv, NEW n \in RouteNodes,
           drop_link(n) \/ gone_arrives(n) \/ gone_lost(n)
    PROVE  RouteInv'
<1>1. Named' = Named
  BY NamedByRow DEF drop_link, gone_arrives, gone_lost
<1>2. CASE drop_link(n)
  BY <1>1, <1>2, RouteAssumption DEF RouteInv, RouteTypeOK, CleanupsEnded, RouteNamesLatest, OneTakeover,
     ReadIsLatest, InStep, SupersededTold, Linking, drop_link
<1>3. CASE gone_arrives(n)
  BY <1>1, <1>3, RouteAssumption DEF RouteInv, RouteTypeOK, CleanupsEnded, RouteNamesLatest, OneTakeover,
     ReadIsLatest, InStep, SupersededTold, Linking, gone_arrives
<1>4. CASE gone_lost(n)
  BY <1>1, <1>4, RouteAssumption DEF RouteInv, RouteTypeOK, CleanupsEnded, RouteNamesLatest, OneTakeover,
     ReadIsLatest, InStep, SupersededTold, Linking, gone_lost, Mishap
<1> QED BY <1>2, <1>3, <1>4

LEMMA CleanupKeeps ==
    ASSUME RouteInv, find_stale \/ \E n \in RouteNodes : clear_route(n) \/ clear_route_fails(n)
    PROVE  RouteInv'
<1>1. CASE find_stale
  <2>1. Named' = Named /\ Named \subseteq RouteNodes
    BY <1>1, NamedByRow, NamedAreNodes DEF find_stale, RouteInv
  <2> QED BY <1>1, <2>1, RouteAssumption DEF RouteInv, RouteTypeOK, CleanupsEnded, RouteNamesLatest,
             OneTakeover, ReadIsLatest, InStep, SupersededTold, Linking, find_stale
<1>2. ASSUME NEW n \in RouteNodes, clear_route(n) PROVE RouteInv'
  <2>1. CASE n \in Named
    <3>1. routeRow' = {} /\ UNCHANGED <<link, before, stamp, closing, latest, contended, skewed, overtaken, mishaps>>
          /\ cleanups' \subseteq cleanups
      BY <1>2, <2>1 DEF clear_route
    <3>2. latest # NoNode /\ link[latest] = "connected" => overtaken
      BY <1>2, <2>1 DEF RouteInv, CleanupsEnded, RouteNamesLatest, clear_route
    <3> QED BY <3>1, <3>2, RouteAssumption DEF RouteInv, RouteTypeOK, CleanupsEnded, RouteNamesLatest,
               OneTakeover, ReadIsLatest, InStep, SupersededTold, Linking
  <2>2. CASE n \notin Named
    <3>1. Named' = Named
      BY <1>2, <2>2, NamedByRow DEF clear_route
    <3> QED BY <1>2, <2>2, <3>1, RouteAssumption DEF RouteInv, RouteTypeOK, CleanupsEnded, RouteNamesLatest,
               OneTakeover, ReadIsLatest, InStep, SupersededTold, Linking, clear_route
  <2> QED BY <2>1, <2>2
<1>3. ASSUME NEW n \in RouteNodes, clear_route_fails(n) PROVE RouteInv'
  <2>1. Named' = Named
    BY <1>3, NamedByRow DEF clear_route_fails
  <2> QED BY <1>3, <2>1, RouteAssumption DEF RouteInv, RouteTypeOK, CleanupsEnded, RouteNamesLatest,
             OneTakeover, ReadIsLatest, InStep, SupersededTold, Linking, clear_route_fails, Mishap
<1> QED BY <1>1, <1>2, <1>3

LEMMA RouteStep == RouteInv /\ [RouteNext]_routeVars => RouteInv'
<1> SUFFICES ASSUME RouteInv, [RouteNext]_routeVars PROVE RouteInv'
  OBVIOUS
<1>1. CASE UNCHANGED routeVars
  <2>1. Named' = Named
    BY <1>1, NamedByRow DEF routeVars
  <2> QED BY <1>1, <2>1 DEF RouteInv, RouteTypeOK, CleanupsEnded, RouteNamesLatest, OneTakeover,
             ReadIsLatest, InStep, SupersededTold, Linking, routeVars
<1>2. CASE RouteNext
  BY <1>2, ReadKeeps, DrawKeeps, PutKeeps, SetFails, NodeDies, EndKeeps, CleanupKeeps DEF RouteNext
<1> QED BY <1>1, <1>2

(***************************************************************************)
(* A cleanup of bigtable.rs never removes the route of an open connection  *)
(* that was the last to take it over, although set_route is two requests,  *)
(* as long as no write is overtaken by its time; and that takes takeovers  *)
(* that overlap or clocks out of step.                                     *)
(***************************************************************************)
THEOREM LatestRouteKept == RouteSpec => []RouteNamesLatest
<1>1. RouteInv => RouteNamesLatest
  BY DEF RouteInv
<1> QED BY <1>1, RouteInitInv, RouteStep, PTL DEF RouteSpec

(***************************************************************************)
(* Only takeovers that overlap, clocks out of step or a fault leave a      *)
(* superseded connection untold.                                           *)
(***************************************************************************)
THEOREM NoneLingers == RouteSpec => []SupersededTold
<1>1. RouteInv => SupersededTold
  BY DEF RouteInv
<1> QED BY <1>1, RouteInitInv, RouteStep, PTL DEF RouteSpec

=============================================================================
