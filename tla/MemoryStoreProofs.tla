-------------------------- MODULE MemoryStoreProofs --------------------------
(***************************************************************************)
(* The safety properties of MemoryStore, for every number of user agents,  *)
(* messages, topics and receipt subscriptions.                             *)
(***************************************************************************)
EXTENDS MemoryStore, FiniteSetTheorems, TLAPS

\* What the mail properties need to be inductive: ids are handed out once, a
\* message with a given id is stored or in a caller's hands or settled but
\* only one of these, and the store stays finite so that receipts can be
\* numbered.
MailApart ==
    /\ IsFiniteSet(messages)
    /\ Ids(messages) \subseteq issued
    /\ \A a \in returned : a.msg.id \in issued
    /\ \A q \in settled : q.msg_id \in issued
    /\ \A m, n \in messages : m.id = n.id => m = n
    /\ \A a \in returned : a.msg.id \notin Ids(messages)
    /\ \A a, b \in returned : a.msg.id = b.msg.id => a = b

\* Receipt numbers do not run ahead of the counter, and every queued receipt
\* is a settled one.
QueueBounded ==
    /\ receipts \subseteq settled
    /\ \A q \in settled : q.seq <= last_seq

\* What PushResolves needs: keys and push ids are unique, and the index leads
\* from a subscription's push id to its key.
PushIndexed ==
    /\ channels \subseteq granted
    /\ \A s, t \in granted : s.push = t.push => s = t
    /\ \A s, t \in channels :
          s.uaid = t.uaid /\ s.channel_id = t.channel_id => s = t
    /\ \A s \in channels : push[s.push] = <<s.uaid, s.channel_id>>

StoreInv ==
    /\ StoreTypeOK
    /\ MailApart
    /\ TopicSlotsExact
    /\ OneOutcome
    /\ QueuesOwned
    /\ QueueBounded
    /\ PushIndexed

------------------------------------------------------------------------------
(***************************************************************************)
(* Lemmas about the shared steps.                                          *)
(***************************************************************************)

\* Numbering a finite batch: every number is a natural above last_seq and not
\* above the new last_seq.
LEMMA NumbersInRange ==
    ASSUME last_seq \in Nat, NEW S, IsFiniteSet(S), NEW order \in next_seq(S)
    PROVE  /\ last_seq + Cardinality(S) \in Nat
           /\ last_seq <= last_seq + Cardinality(S)
           /\ \A m \in S : /\ order[m] \in Nat
                           /\ order[m] > last_seq
                           /\ order[m] <= last_seq + Cardinality(S)
           /\ \A m, n \in S : order[m] = order[n] => m = n
<1>1. Cardinality(S) \in Nat
  BY FS_CardinalityType
<1>2. order \in [S -> (last_seq + 1)..(last_seq + Cardinality(S))]
  BY DEF next_seq
<1>3. ASSUME NEW m \in S
      PROVE  order[m] \in (last_seq + 1)..(last_seq + Cardinality(S))
  BY <1>2
<1>4. \A m, n \in S : order[m] = order[n] => m = n
  BY DEF next_seq
<1> QED
  BY <1>1, <1>3, <1>4

\* The messages owed a receipt are stored messages that named a receipt
\* subscription, so the receipts queued for them are well formed.
LEMMA QueuedReceipts ==
    ASSUME StoreTypeOK, NEW owed \in SUBSET Message, IsFiniteSet(owed),
           \A m \in owed : m.rsub \in receipt_subs,
           NEW order \in next_seq(owed), NEW status \in {204, 410},
           Queue(owed, order, status)
    PROVE  /\ last_seq' \in Nat /\ last_seq <= last_seq'
           /\ receipts' \subseteq Receipt
           /\ settled' \subseteq Receipt
           /\ receipts \subseteq receipts'
           /\ settled \subseteq settled'
           /\ \A q \in settled' \ settled :
                 /\ q.seq > last_seq /\ q.seq <= last_seq'
                 /\ q.rsub \in receipt_subs
                 /\ \E m \in owed : q.msg_id = m.id
           /\ \A q \in receipts' : q \in receipts \/ (q \in settled' /\ q.rsub \in receipt_subs)
           /\ \A m \in owed : \E q \in receipts' : q.msg_id = m.id /\ q.status = status
           /\ \A q \in settled' : q \in settled \/ \E m \in owed :
                 q = [rsub |-> m.rsub, seq |-> order[m], msg_id |-> m.id, status |-> status]
<1> DEFINE rec(m) == [rsub |-> m.rsub, seq |-> order[m], msg_id |-> m.id, status |-> status]
           new == {rec(m) : m \in owed}
<1>1. last_seq \in Nat
  BY DEF StoreTypeOK
<1>2. /\ last_seq + Cardinality(owed) \in Nat
      /\ last_seq <= last_seq + Cardinality(owed)
      /\ \A m \in owed : /\ order[m] \in Nat
                         /\ order[m] > last_seq
                         /\ order[m] <= last_seq + Cardinality(owed)
  BY <1>1, NumbersInRange
<1>3. /\ receipts' = receipts \cup new
      /\ settled' = settled \cup new
      /\ last_seq' = last_seq + Cardinality(owed)
  BY DEF Queue
<1>4. \A m \in owed : rec(m) \in Receipt /\ rec(m).rsub \in receipt_subs
  BY <1>2 DEF StoreTypeOK, Receipt, Message
<1>5. new \subseteq Receipt
  BY <1>4
<1>6. \A m \in owed : rec(m) \in new /\ rec(m).msg_id = m.id /\ rec(m).status = status
  OBVIOUS
<1>7. \A q \in new : /\ q.seq > last_seq /\ q.seq <= last_seq + Cardinality(owed)
                     /\ q.rsub \in receipt_subs
                     /\ \E m \in owed : q.msg_id = m.id
  BY <1>2
<1>8. receipts \subseteq Receipt /\ settled \subseteq Receipt
  BY DEF StoreTypeOK
<1>9. \A q \in new : \E m \in owed : q = rec(m)
  OBVIOUS
<1> HIDE DEF rec, new
<1>10. \A q \in settled' : q \in settled \/ \E m \in owed : q = rec(m)
  BY <1>3, <1>9
<1>11. \A m \in owed : \E q \in receipts' : q.msg_id = m.id /\ q.status = status
  BY <1>3, <1>6
<1>12. \A q \in settled' \ settled :
                 /\ q.seq > last_seq /\ q.seq <= last_seq'
                 /\ q.rsub \in receipt_subs
                 /\ \E m \in owed : q.msg_id = m.id
  BY <1>3, <1>7
<1>13. \A q \in receipts' : q \in receipts \/ (q \in settled' /\ q.rsub \in receipt_subs)
  BY <1>3, <1>7
<1> QED
  BY <1>2, <1>3, <1>5, <1>8, <1>10, <1>11, <1>12, <1>13 DEF rec

\* The part of the state that mail lives in, with its invariant.
MailTypeOK ==
    /\ messages \subseteq Message
    /\ topics \in [Slots -> Maybe(MsgIds)]
    /\ receipts \subseteq Receipt
    /\ last_seq \in Nat
    /\ settled \subseteq Receipt

MailInv ==
    /\ MailTypeOK
    /\ MailApart
    /\ TopicSlotsExact
    /\ OneOutcome
    /\ QueuesOwned
    /\ QueueBounded

\* Removing messages with their slots keeps the index exact.
LEMMA RemovalKeepsSlots ==
    ASSUME StoreInv, NEW gone \in SUBSET messages, remove_message(gone)
    PROVE  /\ messages' \subseteq Message
           /\ topics' \in [Slots -> Maybe(MsgIds)]
           /\ IsFiniteSet(messages')
           /\ TopicSlotsExact'
<1>1. /\ messages' = messages \ gone
      /\ topics' = [s \in Slots |->
                      IF \E m \in gone : Slot(m) = s THEN None ELSE topics[s]]
  BY DEF remove_message
<1>2. messages' \subseteq Message
  BY <1>1 DEF StoreInv, StoreTypeOK
<1>3. topics' \in [Slots -> Maybe(MsgIds)]
  BY <1>1 DEF StoreInv, StoreTypeOK, Maybe
<1>4. IsFiniteSet(messages')
  BY <1>1, FS_Subset DEF StoreInv, MailApart
<1>5. ASSUME NEW s \in Slots, topics'[s] # None
      PROVE  \E m \in messages' : m.id = topics'[s] /\ Slot(m) = s
  <2>1. topics'[s] = topics[s] /\ ~\E m \in gone : Slot(m) = s
    BY <1>1, <1>5
  <2>2. PICK m \in messages : m.id = topics[s] /\ Slot(m) = s
    BY <2>1, <1>5 DEF StoreInv, TopicSlotsExact
  <2> QED
    BY <2>1, <2>2, <1>1
<1>6. ASSUME NEW m \in messages', m.topic # None
      PROVE  topics'[Slot(m)] = m.id
  <2>1. m \in messages /\ m \notin gone /\ m \in Message
    BY <1>1 DEF StoreInv, StoreTypeOK
  <2>2. Slot(m) \in Slots
    BY <2>1, <1>6 DEF Slot, Slots, Message, Maybe
  <2>3. topics[Slot(m)] = m.id
    BY <2>1, <1>6 DEF StoreInv, TopicSlotsExact
  <2>4. ASSUME NEW g \in gone, Slot(g) = Slot(m)
        PROVE  FALSE
    <3>1. g \in messages /\ g.topic # None
      BY <2>4, <1>6 DEF Slot
    <3>2. topics[Slot(g)] = g.id
      BY <3>1 DEF StoreInv, TopicSlotsExact
    <3>3. g = m
      BY <3>1, <3>2, <2>1, <2>3, <2>4 DEF StoreInv, MailApart
    <3> QED
      BY <3>3, <2>1
  <2> QED
    BY <1>1, <2>2, <2>3, <2>4
<1> QED
  BY <1>2, <1>3, <1>4, <1>5, <1>6 DEF TopicSlotsExact

\* Removing messages while queueing their 410 receipts: the heart of expiry,
\* unsubscription and the deletion of user agents.
LEMMA SettlingKeepsMail ==
    ASSUME StoreInv, NEW gone \in SUBSET messages, remove_message(gone),
           owe_410(gone), UNCHANGED <<receipt_subs, issued, returned>>
    PROVE  MailInv'
<1> DEFINE owed == {m \in gone : m.rsub \in receipt_subs}
<1>0. messages \subseteq Message /\ IsFiniteSet(messages)
  BY DEF StoreInv, StoreTypeOK, MailApart
<1>1. owed \in SUBSET Message /\ owed \subseteq messages /\ IsFiniteSet(owed)
      /\ \A m \in owed : m.rsub \in receipt_subs
  BY <1>0, FS_Subset
<1>2. PICK order \in next_seq(owed) : Queue(owed, order, 410)
  BY DEF owe_410
<1>3. StoreTypeOK
  BY DEF StoreInv
<1> HIDE DEF owed
<1>4. /\ last_seq' \in Nat /\ last_seq <= last_seq'
      /\ receipts' \subseteq Receipt
      /\ settled' \subseteq Receipt
      /\ receipts \subseteq receipts'
      /\ settled \subseteq settled'
      /\ \A q \in settled' \ settled :
            /\ q.seq > last_seq /\ q.seq <= last_seq'
            /\ q.rsub \in receipt_subs
            /\ \E m \in owed : q.msg_id = m.id
      /\ \A q \in receipts' : q \in receipts \/ (q \in settled' /\ q.rsub \in receipt_subs)
      /\ \A q \in settled' : q \in settled \/ \E m \in owed :
            q = [rsub |-> m.rsub, seq |-> order[m], msg_id |-> m.id, status |-> 410]
  BY <1>1, <1>2, <1>3, QueuedReceipts
<1>5. /\ messages' \subseteq Message
      /\ topics' \in [Slots -> Maybe(MsgIds)]
      /\ IsFiniteSet(messages')
      /\ TopicSlotsExact'
  BY RemovalKeepsSlots
<1>6. messages' = messages \ gone /\ owed \subseteq gone
  BY DEF remove_message, owed
<1>7. MailTypeOK'
  BY <1>4, <1>5 DEF MailTypeOK
<1>8. MailApart'
  <2>1. \A q \in settled' : q.msg_id \in issued
    BY <1>1, <1>4 DEF StoreInv, MailApart, Ids
  <2> QED
    BY <2>1, <1>5, <1>6 DEF StoreInv, MailApart, Ids
<1>9. OneOutcome'
  <2>1. ASSUME NEW q \in settled'
        PROVE  q.msg_id \notin Ids(messages') \cup {a.msg.id : a \in returned}
    <3>1. CASE q \in settled
      BY <3>1, <1>6 DEF StoreInv, OneOutcome, Ids
    <3>2. CASE q \notin settled
      <4>1. PICK m \in owed : q.msg_id = m.id
        BY <3>2, <1>4
      <4>2. m \in messages /\ m \notin messages'
        BY <1>6, <1>1, <4>1
      <4>3. m.id \notin Ids(messages')
        BY <4>2, <1>6 DEF StoreInv, MailApart, Ids
      <4>4. m.id \notin {a.msg.id : a \in returned}
        BY <4>2 DEF StoreInv, MailApart, Ids
      <4> QED
        BY <4>1, <4>3, <4>4
    <3> QED
      BY <3>1, <3>2
  <2>2. ASSUME NEW q \in settled', NEW r \in settled', q.msg_id = r.msg_id
        PROVE  q = r
    <3>1. CASE q \in settled /\ r \in settled
      BY <3>1, <2>2 DEF StoreInv, OneOutcome
    <3>2. ASSUME NEW x \in settled, NEW y \in settled', y \notin settled
          PROVE  x.msg_id # y.msg_id
      <4>1. PICK m \in owed : y.msg_id = m.id
        BY <3>2, <1>4
      <4>2. x.msg_id \notin Ids(messages)
        BY DEF StoreInv, OneOutcome
      <4> QED
        BY <4>1, <4>2, <1>1 DEF Ids
    <3>3. CASE q \notin settled /\ r \notin settled
      <4>1. PICK m \in owed :
               q = [rsub |-> m.rsub, seq |-> order[m], msg_id |-> m.id, status |-> 410]
        BY <3>3, <1>4
      <4>2. PICK n \in owed :
               r = [rsub |-> n.rsub, seq |-> order[n], msg_id |-> n.id, status |-> 410]
        BY <3>3, <1>4
      <4>3. m = n
        BY <4>1, <4>2, <2>2, <1>1 DEF StoreInv, MailApart
      <4> QED
        BY <4>1, <4>2, <4>3
    <3> QED
      BY <3>1, <3>2, <3>3, <2>2
  <2> QED
    BY <2>1, <2>2 DEF OneOutcome
<1>10. QueuesOwned'
  BY <1>4 DEF StoreInv, QueuesOwned
<1>11. QueueBounded'
  <2>1. \A q \in settled' : q.seq <= last_seq'
    <3>1. ASSUME NEW q \in settled
          PROVE  q.seq <= last_seq'
      <4>1. q.seq \in Nat /\ q.seq <= last_seq /\ last_seq \in Nat
        BY DEF StoreInv, StoreTypeOK, QueueBounded, Receipt
      <4> QED
        BY <4>1, <1>4
    <3> QED
      BY <3>1, <1>4
  <2> QED
    BY <2>1, <1>4, <1>2 DEF Queue, StoreInv, QueueBounded
<1> QED
  BY <1>5, <1>7, <1>8, <1>9, <1>10, <1>11 DEF MailInv

\* Accepting a message, with or without a topic.
LEMMA InsertKeepsMail ==
    ASSUME StoreInv, NEW m \in Message, insert_message(m)
    PROVE  MailInv' /\ issued' \subseteq Uaids \cup MsgIds \cup Rsubs
<1> DEFINE old == IF m.topic = None THEN None ELSE topics[Slot(m)]
<1>1. /\ m.id \notin issued
      /\ issued' = issued \cup {m.id}
      /\ messages' = {x \in messages : x.id # old} \cup {m}
      /\ topics' = [s \in Slots |-> IF s = Slot(m) THEN m.id ELSE topics[s]]
      /\ UNCHANGED <<returned, receipt_subs, receipts, last_seq, settled>>
  BY DEF insert_message, accountVars, receiptVars
<1>2. m.id \in MsgIds /\ m.id # None
  BY NoneAssumption DEF Message
<1>3. /\ messages \subseteq Message /\ topics \in [Slots -> Maybe(MsgIds)]
      /\ receipts \subseteq Receipt /\ last_seq \in Nat /\ settled \subseteq Receipt
      /\ issued \subseteq Uaids \cup MsgIds \cup Rsubs
  BY DEF StoreInv, StoreTypeOK
<1>4. IsFiniteSet(messages')
  <2>1. IsFiniteSet({x \in messages : x.id # old})
    BY FS_Subset DEF StoreInv, MailApart
  <2> QED
    BY <2>1, <1>1, FS_AddElement
<1>5. MailTypeOK' /\ issued' \subseteq Uaids \cup MsgIds \cup Rsubs
  BY <1>1, <1>2, <1>3 DEF MailTypeOK, Maybe
<1>6. m.id \notin Ids(messages)
  BY <1>1 DEF StoreInv, MailApart
<1>7. MailApart'
  BY <1>1, <1>4, <1>6 DEF StoreInv, MailApart, Ids
<1>8. ASSUME NEW s \in Slots, topics'[s] # None
      PROVE  \E x \in messages' : x.id = topics'[s] /\ Slot(x) = s
  <2>1. CASE s = Slot(m)
    BY <2>1, <1>1
  <2>2. CASE s # Slot(m)
    <3>1. topics'[s] = topics[s]
      BY <2>2, <1>1
    <3>2. PICK x \in messages : x.id = topics[s] /\ Slot(x) = s
      BY <3>1, <1>8 DEF StoreInv, TopicSlotsExact
    <3>3. x.id # old
      <4>1. CASE m.topic = None
        BY <4>1, <3>2, <3>1, <1>8
      <4>2. CASE m.topic # None /\ topics[Slot(m)] = None
        BY <4>2, <3>1, <3>2, <1>8
      <4>3. CASE m.topic # None /\ topics[Slot(m)] # None
        <5>1. Slot(m) \in Slots
          BY <4>3 DEF Slot, Slots, Message, Maybe
        <5>2. PICK y \in messages : y.id = topics[Slot(m)] /\ Slot(y) = Slot(m)
          BY <4>3, <5>1 DEF StoreInv, TopicSlotsExact
        <5>3. x # y
          BY <3>2, <5>2, <2>2
        <5>4. x.id # y.id
          BY <3>2, <5>2, <5>3 DEF StoreInv, MailApart
        <5> QED
          BY <5>2, <5>4, <4>3
      <4> QED
        BY <4>1, <4>2, <4>3
    <3> QED
      BY <3>1, <3>2, <3>3, <1>1
  <2> QED
    BY <2>1, <2>2
<1>9. ASSUME NEW x \in messages', x.topic # None
      PROVE  topics'[Slot(x)] = x.id
  <2>1. x \in Message
    BY <1>1, <1>3
  <2>2. Slot(x) \in Slots
    BY <2>1, <1>9 DEF Slot, Slots, Message, Maybe
  <2>3. CASE x = m
    BY <2>2, <2>3, <1>1
  <2>4. CASE x # m
    <3>1. x \in messages /\ x.id # old
      BY <2>4, <1>1
    <3>2. topics[Slot(x)] = x.id
      BY <3>1, <1>9 DEF StoreInv, TopicSlotsExact
    <3>3. ASSUME Slot(x) = Slot(m)
          PROVE  FALSE
      <4>1. m.topic # None
        BY <3>3, <1>9 DEF Slot
      <4> QED
        BY <4>1, <3>1, <3>2, <3>3
    <3> QED
      BY <3>2, <3>3, <2>2, <1>1
  <2> QED
    BY <2>3, <2>4
<1>10. TopicSlotsExact'
  BY <1>8, <1>9 DEF TopicSlotsExact
<1>11. OneOutcome'
  BY <1>1 DEF StoreInv, OneOutcome, MailApart, Ids
<1>12. QueuesOwned' /\ QueueBounded'
  BY <1>1 DEF StoreInv, QueuesOwned, QueueBounded
<1> QED
  BY <1>5, <1>7, <1>10, <1>11, <1>12 DEF MailInv

\* Taking a message out for an acknowledgement or a withdrawal.
LEMMA DeleteKeepsMail ==
    ASSUME StoreInv, NEW id \in MsgIds, NEW owner, delete_message(id, owner)
    PROVE  MailInv' /\ returned' \subseteq [msg : Message, acked : BOOLEAN]
<1>1. PICK m \in messages :
        /\ m.id = id
        /\ remove_message({m})
        /\ returned' = returned \cup
              {[msg |-> x, acked |-> owner # None] : x \in {y \in {m} : y.rsub # None}}
        /\ UNCHANGED <<accountVars, receipt_subs, routes, issued, receiptVars>>
  BY DEF delete_message
<1>2. /\ messages' \subseteq Message
      /\ topics' \in [Slots -> Maybe(MsgIds)]
      /\ IsFiniteSet(messages')
      /\ TopicSlotsExact'
  BY <1>1, RemovalKeepsSlots
<1>3. UNCHANGED <<receipt_subs, issued, receipts, last_seq, settled>>
  BY <1>1 DEF receiptVars
<1>4. messages' = messages \ {m}
  BY <1>1 DEF remove_message
<1>5. m \in Message
  BY DEF StoreInv, StoreTypeOK
<1>6. \A a \in returned' : a \in returned \/ (a.msg = m /\ a = [msg |-> m, acked |-> owner # None])
  BY <1>1
<1>7. returned' \subseteq [msg : Message, acked : BOOLEAN]
  <2>1. (owner # None) \in BOOLEAN
    OBVIOUS
  <2>2. [msg |-> m, acked |-> owner # None] \in [msg : Message, acked : BOOLEAN]
    BY <2>1, <1>5, Zenon
  <2>3. returned \subseteq [msg : Message, acked : BOOLEAN]
    BY DEF StoreInv, StoreTypeOK
  <2> QED
    BY <2>2, <2>3, <1>6
<1>8. m.id \notin Ids(messages') /\ \A a \in returned : a.msg.id # m.id
  BY <1>4 DEF StoreInv, MailApart, Ids
<1>9. MailTypeOK'
  BY <1>2, <1>3 DEF MailTypeOK, StoreInv, StoreTypeOK
<1>10. MailApart'
  <2>1. \A a \in returned' : a.msg.id \in issued /\ a.msg.id \notin Ids(messages')
    BY <1>4, <1>6, <1>8 DEF StoreInv, MailApart, Ids
  <2>2. \A a, b \in returned' : a.msg.id = b.msg.id => a = b
    BY <1>6, <1>8 DEF StoreInv, MailApart
  <2> QED
    BY <2>1, <2>2, <1>2, <1>3, <1>4 DEF StoreInv, MailApart, Ids
<1>11. OneOutcome'
  <2>1. \A q \in settled : q.msg_id # m.id
    BY DEF StoreInv, OneOutcome, Ids
  <2> QED
    BY <2>1, <1>3, <1>4, <1>6 DEF StoreInv, OneOutcome, Ids
<1>12. QueuesOwned' /\ QueueBounded'
  BY <1>3 DEF StoreInv, QueuesOwned, QueueBounded
<1> QED
  BY <1>2, <1>7, <1>9, <1>10, <1>11, <1>12 DEF MailInv

\* The session that took a message out queues its receipt.
LEMMA EnqueueKeepsMail ==
    ASSUME StoreInv, NEW a \in returned, NEW status \in {204, 410},
           enqueue_receipt(a, status)
    PROVE  MailInv'
<1> DEFINE owed == {m \in {a.msg} : m.rsub \in receipt_subs}
<1>1. PICK order \in next_seq(owed) : Queue(owed, order, status)
  BY DEF enqueue_receipt
<1>2. /\ returned' = returned \ {a}
      /\ UNCHANGED <<receipt_subs, issued, messages, topics>>
  BY DEF enqueue_receipt, mailVars
<1>3. StoreTypeOK /\ a.msg \in Message
  <2>1. StoreTypeOK
    BY DEF StoreInv
  <2>2. a \in [msg : Message, acked : BOOLEAN]
    BY <2>1 DEF StoreTypeOK
  <2> QED
    BY <2>1, <2>2
<1>4. /\ owed \in SUBSET Message /\ IsFiniteSet(owed)
      /\ \A m \in owed : m = a.msg /\ m.rsub \in receipt_subs
  <2>1. IsFiniteSet({a.msg})
    BY FS_Singleton
  <2> QED
    BY <2>1, <1>3, FS_Subset
<1> HIDE DEF owed
<1>5. /\ last_seq' \in Nat /\ last_seq <= last_seq'
      /\ receipts' \subseteq Receipt
      /\ settled' \subseteq Receipt
      /\ \A q \in settled' \ settled : q.seq > last_seq /\ q.seq <= last_seq'
      /\ \A q \in receipts' : q \in receipts \/ (q \in settled' /\ q.rsub \in receipt_subs)
      /\ \A q \in settled' : q \in settled \/ \E m \in owed :
            q = [rsub |-> m.rsub, seq |-> order[m], msg_id |-> m.id, status |-> status]
      /\ settled \subseteq settled'
  BY <1>1, <1>3, <1>4, QueuedReceipts
<1>6. \A q \in settled' : q \in settled \/
         q = [rsub |-> a.msg.rsub, seq |-> order[a.msg], msg_id |-> a.msg.id, status |-> status]
  BY <1>4, <1>5
<1>7. MailTypeOK'
  BY <1>2, <1>5 DEF MailTypeOK, StoreInv, StoreTypeOK
<1>8. MailApart'
  <2>1. \A q \in settled' : q.msg_id \in issued
    BY <1>6 DEF StoreInv, MailApart
  <2> QED
    BY <2>1, <1>2 DEF StoreInv, MailApart, Ids
<1>9. TopicSlotsExact'
  BY <1>2 DEF StoreInv, TopicSlotsExact
<1>10. OneOutcome'
  <2>1. \A q \in settled : q.msg_id # a.msg.id
    BY DEF StoreInv, OneOutcome
  <2>2. a.msg.id \notin Ids(messages)
    BY DEF StoreInv, MailApart
  <2>3. \A b \in returned' : b.msg.id # a.msg.id
    BY <1>2 DEF StoreInv, MailApart
  <2>4. ASSUME NEW q \in settled'
        PROVE  q.msg_id \notin Ids(messages') \cup {b.msg.id : b \in returned'}
    BY <2>2, <2>3, <1>2, <1>6 DEF StoreInv, OneOutcome, Ids
  <2>5. ASSUME NEW q \in settled', NEW r \in settled', q.msg_id = r.msg_id
        PROVE  q = r
    BY <2>1, <2>5, <1>6 DEF StoreInv, OneOutcome
  <2> QED
    BY <2>4, <2>5 DEF OneOutcome
<1>11. QueuesOwned'
  BY <1>2, <1>5 DEF StoreInv, QueuesOwned
<1>12. QueueBounded'
  <2>1. ASSUME NEW q \in settled
        PROVE  q.seq <= last_seq'
    <3>1. q.seq \in Nat /\ q.seq <= last_seq /\ last_seq \in Nat
      BY DEF StoreInv, StoreTypeOK, QueueBounded, Receipt
    <3> QED
      BY <3>1, <1>5
  <2> QED
    BY <2>1, <1>1, <1>5 DEF Queue, StoreInv, QueueBounded
<1> QED
  BY <1>7, <1>8, <1>9, <1>10, <1>11, <1>12 DEF MailInv

\* Steps that add no mail: ids may be issued, receipts and returned messages
\* may go, and with a receipt subscription its whole queue.
LEMMA ShrinkingKeepsMail ==
    ASSUME StoreInv, UNCHANGED <<messages, topics, last_seq, settled>>,
           issued \subseteq issued', returned' \subseteq returned,
           receipts' \subseteq receipts,
           \A q \in receipts' : q.rsub \in receipt_subs'
    PROVE  MailInv'
<1>1. MailTypeOK'
  BY DEF MailTypeOK, StoreInv, StoreTypeOK
<1>2. MailApart'
  BY DEF StoreInv, MailApart, Ids
<1>3. TopicSlotsExact'
  BY DEF StoreInv, TopicSlotsExact
<1>4. OneOutcome'
  BY DEF StoreInv, OneOutcome, Ids
<1>5. QueuesOwned' /\ QueueBounded'
  BY DEF StoreInv, QueuesOwned, QueueBounded
<1> QED
  BY <1>1, <1>2, <1>3, <1>4, <1>5 DEF MailInv

------------------------------------------------------------------------------
(***************************************************************************)
(* The accounts: user agents, subscriptions and the push index.            *)
(***************************************************************************)

AccountInv ==
    /\ user_agents \in [Uaids -> Maybe(UserAgent)]
    /\ channels \subseteq Subscription
    /\ push \in [PushIds -> Maybe(Uaids \X ChannelIds)]
    /\ granted \subseteq Subscription
    /\ PushIndexed

\* Steps on mail, receipts and routes leave the accounts alone.
LEMMA UnchangedKeepsAccounts ==
    ASSUME StoreInv, UNCHANGED accountVars
    PROVE  AccountInv'
BY DEF StoreInv, StoreTypeOK, AccountInv, PushIndexed, accountVars

\* A user agent is created or updated.
LEMMA UserAgentKeepsAccounts ==
    ASSUME StoreInv, NEW u \in Uaids, NEW ua \in UserAgent,
           user_agents' = [user_agents EXCEPT ![u] = ua],
           UNCHANGED <<channels, push, granted>>
    PROVE  AccountInv'
BY DEF StoreInv, StoreTypeOK, AccountInv, PushIndexed, Maybe

\* Dropping subscriptions clears exactly their push ids.
LEMMA RemovalKeepsAccounts ==
    ASSUME StoreInv, NEW subs \in SUBSET channels, remove_subscription(subs),
           user_agents' \in [Uaids -> Maybe(UserAgent)], UNCHANGED granted
    PROVE  AccountInv'
<1>1. /\ channels' = channels \ subs
      /\ push' = [p \in PushIds |->
                    IF \E s \in subs : s.push = p THEN None ELSE push[p]]
  BY DEF remove_subscription
<1>2. /\ channels \subseteq Subscription /\ granted \subseteq Subscription
      /\ push \in [PushIds -> Maybe(Uaids \X ChannelIds)]
  BY DEF StoreInv, StoreTypeOK
<1>3. push' \in [PushIds -> Maybe(Uaids \X ChannelIds)]
  BY <1>1, <1>2 DEF Maybe
<1>4. ASSUME NEW s \in channels'
      PROVE  push'[s.push] = <<s.uaid, s.channel_id>>
  <2>1. s \in channels /\ s \notin subs /\ s.push \in PushIds
    BY <1>1, <1>2 DEF Subscription
  <2>2. ~\E t \in subs : t.push = s.push
    BY <2>1 DEF StoreInv, PushIndexed
  <2> QED
    BY <2>1, <2>2, <1>1 DEF StoreInv, PushIndexed
<1>5. PushIndexed'
  BY <1>1, <1>4 DEF StoreInv, PushIndexed
<1> QED
  BY <1>1, <1>2, <1>3, <1>5 DEF AccountInv

\* A new subscription takes the place of one with the same key.
LEMMA CreationKeepsAccounts ==
    ASSUME StoreInv, NEW s \in Subscription, create_subscription(s)
    PROVE  AccountInv'
<1>1. /\ s.push \notin {g.push : g \in granted}
      /\ push' = [push EXCEPT ![s.push] = <<s.uaid, s.channel_id>>]
      /\ channels' = {c \in channels : <<c.uaid, c.channel_id>> # <<s.uaid, s.channel_id>>}
                     \cup {s}
      /\ granted' = granted \cup {s}
      /\ user_agents' = user_agents
  BY DEF create_subscription
<1>2. /\ channels \subseteq Subscription /\ granted \subseteq Subscription
      /\ push \in [PushIds -> Maybe(Uaids \X ChannelIds)]
      /\ user_agents \in [Uaids -> Maybe(UserAgent)]
  BY DEF StoreInv, StoreTypeOK
<1>3. s.push \in PushIds /\ <<s.uaid, s.channel_id>> \in Uaids \X ChannelIds
  BY DEF Subscription
<1>4. push' \in [PushIds -> Maybe(Uaids \X ChannelIds)]
  BY <1>1, <1>2, <1>3 DEF Maybe
<1>5. \A c \in channels' : c = s \/
        (c \in channels /\ ~(c.uaid = s.uaid /\ c.channel_id = s.channel_id) /\ c.push # s.push)
  BY <1>1 DEF StoreInv, PushIndexed
<1>6. \A c \in channels' : push'[c.push] = <<c.uaid, c.channel_id>>
  BY <1>1, <1>2, <1>3, <1>5 DEF StoreInv, PushIndexed, Subscription
<1>7. \A c, d \in channels' : c.uaid = d.uaid /\ c.channel_id = d.channel_id => c = d
  BY <1>5 DEF StoreInv, PushIndexed
<1>8. channels' \subseteq granted' /\ \A g, h \in granted' : g.push = h.push => g = h
  BY <1>1 DEF StoreInv, PushIndexed
<1>9. PushIndexed'
  BY <1>6, <1>7, <1>8 DEF PushIndexed
<1> QED
  BY <1>1, <1>2, <1>4, <1>9 DEF AccountInv

------------------------------------------------------------------------------
(***************************************************************************)
(* The invariant is inductive.                                             *)
(***************************************************************************)

\* What neither MailInv nor AccountInv types.
RestTypeOK ==
    /\ receipt_subs \subseteq Rsubs
    /\ routes \in [Recipients -> Maybe(Nodes)]
    /\ issued \subseteq Uaids \cup MsgIds \cup Rsubs
    /\ returned \subseteq [msg : Message, acked : BOOLEAN]

\* The three parts together are the invariant.
LEMMA PartsMakeInv ==
    ASSUME MailInv', AccountInv', RestTypeOK'
    PROVE  StoreInv'
BY DEF MailInv, MailTypeOK, AccountInv, RestTypeOK, StoreInv, StoreTypeOK

\* The part of the invariant that most steps only carry over.
LEMMA InvMakesRest ==
    ASSUME StoreInv
    PROVE  RestTypeOK
BY DEF StoreInv, StoreTypeOK, RestTypeOK

\* MemoryStore::new makes an empty store, which satisfies the invariant.
LEMMA InitMakesInv ==
    ASSUME StoreInit
    PROVE  StoreInv
<1>1. StoreTypeOK
  BY DEF StoreInit, StoreTypeOK, Maybe
<1>2. MailApart
  BY FS_EmptySet DEF StoreInit, MailApart, Ids
<1>3. TopicSlotsExact /\ OneOutcome /\ QueuesOwned /\ QueueBounded /\ PushIndexed
  BY DEF StoreInit, TopicSlotsExact, OneOutcome, QueuesOwned, QueueBounded,
         PushIndexed
<1> QED
  BY <1>1, <1>2, <1>3 DEF StoreInv

\* Both the deletion of one subscription and that of user agents come here.
LEMMA RemovalKeepsInv ==
    ASSUME StoreInv, NEW subs \in SUBSET channels, remove_subscription(subs),
           user_agents' \in [Uaids -> Maybe(UserAgent)],
           UNCHANGED <<receipt_subs, routes, issued, granted, returned>>
    PROVE  StoreInv'
<1> DEFINE gone == {m \in messages : \E s \in subs :
                      m.uaid = s.uaid /\ m.channel_id = s.channel_id}
<1>1. gone \in SUBSET messages /\ remove_message(gone) /\ owe_410(gone)
  BY DEF remove_subscription
<1> HIDE DEF gone
<1>2. MailInv'
  BY <1>1, SettlingKeepsMail
<1>3. AccountInv'
  BY RemovalKeepsAccounts
<1>4. RestTypeOK'
  BY InvMakesRest DEF RestTypeOK
<1> QED
  BY <1>2, <1>3, <1>4, PartsMakeInv

\* Deleting a user agent, and expiring any set of them.
LEMMA UserAgentRemovalKeepsInv ==
    ASSUME StoreInv, NEW uaids, remove_user_agent(uaids)
    PROVE  StoreInv'
<1>1. user_agents \in [Uaids -> Maybe(UserAgent)]
  BY DEF StoreInv, StoreTypeOK
<1>2. user_agents' \in [Uaids -> Maybe(UserAgent)]
  BY <1>1 DEF remove_user_agent, Maybe
<1> QED
  BY <1>2, RemovalKeepsInv DEF remove_user_agent

\* A user agent is written and nothing else but the issued ids.
LEMMA UserAgentKeepsInv ==
    ASSUME StoreInv, NEW u \in Uaids, NEW ua \in UserAgent,
           user_agents' = [user_agents EXCEPT ![u] = ua],
           issued \subseteq issued', issued' \subseteq issued \cup {u},
           UNCHANGED <<channels, push, granted, returned, receipt_subs, routes,
                       receiptVars, mailVars>>
    PROVE  StoreInv'
<1>1. AccountInv'
  BY UserAgentKeepsAccounts
<1>2. UNCHANGED <<messages, topics, last_seq, settled, receipts, returned, receipt_subs>>
  BY DEF receiptVars, mailVars
<1>3. \A q \in receipts' : q.rsub \in receipt_subs'
  BY <1>2 DEF StoreInv, QueuesOwned
<1>4. MailInv'
  BY <1>2, <1>3, ShrinkingKeepsMail
<1>5. RestTypeOK'
  BY InvMakesRest DEF RestTypeOK
<1> QED
  BY <1>1, <1>4, <1>5, PartsMakeInv

\* Every operation of the store, with whatever arguments, keeps the invariant.
LEMMA StepKeepsInv ==
    ASSUME StoreInv, StoreNext
    PROVE  StoreInv'
<1> USE InvMakesRest
<1>0. /\ user_agents \in [Uaids -> Maybe(UserAgent)]
      /\ \A q \in receipts : q.rsub \in receipt_subs
  BY DEF StoreInv, StoreTypeOK, QueuesOwned
<1>1. ASSUME NEW u \in Uaids, NEW ua \in UserAgent, create_user_agent(u, ua)
      PROVE  StoreInv'
  BY <1>1, UserAgentKeepsInv DEF create_user_agent
<1>2. ASSUME NEW u \in Uaids, NEW now \in Times, touch_user_agent(u, now)
      PROVE  StoreInv'
  <2> DEFINE ua == [user_agents[u] EXCEPT !.last_seen = IF now > @ THEN now ELSE @]
  <2>1. user_agents[u] \in UserAgent
    BY <1>0, <1>2 DEF touch_user_agent, Maybe
  <2>2. ua \in UserAgent
    BY <2>1 DEF UserAgent
  <2>3. user_agents' = [user_agents EXCEPT ![u] = ua]
    BY <1>2 DEF touch_user_agent
  <2> HIDE DEF ua
  <2> QED
    BY <1>2, <2>2, <2>3, UserAgentKeepsInv DEF touch_user_agent
<1>3. ASSUME NEW u \in Uaids, NEW t \in Tokens, update_bridge_token(u, t)
      PROVE  StoreInv'
  <2> DEFINE ua == [user_agents[u] EXCEPT !.bridge = t]
  <2>1. user_agents[u] \in UserAgent
    BY <1>0, <1>3 DEF update_bridge_token, Maybe
  <2>2. ua \in UserAgent
    BY <2>1 DEF UserAgent, Maybe
  <2>3. user_agents' = [user_agents EXCEPT ![u] = ua]
    BY <1>3 DEF update_bridge_token
  <2> HIDE DEF ua
  <2> QED
    BY <1>3, <2>2, <2>3, UserAgentKeepsInv DEF update_bridge_token
<1>4. ASSUME NEW u \in Uaids, delete_user_agent(u)
      PROVE  StoreInv'
  BY <1>4, UserAgentRemovalKeepsInv DEF delete_user_agent
<1>5. ASSUME NEW cutoff \in Times, expire_user_agents(cutoff)
      PROVE  StoreInv'
  BY <1>5, UserAgentRemovalKeepsInv DEF expire_user_agents
<1>6. ASSUME NEW s \in Subscription, create_subscription(s)
      PROVE  StoreInv'
  <2>1. AccountInv'
    BY <1>6, CreationKeepsAccounts
  <2>2. UNCHANGED <<messages, topics, last_seq, settled, receipts, returned,
                    receipt_subs, issued, routes>>
    BY <1>6 DEF create_subscription, receiptVars, mailVars
  <2>3. MailInv'
    BY <1>0, <2>2, ShrinkingKeepsMail
  <2>4. RestTypeOK'
    BY <2>2 DEF RestTypeOK
  <2> QED
    BY <2>1, <2>3, <2>4, PartsMakeInv
<1>7. ASSUME NEW u \in Uaids, NEW ch \in ChannelIds, delete_subscription(u, ch)
      PROVE  StoreInv'
  BY <1>0, <1>7, RemovalKeepsInv DEF delete_subscription
<1>8. ASSUME NEW m \in Message, insert_message(m)
      PROVE  StoreInv'
  <2>1. MailInv' /\ issued' \subseteq Uaids \cup MsgIds \cup Rsubs
    BY <1>8, InsertKeepsMail
  <2>2. UNCHANGED <<accountVars, returned, receipt_subs, routes>>
    BY <1>8 DEF insert_message
  <2>3. AccountInv' /\ RestTypeOK'
    BY <2>1, <2>2, UnchangedKeepsAccounts DEF RestTypeOK
  <2> QED
    BY <2>1, <2>3, PartsMakeInv
<1>9. ASSUME NEW id \in MsgIds, NEW owner, delete_message(id, owner)
      PROVE  StoreInv'
  <2>1. MailInv' /\ returned' \subseteq [msg : Message, acked : BOOLEAN]
    BY <1>9, DeleteKeepsMail
  <2>2. UNCHANGED <<accountVars, receipt_subs, routes, issued>>
    BY <1>9 DEF delete_message
  <2>3. AccountInv' /\ RestTypeOK'
    BY <2>1, <2>2, UnchangedKeepsAccounts DEF RestTypeOK
  <2> QED
    BY <2>1, <2>3, PartsMakeInv
<1>10. ASSUME NEW now \in Times, reap(now)
       PROVE  StoreInv'
  <2> DEFINE expired == {m \in messages : m.expiry <= now}
  <2>1. /\ expired \in SUBSET messages /\ remove_message(expired) /\ owe_410(expired)
        /\ UNCHANGED <<accountVars, receipt_subs, routes, issued, returned>>
    BY <1>10 DEF reap
  <2> HIDE DEF expired
  <2>2. MailInv'
    BY <2>1, SettlingKeepsMail
  <2>3. AccountInv' /\ RestTypeOK'
    BY <2>1, UnchangedKeepsAccounts DEF RestTypeOK
  <2> QED
    BY <2>2, <2>3, PartsMakeInv
<1>11. ASSUME NEW r \in Rsubs, create_receipt_sub(r)
       PROVE  StoreInv'
  <2>1. UNCHANGED <<messages, topics, last_seq, settled, receipts, returned,
                    routes, accountVars>>
        /\ receipt_subs' = receipt_subs \cup {r} /\ issued' = issued \cup {r}
    BY <1>11 DEF create_receipt_sub, receiptVars, mailVars
  <2>2. MailInv'
    BY <1>0, <2>1, ShrinkingKeepsMail
  <2>3. AccountInv' /\ RestTypeOK'
    BY <2>1, UnchangedKeepsAccounts DEF RestTypeOK
  <2> QED
    BY <2>2, <2>3, PartsMakeInv
<1>12. ASSUME NEW r \in Rsubs, delete_receipt_sub(r)
       PROVE  StoreInv'
  <2>1. /\ UNCHANGED <<messages, topics, last_seq, settled, returned, routes,
                       accountVars, issued>>
        /\ receipt_subs' = receipt_subs \ {r}
        /\ receipts' = {q \in receipts : q.rsub # r}
    BY <1>12 DEF delete_receipt_sub, mailVars
  <2>2. MailInv'
    BY <1>0, <2>1, ShrinkingKeepsMail
  <2>3. AccountInv' /\ RestTypeOK'
    BY <2>1, UnchangedKeepsAccounts DEF RestTypeOK
  <2> QED
    BY <2>2, <2>3, PartsMakeInv
<1>13. ASSUME NEW a \in returned, NEW status \in {204, 410}, enqueue_receipt(a, status)
       PROVE  StoreInv'
  <2>1. MailInv'
    BY <1>13, EnqueueKeepsMail
  <2>2. returned' \subseteq returned /\ UNCHANGED <<accountVars, receipt_subs, routes, issued>>
    BY <1>13 DEF enqueue_receipt
  <2>3. AccountInv' /\ RestTypeOK'
    BY <2>2, UnchangedKeepsAccounts DEF RestTypeOK
  <2> QED
    BY <2>1, <2>3, PartsMakeInv
<1>14. ASSUME NEW a \in returned, withdraw_done(a)
       PROVE  StoreInv'
  <2>1. /\ UNCHANGED <<messages, topics, last_seq, settled, receipts, routes,
                       accountVars, issued, receipt_subs>>
        /\ returned' \subseteq returned
    BY <1>14 DEF withdraw_done, mailVars, receiptVars
  <2>2. MailInv'
    BY <1>0, <2>1, ShrinkingKeepsMail
  <2>3. AccountInv' /\ RestTypeOK'
    BY <2>1, UnchangedKeepsAccounts DEF RestTypeOK
  <2> QED
    BY <2>2, <2>3, PartsMakeInv
<1>15. ASSUME NEW q \in receipts, delete_receipt(q)
       PROVE  StoreInv'
  <2>1. /\ UNCHANGED <<messages, topics, last_seq, settled, routes, returned,
                       accountVars, issued, receipt_subs>>
        /\ receipts' \subseteq receipts
    BY <1>15 DEF delete_receipt, mailVars
  <2>2. MailInv'
    BY <1>0, <2>1, ShrinkingKeepsMail
  <2>3. AccountInv' /\ RestTypeOK'
    BY <2>1, UnchangedKeepsAccounts DEF RestTypeOK
  <2> QED
    BY <2>2, <2>3, PartsMakeInv
<1>16. ASSUME NEW to \in Recipients, NEW n \in Nodes,
              set_route(to, n) \/ clear_route(to, n)
       PROVE  StoreInv'
  <2>1. UNCHANGED <<messages, topics, last_seq, settled, receipts, returned,
                    accountVars, issued, receipt_subs>>
    BY <1>16 DEF set_route, clear_route, mailVars, receiptVars
  <2>2. routes' \in [Recipients -> Maybe(Nodes)]
    BY <1>16 DEF set_route, clear_route, RestTypeOK, Maybe
  <2>3. MailInv'
    BY <1>0, <2>1, ShrinkingKeepsMail
  <2>4. AccountInv' /\ RestTypeOK'
    BY <2>1, <2>2, UnchangedKeepsAccounts DEF RestTypeOK
  <2> QED
    BY <2>3, <2>4, PartsMakeInv
<1> QED
  BY <1>1, <1>2, <1>3, <1>4, <1>5, <1>6, <1>7, <1>8, <1>9, <1>10, <1>11,
     <1>12, <1>13, <1>14, <1>15, <1>16 DEF StoreNext

\* A step of something else changes nothing here.
LEMMA StutterKeepsInv ==
    ASSUME StoreInv, UNCHANGED storeVars
    PROVE  StoreInv'
<1>1. UNCHANGED <<messages, topics, last_seq, settled, receipts, returned,
                  accountVars, issued, receipt_subs, routes>>
  BY DEF storeVars, accountVars
<1>2. \A q \in receipts' : q.rsub \in receipt_subs'
  BY <1>1 DEF StoreInv, QueuesOwned
<1>3. MailInv'
  BY <1>1, <1>2, ShrinkingKeepsMail
<1>4. AccountInv' /\ RestTypeOK'
  BY <1>1, UnchangedKeepsAccounts, InvMakesRest DEF RestTypeOK
<1> QED
  BY <1>3, <1>4, PartsMakeInv

------------------------------------------------------------------------------
(***************************************************************************)
(* The action properties, one step.                                        *)
(***************************************************************************)

\* Settling a batch numbers its receipts above all earlier ones, and gives one
\* to every message whose receipt subscription exists.
LEMMA SettlingAccounts ==
    ASSUME StoreInv, NEW gone \in SUBSET messages, owe_410(gone)
    PROVE  /\ \A q \in settled' \ settled, r \in settled : q.seq > r.seq
           /\ \A m \in gone : m.rsub \in receipt_subs =>
                 \E q \in receipts' : q.msg_id = m.id /\ q.status = 410
<1> DEFINE owed == {m \in gone : m.rsub \in receipt_subs}
<1>1. StoreTypeOK /\ messages \subseteq Message /\ IsFiniteSet(messages)
  BY DEF StoreInv, StoreTypeOK, MailApart
<1>2. owed \in SUBSET Message /\ IsFiniteSet(owed) /\ \A m \in owed : m.rsub \in receipt_subs
  BY <1>1, FS_Subset
<1>3. PICK order \in next_seq(owed) : Queue(owed, order, 410)
  BY DEF owe_410
<1>4. \A m \in gone : m.rsub \in receipt_subs => m \in owed
  OBVIOUS
<1> HIDE DEF owed
<1>5. /\ \A q \in settled' \ settled : q.seq > last_seq
      /\ settled' \subseteq Receipt
      /\ \A m \in owed : \E q \in receipts' : q.msg_id = m.id /\ q.status = 410
  BY <1>1, <1>2, <1>3, QueuedReceipts
<1>6. ASSUME NEW q \in settled' \ settled, NEW r \in settled
      PROVE  q.seq > r.seq
  <2>1. q.seq \in Nat /\ r.seq \in Nat /\ last_seq \in Nat /\ r.seq <= last_seq
    BY <1>5 DEF StoreInv, StoreTypeOK, QueueBounded, Receipt
  <2> QED
    BY <2>1, <1>5
<1> QED
  BY <1>4, <1>5, <1>6

\* The same for the receipt of an acknowledgement.
LEMMA EnqueueNumbers ==
    ASSUME StoreInv, NEW a \in returned, NEW status \in {204, 410},
           enqueue_receipt(a, status)
    PROVE  \A q \in settled' \ settled, r \in settled : q.seq > r.seq
<1> DEFINE owed == {m \in {a.msg} : m.rsub \in receipt_subs}
<1>1. PICK order \in next_seq(owed) : Queue(owed, order, status)
  BY DEF enqueue_receipt
<1>2. StoreTypeOK
  BY DEF StoreInv
<1>3. a \in [msg : Message, acked : BOOLEAN]
  BY <1>2 DEF StoreTypeOK
<1>4. owed \in SUBSET Message /\ IsFiniteSet(owed) /\ \A m \in owed : m.rsub \in receipt_subs
  <2>1. IsFiniteSet({a.msg})
    BY FS_Singleton
  <2> QED
    BY <2>1, <1>3, FS_Subset
<1> HIDE DEF owed
<1>5. settled' \subseteq Receipt /\ \A q \in settled' \ settled : q.seq > last_seq
  BY <1>1, <1>2, <1>4, QueuedReceipts
<1>6. ASSUME NEW q \in settled' \ settled, NEW r \in settled
      PROVE  q.seq > r.seq
  <2>1. q.seq \in Nat /\ r.seq \in Nat /\ last_seq \in Nat /\ r.seq <= last_seq
    BY <1>5 DEF StoreInv, StoreTypeOK, QueueBounded, Receipt
  <2> QED
    BY <2>1, <1>5
<1> QED
  BY <1>6

\* The step formula of EndsAccountedFor.
Accounted ==
    \A m \in messages \ messages' : m.rsub \in receipt_subs =>
       \/ \E q \in receipts' : q.msg_id = m.id /\ q.status = 410
       \/ \E a \in returned' : a.msg = m
       \/ m.topic # None /\ \E n \in messages' \ messages : Slot(n) = Slot(m)

\* The step formula of SeqsIncrease.
Numbered == \A q \in settled' \ settled, r \in settled : q.seq > r.seq

\* Deleting subscriptions settles every message that goes with them.
LEMMA RemovalAccounts ==
    ASSUME StoreInv, NEW subs, remove_subscription(subs)
    PROVE  Accounted /\ Numbered
<1> DEFINE gone == {m \in messages : \E s \in subs :
                      m.uaid = s.uaid /\ m.channel_id = s.channel_id}
<1>1. gone \in SUBSET messages /\ remove_message(gone) /\ owe_410(gone)
  BY DEF remove_subscription
<1> HIDE DEF gone
<1>2. messages \ messages' \subseteq gone
  BY <1>1 DEF remove_message
<1> QED
  BY <1>1, <1>2, SettlingAccounts DEF Accounted, Numbered

\* Replacement is the only silent end, and only of a message in the slot.
LEMMA InsertAccounts ==
    ASSUME StoreInv, NEW m \in Message, insert_message(m)
    PROVE  Accounted
<1> DEFINE old == IF m.topic = None THEN None ELSE topics[Slot(m)]
<1>1. /\ m.id \notin issued
      /\ messages' = {x \in messages : x.id # old} \cup {m}
  BY DEF insert_message
<1>2. m \notin messages
  BY <1>1 DEF StoreInv, MailApart, Ids
<1>3. ASSUME NEW x \in messages \ messages'
      PROVE  x.topic # None /\ Slot(m) = Slot(x)
  <2>1. x \in messages /\ x.id = old
    BY <1>1, <1>3
  <2>2. x \in Message /\ x.id # None
    BY <2>1, NoneAssumption DEF StoreInv, StoreTypeOK, Message
  <2>3. m.topic # None /\ topics[Slot(m)] = x.id
    BY <2>1, <2>2
  <2>4. Slot(m) \in Slots
    BY <2>3 DEF Slot, Slots, Message, Maybe
  <2>5. PICK y \in messages : y.id = topics[Slot(m)] /\ Slot(y) = Slot(m)
    BY <2>2, <2>3, <2>4 DEF StoreInv, TopicSlotsExact
  <2>6. x = y
    BY <2>1, <2>3, <2>5 DEF StoreInv, MailApart
  <2> QED
    BY <2>3, <2>5, <2>6 DEF Slot
<1> QED
  BY <1>1, <1>2, <1>3 DEF Accounted

\* Every operation of the store accounts for the messages it removes, and
\* numbers the receipts it queues above all earlier ones.
LEMMA StepAccounts ==
    ASSUME StoreInv, StoreNext
    PROVE  Accounted /\ Numbered
<1>0. ASSUME UNCHANGED <<messages, settled>>
      PROVE  Accounted /\ Numbered
  BY <1>0 DEF Accounted, Numbered
<1>1. ASSUME NEW u \in Uaids, NEW ua \in UserAgent, create_user_agent(u, ua)
      PROVE  Accounted /\ Numbered
  BY <1>0, <1>1 DEF create_user_agent, mailVars, receiptVars
<1>2. ASSUME NEW u \in Uaids, NEW now \in Times, touch_user_agent(u, now)
      PROVE  Accounted /\ Numbered
  BY <1>0, <1>2 DEF touch_user_agent, mailVars, receiptVars
<1>3. ASSUME NEW u \in Uaids, NEW t \in Tokens, update_bridge_token(u, t)
      PROVE  Accounted /\ Numbered
  BY <1>0, <1>3 DEF update_bridge_token, mailVars, receiptVars
<1>4. ASSUME NEW uaids, remove_user_agent(uaids)
      PROVE  Accounted /\ Numbered
  BY <1>4, RemovalAccounts DEF remove_user_agent
<1>5. ASSUME NEW u \in Uaids, delete_user_agent(u)
      PROVE  Accounted /\ Numbered
  BY <1>4, <1>5 DEF delete_user_agent
<1>6. ASSUME NEW cutoff \in Times, expire_user_agents(cutoff)
       PROVE  Accounted /\ Numbered
  BY <1>4, <1>6 DEF expire_user_agents
<1>7. ASSUME NEW s \in Subscription, create_subscription(s)
      PROVE  Accounted /\ Numbered
  BY <1>0, <1>7 DEF create_subscription, mailVars, receiptVars
<1>8. ASSUME NEW u \in Uaids, NEW ch \in ChannelIds, delete_subscription(u, ch)
      PROVE  Accounted /\ Numbered
  BY <1>8, RemovalAccounts DEF delete_subscription
<1>9. ASSUME NEW m \in Message, insert_message(m)
      PROVE  Accounted /\ Numbered
  <2>1. settled' = settled
    BY <1>9 DEF insert_message, receiptVars
  <2> QED
    BY <1>9, <2>1, InsertAccounts DEF Numbered
<1>10. ASSUME NEW id \in MsgIds, NEW owner, delete_message(id, owner)
      PROVE  Accounted /\ Numbered
  <2>1. PICK m \in messages :
          /\ remove_message({m})
          /\ returned' = returned \cup
                {[msg |-> x, acked |-> owner # None] : x \in {y \in {m} : y.rsub # None}}
          /\ settled' = settled
    BY <1>10 DEF delete_message, receiptVars
  <2>2. \A x \in messages \ messages' : x = m
    BY <2>1 DEF remove_message
  <2>3. ASSUME m.rsub \in receipt_subs
        PROVE  \E a \in returned' : a.msg = m
    <3>1. m.rsub # None
      BY <2>3, NoneAssumption DEF StoreInv, StoreTypeOK
    <3>2. [msg |-> m, acked |-> owner # None] \in returned'
      BY <3>1, <2>1
    <3> QED
      BY <3>2
  <2> QED
    BY <2>1, <2>2, <2>3 DEF Accounted, Numbered
<1>11. ASSUME NEW now \in Times, reap(now)
      PROVE  Accounted /\ Numbered
  <2> DEFINE expired == {m \in messages : m.expiry <= now}
  <2>1. expired \in SUBSET messages /\ remove_message(expired) /\ owe_410(expired)
    BY <1>11 DEF reap
  <2> HIDE DEF expired
  <2>2. messages \ messages' \subseteq expired
    BY <2>1 DEF remove_message
  <2> QED
    BY <2>1, <2>2, SettlingAccounts DEF Accounted, Numbered
<1>12. ASSUME NEW r \in Rsubs, create_receipt_sub(r) \/ delete_receipt_sub(r)
       PROVE  Accounted /\ Numbered
  BY <1>0, <1>12 DEF create_receipt_sub, delete_receipt_sub, mailVars, receiptVars
<1>13. ASSUME NEW a \in returned, NEW status \in {204, 410}, enqueue_receipt(a, status)
       PROVE  Accounted /\ Numbered
  <2>1. messages' = messages
    BY <1>13 DEF enqueue_receipt, mailVars
  <2> QED
    BY <1>13, <2>1, EnqueueNumbers DEF Accounted, Numbered
<1>14. ASSUME NEW a \in returned, withdraw_done(a)
       PROVE  Accounted /\ Numbered
  BY <1>0, <1>14 DEF withdraw_done, mailVars, receiptVars
<1>15. ASSUME NEW q \in receipts, delete_receipt(q)
       PROVE  Accounted /\ Numbered
  BY <1>0, <1>15 DEF delete_receipt, mailVars
<1>16. ASSUME NEW to \in Recipients, NEW n \in Nodes,
              set_route(to, n) \/ clear_route(to, n)
       PROVE  Accounted /\ Numbered
  BY <1>0, <1>16 DEF set_route, clear_route, mailVars, receiptVars
<1> QED
  BY <1>1, <1>2, <1>3, <1>5, <1>6, <1>7, <1>8, <1>9, <1>10, <1>11, <1>12,
     <1>13, <1>14, <1>15, <1>16
  DEF StoreNext

------------------------------------------------------------------------------
(***************************************************************************)
(* The theorems.                                                           *)
(***************************************************************************)

\* The inductive invariant holds in every state of the store.
THEOREM StoreInvariant == StoreSpec => []StoreInv
<1>1. StoreInit => StoreInv
  BY InitMakesInv
<1>2. StoreInv /\ [StoreNext]_storeVars => StoreInv'
  BY StepKeepsInv, StutterKeepsInv
<1> QED
  BY <1>1, <1>2, PTL DEF StoreSpec

\* The maps of `State` always hold well-typed entries.
THEOREM TypeCorrect == StoreSpec => []StoreTypeOK
<1>1. StoreInv => StoreTypeOK
  BY DEF StoreInv
<1> QED
  BY <1>1, StoreInvariant, PTL

\* The topic index names exactly the stored messages that have a topic,
\* whichever of the five ways a message is removed.
THEOREM TopicIndexExact == StoreSpec => []TopicSlotsExact
<1>1. StoreInv => TopicSlotsExact
  BY DEF StoreInv
<1> QED
  BY <1>1, StoreInvariant, PTL

\* However acknowledgement, expiry and unsubscription interleave, a message
\* settles at most once.
THEOREM SettledOnce == StoreSpec => []OneOutcome
<1>1. StoreInv => OneOutcome
  BY DEF StoreInv
<1> QED
  BY <1>1, StoreInvariant, PTL

\* A queued receipt always has a receipt subscription to be streamed to.
THEOREM ReceiptsOwned == StoreSpec => []QueuesOwned
<1>1. StoreInv => QueuesOwned
  BY DEF StoreInv
<1> QED
  BY <1>1, StoreInvariant, PTL

\* Unique keys and push ids make every stored subscription resolvable.
LEMMA InvResolves ==
    ASSUME StoreInv
    PROVE  PushResolves
<1> SUFFICES ASSUME NEW s \in channels
             PROVE  subscription_by_push(s.push) = {s}
  BY DEF PushResolves
<1>1. push[s.push] = <<s.uaid, s.channel_id>>
  BY DEF StoreInv, PushIndexed
<1>2. \A t \in channels : push[s.push] = <<t.uaid, t.channel_id>> => t = s
  BY <1>1 DEF StoreInv, PushIndexed
<1> QED
  BY <1>1, <1>2 DEF subscription_by_push

\* The push id of a registered subscription resolves to it and to no other.
THEOREM PushIdsResolve == StoreSpec => []PushResolves
<1>1. StoreInv => PushResolves
  BY InvResolves
<1> QED
  BY <1>1, StoreInvariant, PTL

\* The maps of the in-memory store agree whatever its callers do: their types,
\* the topic and push indexes, and the receipt queues.
THEOREM MapsAgree == StoreSpec => []StoreConsistent
<1>1. StoreTypeOK /\ TopicSlotsExact /\ PushResolves /\ QueuesOwned => StoreConsistent
  BY DEF StoreConsistent
<1> QED
  BY <1>1, TypeCorrect, TopicIndexExact, PushIdsResolve, ReceiptsOwned, PTL

\* No message with a live receipt subscription ends silently, except by a
\* replacement in its topic slot.
THEOREM NoSilentEnd == StoreSpec => EndsAccountedFor
<1>1. StoreInv /\ [StoreNext]_storeVars => [Accounted]_storeVars
  BY StepAccounts
<1>2. StoreSpec => [][Accounted]_storeVars
  BY <1>1, StoreInvariant, PTL DEF StoreSpec
<1> QED
  BY <1>2 DEF EndsAccountedFor, Accounted

\* A new receipt is numbered above every earlier one.
THEOREM ReceiptsInOrder == StoreSpec => SeqsIncrease
<1>1. StoreInv /\ [StoreNext]_storeVars => [Numbered]_storeVars
  BY StepAccounts
<1>2. StoreSpec => [][Numbered]_storeVars
  BY <1>1, StoreInvariant, PTL DEF StoreSpec
<1> QED
  BY <1>2 DEF SeqsIncrease, Numbered

==============================================================================
