---------------------------- MODULE ReceiptProofs ----------------------------
(***************************************************************************)
(* Receipts, from the events that owe them to the streams that write them, *)
(* for any number of messages, receipt subscriptions, nodes, streams and   *)
(* wait=0 reads.  As in DeliveryProofs, the invariants of the store and of *)
(* the hubs are taken from the proofs about them.                          *)
(***************************************************************************)
EXTENDS ReceiptStream, NotifyProofs

-----------------------------------------------------------------------------
(***************************************************************************)
(* What holds in every deployment.                                         *)
(***************************************************************************)

\* A task announces receipts to the receipt subscription they belong to, tells
\* its streams to go, or cleans up after a connection.  The handler that
\* deletes a receipt subscription announces nothing else.
TaskFits(t) ==
    /\ t.step # "clear" => t.events # <<>>
    /\ t.step \in {"forward", "clear"} => t.target \in Nodes
    /\ ~Clustered => t.step = "notify"
    /\ \A q \in Items(t.events) : q # Gone => q.rsub = t.to
    /\ t.job \in Rsubs => Items(t.events) \subseteq {Gone}

\* A stream reads the queue of the receipt subscription it listens for, and
\* deletes what it has written.
ReaderFits(p) ==
    /\ p \in ListenerIds /\ phase[p] \in {"listening", "ended"} =>
          readers[p].rsub = RecipientOf(p)
    /\ p \in ListenerIds /\ phase[p] \in {"unused", "dropped"} => readers[p] = NoReader
    /\ readers[p].stage = "registered" => Clustered
    /\ readers[p].stage = "deleting" => readers[p].receipt \in written

\* Receipts are numbered by the messages they are about.
Counted ==
    /\ IsFiniteSet(returned)
    /\ last_seq + Cardinality(messages) + Cardinality(returned) <= Cardinality(MsgIds)

BaseInv ==
    /\ StoreInv
    /\ Hub!HubInv
    /\ ReceiptTypeOK
    /\ Counted
    /\ receipts \subseteq Events
    /\ \A t \in tasks : TaskFits(t)
    /\ \A p \in Readers : ReaderFits(p)

(***************************************************************************)
(* On a single node: the registered stream of a receipt subscription, once *)
(* it has read the queue, gets whatever is queued.                         *)
(***************************************************************************)
OneNode == ~Clustered /\ \A a, b \in Nodes : a = b

Announced(q) == \E t \in tasks : q \in Items(t.events)

Reaches(id, q) ==
    \/ q.seq \in readers[id].seen
    \/ q \in readers[id].backlog
    \/ q \in Items(queues[id])
    \/ Announced(q)

Serves(id) ==
    /\ phase[id] = "listening" /\ readers[id].stage \in {"writing", "deleting"}
    /\ Hub!Attached(id)

Served(id) == Serves(id) => \A q \in Queued(RecipientOf(id)) : Reaches(id, q)

ReceiptIInv == BaseInv /\ \A id \in ListenerIds : Served(id)

-----------------------------------------------------------------------------
(***************************************************************************)
(* Receipts in the order of their numbers.                                 *)
(***************************************************************************)

\* Among receipts there is an oldest one.
LEMMA OldestExists ==
    ASSUME NEW S \in SUBSET Receipt, S # {}
    PROVE  Oldest(S) \in S /\ \A q \in S : Oldest(S).seq <= q.seq
<1>1. \A q \in S : q.seq \in Nat
  BY DEF Receipt
<1>2. PICK first \in S : TRUE
  OBVIOUS
<1>3. PICK range : range = 0..first.seq
  OBVIOUS
<1> DEFINE Older(q) == {n \in range : n < q.seq}
           Families == {Older(q) : q \in S}
<1>4. IsFiniteSet(range)
  BY <1>1, <1>3, FS_Interval
<1>5. IsWellFoundedOn(StrictSubsetOrdering(range), FiniteSubsetsOf(range))
  BY <1>4, FS_StrictSubsetOrderingWellFounded
<1>6. FiniteSubsetsOf(range) = SUBSET range
  BY <1>4, FS_FiniteSubsetsOfFinite
<1>7. Families \subseteq FiniteSubsetsOf(range) /\ Families # {}
  <2>1. \A q \in S : Older(q) \in SUBSET range
    OBVIOUS
  <2> HIDE DEF Older
  <2> QED
    BY <1>6, <2>1
<1>8. PICK F \in Families : \A G \in Families : <<G, F>> \notin StrictSubsetOrdering(range)
  <2> HIDE DEF Families
  <2> QED
    BY <1>5, <1>7, WFMin
<1>9. PICK q \in S : F = Older(q)
  BY <1>8
<1>10. PICK p \in S : /\ p.seq <= q.seq /\ p.seq <= first.seq
                      /\ \A r \in S : r.seq < p.seq => r.seq < q.seq /\ r.seq <= first.seq
  <2>1. CASE q.seq <= first.seq
    BY <1>1, <1>2, <2>1
  <2>2. CASE ~(q.seq <= first.seq)
    BY <1>1, <1>2, <2>2
  <2> QED
    BY <2>1, <2>2
<1>11. ASSUME NEW r \in S, r.seq < p.seq
       PROVE  FALSE
  <2>1. r.seq \in range /\ r.seq < q.seq /\ \A n \in range : n < r.seq => n < q.seq
    BY <1>1, <1>2, <1>3, <1>10, <1>11
  <2>2. Older(r) \subseteq Older(q) /\ r.seq \in Older(q) /\ r.seq \notin Older(r)
    BY <1>1, <2>1
  <2>3. <<Older(r), Older(q)>> \in StrictSubsetOrdering(range)
    <3>1. PICK a \in SUBSET range, b \in SUBSET range : a = Older(r) /\ b = Older(q)
      OBVIOUS
    <3> HIDE DEF Older
    <3> QED
      BY <2>2, <3>1 DEF StrictSubsetOrdering
  <2> QED
    BY <1>8, <1>9, <2>3
<1>12. \A r \in S : p.seq <= r.seq
  BY <1>1, <1>11
<1> QED
  BY <1>12 DEF Oldest

\* The ways to put receipts in order.
Orders(S) ==
    {s \in [1..Cardinality(S) -> S] :
        \A i, j \in 1..Cardinality(S) : i < j => s[i].seq < s[j].seq}

\* The oldest one, and then the others.
LEMMA OrderOfMore ==
    ASSUME NEW S \in SUBSET Receipt, IsFiniteSet(S), NEW q \in S,
           \A r \in S : r # q => q.seq < r.seq, NEW s \in Orders(S \ {q})
    PROVE  Orders(S) # {}
<1>1. PICK n \in Nat : n = Cardinality(S \ {q}) /\ Cardinality(S) = n + 1
  <2>1. IsFiniteSet(S \ {q}) /\ Cardinality(S \ {q}) = Cardinality(S) - 1
    BY FS_RemoveElement
  <2>2. Cardinality(S \ {q}) \in Nat /\ Cardinality(S) \in Nat
    BY <2>1, FS_CardinalityType
  <2> QED
    BY <2>1, <2>2
<1>2. /\ s \in [1..n -> S \ {q}]
      /\ \A i, j \in 1..n : i < j => s[i].seq < s[j].seq
  BY <1>1 DEF Orders
<1>3. \A r \in S : r.seq \in Nat
  BY DEF Receipt
<1>4. PICK u : u = [i \in 1..(n + 1) |-> IF i = 1 THEN q ELSE s[i - 1]]
  OBVIOUS
<1>5. \A i \in 1..(n + 1) : i # 1 => i - 1 \in 1..n /\ s[i - 1] \in S \ {q}
  BY <1>2
<1>6. u \in [1..(n + 1) -> S]
  BY <1>4, <1>5
<1>7. ASSUME NEW i \in 1..(n + 1), NEW j \in 1..(n + 1), i < j
      PROVE  u[i].seq < u[j].seq
  <2>1. j # 1 /\ u[j] = s[j - 1]
    BY <1>4, <1>7
  <2>2. CASE i = 1
    BY <1>4, <1>5, <2>1, <2>2
  <2>3. CASE i # 1
    <3>1. u[i] = s[i - 1]
      BY <1>4, <2>3
    <3>2. i - 1 < j - 1
      BY <1>7
    <3> QED
      BY <1>2, <1>5, <2>1, <2>3, <3>1, <3>2
  <2> QED
    BY <2>2, <2>3
<1> QED
  BY <1>1, <1>6, <1>7 DEF Orders

\* Receipts with different numbers can be put in order.
LEMMA OrderExists ==
    ASSUME NEW S \in SUBSET Receipt, IsFiniteSet(S),
           \A q, r \in S : q.seq = r.seq => q = r
    PROVE  Orders(S) # {}
<1> DEFINE Bad == {T \in SUBSET S : Orders(T) = {}}
<1> SUFFICES ASSUME Bad # {}
             PROVE  FALSE
  OBVIOUS
<1>1. Bad \subseteq FiniteSubsetsOf(S)
  BY FS_FiniteSubsetsOfFinite
<1>2. PICK T \in Bad : \A U \in Bad : <<U, T>> \notin StrictSubsetOrdering(S)
  <2>1. IsWellFoundedOn(StrictSubsetOrdering(S), FiniteSubsetsOf(S))
    BY FS_StrictSubsetOrderingWellFounded
  <2> HIDE DEF Bad
  <2> QED
    BY <1>1, <2>1, WFMin
<1>3. IsFiniteSet(T) /\ T \in SUBSET S /\ T \in SUBSET Receipt /\ Orders(T) = {}
  BY FS_Subset
<1>4. CASE T = {}
  <2>1. Cardinality(T) = 0
    BY <1>4, FS_EmptySet
  <2>2. [i \in 1..0 |-> i] \in Orders(T)
    <3>1. 1..0 = {}
      OBVIOUS
    <3> QED
      BY <2>1, <3>1 DEF Orders
  <2> QED
    BY <1>3, <2>2
<1>5. CASE T # {}
  <2>1. PICK q \in T : \A r \in T : q.seq <= r.seq
    BY <1>3, <1>5, OldestExists
  <2>2. \A r \in T : r # q => q.seq < r.seq
    <3>1. \A r \in T : r.seq \in Nat
      BY <1>3 DEF Receipt
    <3> QED
      BY <1>3, <2>1, <3>1
  <2>3. <<T \ {q}, T>> \in StrictSubsetOrdering(S)
    BY <1>3, <2>1 DEF StrictSubsetOrdering
  <2>4. Orders(T \ {q}) # {}
    BY <1>2, <1>3, <2>3
  <2> QED
    BY <1>3, <2>2, <2>4, OrderOfMore
<1> QED
  BY <1>4, <1>5

\* The announcement names every receipt, and nothing else.
LEMMA InOrderNamesAll ==
    ASSUME NEW S \in SUBSET Events, IsFiniteSet(S), S # {},
           \A q, r \in S : q.seq = r.seq => q = r
    PROVE  InOrder(S) \in Seq(Events \cup {Gone}) /\ InOrder(S) # <<>> /\ Items(InOrder(S)) = S
<1>1. S \in SUBSET Receipt /\ \A q \in S : q.seq \in Nat
  BY ReceiptStreamAssumption DEF Receipt
<1>2. PICK n \in Nat : n = Cardinality(S) /\ n # 0
  BY FS_CardinalityType, FS_EmptySet
<1>3. PICK s \in Orders(S) : s = InOrder(S)
  BY <1>1, OrderExists DEF InOrder, Orders
<1>4. s \in [1..n -> S] /\ \A i, j \in 1..n : i < j => s[i].seq < s[j].seq
  BY <1>2, <1>3 DEF Orders
<1>5. s \in Seq(Events \cup {Gone}) /\ s \in Seq(S) /\ Len(s) = n
  BY <1>4
<1>6. s \in Injection(1..n, S)
  <2>1. \A i, j \in 1..n : i # j => s[i] # s[j]
    BY <1>1, <1>4
  <2> QED
    BY <1>4, <2>1 DEF Injection, IsInjective
<1>7. Cardinality(1..n) = n
  BY FS_Interval
<1>8. s \in Surjection(1..n, S)
  BY <1>2, <1>6, <1>7, FS_Injection
<1>9. Items(s) = S
  BY <1>4, <1>5, <1>8 DEF Items, Surjection
<1> QED
  BY <1>2, <1>3, <1>5, <1>9

-----------------------------------------------------------------------------
(***************************************************************************)
(* The steps that owe receipts.                                            *)
(***************************************************************************)

\* The receipts that a step queued can be announced.
QueuesNew ==
    /\ receipts \subseteq receipts'
    /\ receipts' \subseteq Events
    /\ IsFiniteSet(receipts' \ receipts)
    /\ \A q, r \in receipts' \ receipts : q.seq = r.seq => q = r

\* The receipt of message `m` with number `seq`.
ReceiptOf(m, seq, status) == [rsub |-> m.rsub, seq |-> seq, msg_id |-> m.id, status |-> status]

LEMMA QueueEffect ==
    ASSUME StoreTypeOK, receipts \subseteq Events, NEW owed \in SUBSET Message,
           IsFiniteSet(owed), \A m \in owed : m.rsub \in receipt_subs,
           NEW order \in next_seq(owed), NEW status \in {204, 410},
           Queue(owed, order, status),
           last_seq + Cardinality(owed) <= Cardinality(MsgIds)
    PROVE  QueuesNew
<1>1. PICK new : new = {ReceiptOf(m, order[m], status) : m \in owed}
  OBVIOUS
<1>2. receipts' = receipts \cup new
  BY <1>1 DEF Queue, ReceiptOf
<1>3. last_seq \in Nat /\ receipt_subs \subseteq Rsubs
  BY DEF StoreTypeOK
<1>4. /\ \A m \in owed : /\ order[m] \in Nat /\ order[m] > last_seq
                         /\ order[m] <= last_seq + Cardinality(owed)
      /\ \A m, n \in owed : order[m] = order[n] => m = n
      /\ last_seq + Cardinality(owed) \in Nat
  BY <1>3, NumbersInRange
<1>5. Cardinality(MsgIds) \in Nat
  BY ReceiptStreamAssumption, FS_CardinalityType
<1>6. \A m \in owed : order[m] \in 1..Cardinality(MsgIds)
  BY <1>3, <1>4, <1>5
<1>7. \A m \in owed : m.rsub \in Rsubs /\ m.id \in MsgIds
  BY <1>3 DEF Message
<1>8. ASSUME NEW m \in owed
      PROVE  ReceiptOf(m, order[m], status) \in Events
  <2>1. ReceiptOf(m, order[m], status) \in
            [rsub : Rsubs, seq : 1..Cardinality(MsgIds), msg_id : MsgIds, status : {204, 410}]
    BY <1>6, <1>7 DEF ReceiptOf
  <2> QED
    BY <2>1, ReceiptStreamAssumption
<1>9. new \subseteq Events
  BY <1>1, <1>8
<1>10. \A q, r \in new : q.seq = r.seq => q = r
  <2> SUFFICES ASSUME NEW m \in owed, NEW n \in owed,
                      ReceiptOf(m, order[m], status).seq = ReceiptOf(n, order[n], status).seq
               PROVE  m = n
    BY <1>1
  <2>1. order[m] = order[n]
    BY DEF ReceiptOf
  <2> QED
    BY <1>4, <2>1
<1>11. IsFiniteSet(new)
  <2>1. PICK f : f = [m \in owed |-> ReceiptOf(m, order[m], status)]
    OBVIOUS
  <2>2. f \in Surjection(owed, new)
    BY <1>1, <2>1 DEF Surjection
  <2> QED
    BY <2>2, FS_Surjection
<1>12. receipts' \ receipts \subseteq new
  BY <1>2
<1>13. IsFiniteSet(receipts' \ receipts)
  BY <1>11, <1>12, FS_Subset
<1> QED
  BY <1>2, <1>9, <1>10, <1>12, <1>13 DEF QueuesNew

LEMMA CountRemoved ==
    ASSUME NEW S, IsFiniteSet(S), NEW T \in SUBSET S, NEW owed \in SUBSET T,
           NEW k \in Nat, NEW c \in Nat, NEW n \in Nat, k + Cardinality(S) + c <= n
    PROVE  /\ IsFiniteSet(owed)
           /\ k + Cardinality(owed) <= n
           /\ (k + Cardinality(owed)) + Cardinality(S \ T) + c <= n
<1>1. IsFiniteSet(T) /\ IsFiniteSet(owed) /\ Cardinality(owed) <= Cardinality(T)
  BY FS_Subset
<1>2. S \cap T = T
  OBVIOUS
<1>3. Cardinality(S \ T) = Cardinality(S) - Cardinality(T)
  BY <1>2, FS_Difference
<1>4. Cardinality(T) <= Cardinality(S)
  BY FS_Subset
<1>5. Cardinality(S) \in Nat /\ Cardinality(T) \in Nat /\ Cardinality(owed) \in Nat
  BY <1>1, FS_CardinalityType
<1> QED
  BY <1>1, <1>3, <1>4, <1>5

\* A message that is given to a caller moves from the store to `returned`.
LEMMA CountMoved ==
    ASSUME NEW S, IsFiniteSet(S), NEW m \in S, NEW R, IsFiniteSet(R),
           NEW more, NEW a, more \in SUBSET {a},
           NEW k \in Nat, NEW n \in Nat, k + Cardinality(S) + Cardinality(R) <= n
    PROVE  /\ IsFiniteSet(R \cup more)
           /\ k + Cardinality(S \ {m}) + Cardinality(R \cup more) <= n
<1>1. Cardinality(S) \in Nat /\ Cardinality(R) \in Nat
  BY FS_CardinalityType
<1>2. Cardinality(S \ {m}) = Cardinality(S) - 1
  BY FS_RemoveElement
<1>3. /\ IsFiniteSet(R \cup more)
      /\ Cardinality(R \cup more) = Cardinality(R) \/ Cardinality(R \cup more) = Cardinality(R) + 1
  <2>1. CASE more = {}
    <3>1. R \cup more = R
      BY <2>1
    <3> QED
      BY <3>1, Zenon
  <2>2. CASE more = {a}
    BY <2>2, FS_AddElement
  <2> QED
    BY <2>1, <2>2
<1> QED
  BY <1>1, <1>2, <1>3

\* What is known of the counters.
LEMMA Counters ==
    ASSUME StoreInv, Counted
    PROVE  /\ last_seq \in Nat /\ Cardinality(MsgIds) \in Nat
           /\ IsFiniteSet(messages) /\ Cardinality(messages) \in Nat
           /\ IsFiniteSet(returned) /\ Cardinality(returned) \in Nat
           /\ last_seq + Cardinality(messages) + Cardinality(returned) <= Cardinality(MsgIds)
<1>1. IsFiniteSet(messages) /\ IsFiniteSet(returned) /\ IsFiniteSet(MsgIds)
  BY ReceiptStreamAssumption DEF StoreInv, MailApart, Counted
<1> QED
  BY <1>1, FS_CardinalityType DEF StoreInv, StoreTypeOK, Counted

\* Messages that are removed for good.
LEMMA SettlingCounts ==
    ASSUME StoreInv, Counted, receipts \subseteq Events, NEW gone \in SUBSET messages,
           remove_message(gone), owe_410(gone), UNCHANGED returned
    PROVE  Counted' /\ QueuesNew
<1>1. PICK owed : owed = {m \in gone : m.rsub \in receipt_subs}
  OBVIOUS
<1>2. PICK order \in next_seq(owed) : Queue(owed, order, 410)
  BY <1>1 DEF owe_410
<1>3. owed \in SUBSET gone /\ \A m \in owed : m.rsub \in receipt_subs
  BY <1>1
<1>4. PICK k, c \in Nat : /\ k = last_seq /\ c = Cardinality(returned)
                          /\ k + Cardinality(messages) + c <= Cardinality(MsgIds)
  BY Counters
<1>5. /\ IsFiniteSet(owed)
      /\ k + Cardinality(owed) <= Cardinality(MsgIds)
      /\ (k + Cardinality(owed)) + Cardinality(messages \ gone) + c <= Cardinality(MsgIds)
  BY <1>3, <1>4, Counters, CountRemoved
<1>6. StoreTypeOK /\ owed \in SUBSET Message
  BY <1>3 DEF StoreInv, StoreTypeOK
<1>7. QueuesNew
  BY <1>2, <1>3, <1>4, <1>5, <1>6, QueueEffect
<1>8. /\ last_seq' = last_seq + Cardinality(owed) /\ messages' = messages \ gone
      /\ returned' = returned
  BY <1>2 DEF Queue, remove_message
<1>9. Counted'
  BY <1>4, <1>5, <1>8, Counters DEF Counted
<1> QED
  BY <1>7, <1>9

LEMMA DeleteCounts ==
    ASSUME StoreInv, Counted, NEW id, NEW owner, delete_message(id, owner)
    PROVE  Counted'
<1>1. PICK m \in messages :
        /\ remove_message({m})
        /\ returned' = returned \cup
              {[msg |-> x, acked |-> owner # None] : x \in {y \in {m} : y.rsub # None}}
        /\ UNCHANGED receiptVars
  BY DEF delete_message
<1>2. PICK a : a = [msg |-> m, acked |-> owner # None]
  OBVIOUS
<1>3. PICK more : more = {[msg |-> x, acked |-> owner # None] : x \in {y \in {m} : y.rsub # None}}
  OBVIOUS
<1>4. more \in SUBSET {a}
  BY <1>2, <1>3
<1>5. PICK k \in Nat : k = last_seq
  BY Counters
<1>6. /\ messages' = messages \ {m} /\ returned' = returned \cup more /\ last_seq' = k
  BY <1>1, <1>3, <1>5 DEF remove_message, receiptVars
<1>7. /\ IsFiniteSet(returned \cup more)
      /\ k + Cardinality(messages \ {m}) + Cardinality(returned \cup more) <= Cardinality(MsgIds)
  BY <1>4, <1>5, Counters, CountMoved
<1> QED
  BY <1>6, <1>7 DEF Counted

\* The caller queues the receipt, or does not have to.
LEMMA WithdrawCounts ==
    ASSUME StoreInv, Counted, NEW a, withdraw_done(a)
    PROVE  Counted'
<1>1. returned' = returned \ {a} /\ UNCHANGED <<messages, last_seq>>
  BY DEF withdraw_done, mailVars, receiptVars
<1>2. IsFiniteSet(returned \ {a}) /\ Cardinality(returned \ {a}) <= Cardinality(returned)
  BY Counters, FS_Subset
<1>3. Cardinality(returned \ {a}) \in Nat
  BY <1>2, FS_CardinalityType
<1> QED
  BY <1>1, <1>2, <1>3, Counters DEF Counted

LEMMA EnqueueCounts ==
    ASSUME StoreInv, Counted, receipts \subseteq Events, NEW a \in returned,
           NEW status \in {204, 410}, enqueue_receipt(a, status)
    PROVE  Counted' /\ QueuesNew
<1>1. PICK owed : owed = {m \in {a.msg} : m.rsub \in receipt_subs}
  OBVIOUS
<1>2. PICK order \in next_seq(owed) : Queue(owed, order, status)
  BY <1>1 DEF enqueue_receipt
<1>3. /\ returned' = returned \ {a} /\ messages' = messages
      /\ last_seq' = last_seq + Cardinality(owed)
  BY <1>2 DEF enqueue_receipt, mailVars, Queue
<1>4. StoreTypeOK /\ a.msg \in Message
  <2>1. StoreTypeOK
    BY DEF StoreInv
  <2>2. returned \subseteq [msg : Message, acked : BOOLEAN]
    BY <2>1 DEF StoreTypeOK
  <2>3. a \in [msg : Message, acked : BOOLEAN]
    BY <2>2
  <2> QED
    BY <2>1, <2>3
<1>5. owed \in SUBSET Message /\ \A m \in owed : m.rsub \in receipt_subs
  BY <1>1, <1>4
<1>6. IsFiniteSet(owed) /\ (Cardinality(owed) = 0 \/ Cardinality(owed) = 1)
  <2>1. owed = {} \/ owed = {a.msg}
    BY <1>1
  <2>2. CASE owed = {}
    BY <2>2, FS_EmptySet, Zenon
  <2>3. CASE owed = {a.msg}
    BY <2>3, FS_Singleton, Zenon
  <2> QED
    BY <2>1, <2>2, <2>3
<1>7. IsFiniteSet(returned \ {a}) /\ Cardinality(returned \ {a}) = Cardinality(returned) - 1
  BY Counters, FS_RemoveElement
<1>8. PICK i \in 0..1 : i = Cardinality(owed)
  BY <1>6
<1>9. PICK c \in Nat : c = Cardinality(returned \ {a}) /\ c = Cardinality(returned) - 1
  BY <1>7, FS_CardinalityType
<1>10. PICK k, j, n \in Nat : /\ k = last_seq /\ j = Cardinality(messages)
                              /\ n = Cardinality(MsgIds)
                              /\ k + j + (c + 1) <= n
  BY <1>9, Counters
<1>11. k + i <= n /\ (k + i) + j + c <= n
  BY <1>8, <1>9, <1>10
<1>12. Counted'
  BY <1>3, <1>7, <1>8, <1>9, <1>10, <1>11 DEF Counted
<1>13. last_seq + Cardinality(owed) <= Cardinality(MsgIds)
  BY <1>8, <1>10, <1>11
<1>14. QueuesNew
  BY <1>2, <1>4, <1>5, <1>6, <1>13, QueueEffect
<1> QED
  BY <1>12, <1>14

-----------------------------------------------------------------------------
(***************************************************************************)
(* The tasks.                                                              *)
(***************************************************************************)

LEMMA AnnouncementFits ==
    ASSUME NEW own \in SUBSET Events, IsFiniteSet(own), own # {},
           \A q, r \in own : q.seq = r.seq => q = r,
           NEW to \in Rsubs, \A q \in own : q.rsub = to, NEW n \in Nodes,
           NEW t, t = Announce(Oldest(own).msg_id, n, Oldest(own).rsub, InOrder(own))
    PROVE  IsTask(t) /\ TaskFits(t) /\ t.step = "notify" /\ Items(t.events) = own
<1>1. own \in SUBSET Receipt
  BY ReceiptStreamAssumption
<1>2. Oldest(own) \in own
  BY <1>1, OldestExists
<1>3. PICK job \in MsgIds : job = Oldest(own).msg_id
  BY <1>1, <1>2 DEF Receipt
<1>4. Oldest(own).rsub = to /\ to \in Recipients
  BY <1>2 DEF Recipients
<1>5. PICK events \in Seq(Events \cup {Gone}) :
          events = InOrder(own) /\ events # <<>> /\ Items(events) = own
  BY InOrderNamesAll
<1>6. PICK u : u = t /\ u = Announce(job, n, to, events)
  BY <1>3, <1>4, <1>5
<1>7. /\ IsTask(u)
      /\ u.job = job /\ u.to = to /\ u.events = events /\ u.step = "notify"
  BY ONLY n \in Nodes, <1>4, <1>5, <1>6, AnnounceIsTask
<1>8. job \notin Rsubs
  BY <1>3, ReceiptStreamAssumption
<1>9. TaskFits(u)
  BY <1>5, <1>7, <1>8 DEF TaskFits
<1> QED
  BY <1>5, <1>6, <1>7, <1>9

\* Every queued receipt is announced.
LEMMA AnnouncementsFit ==
    ASSUME NEW new \in SUBSET Events, IsFiniteSet(new),
           \A q, r \in new : q.seq = r.seq => q = r, NEW n \in Nodes
    PROVE  /\ \A t \in notify_receipts(n, new) : IsTask(t) /\ TaskFits(t) /\ t.step = "notify"
           /\ \A q \in new : \E t \in notify_receipts(n, new) : q \in Items(t.events)
<1> DEFINE Own(to) == {q \in new : q.rsub = to}
           Told(own) == Announce(Oldest(own).msg_id, n, Oldest(own).rsub, InOrder(own))
<1>1. notify_receipts(n, new) = {Told(own) : own \in {Own(to) : to \in {q.rsub : q \in new}}}
  BY DEF notify_receipts
<1>2. ASSUME NEW q \in new, NEW t, t = Told(Own(q.rsub))
      PROVE  IsTask(t) /\ TaskFits(t) /\ t.step = "notify" /\ q \in Items(t.events)
  <2>1. PICK to \in Rsubs : to = q.rsub
    BY ReceiptStreamAssumption DEF Receipt
  <2>2. PICK own \in SUBSET Events : own = Own(to)
    OBVIOUS
  <2>3. /\ q \in own /\ own # {} /\ own \subseteq new
        /\ \A r \in own : r.rsub = to
        /\ \A r, s \in own : r.seq = s.seq => r = s
    BY <2>1, <2>2
  <2>4. IsFiniteSet(own)
    BY <2>3, FS_Subset
  <2>5. t = Announce(Oldest(own).msg_id, n, Oldest(own).rsub, InOrder(own))
    BY <1>2, <2>1, <2>2
  <2>6. IsTask(t) /\ TaskFits(t) /\ t.step = "notify" /\ Items(t.events) = own
    BY <2>1, <2>2, <2>3, <2>4, <2>5, AnnouncementFits
  <2> QED
    BY <2>3, <2>6
<1> HIDE DEF Own, Told
<1>3. \A t \in notify_receipts(n, new) : \E q \in new : t = Told(Own(q.rsub))
  BY <1>1
<1>4. \A q \in new : Told(Own(q.rsub)) \in notify_receipts(n, new)
  BY <1>1
<1> QED
  BY <1>2, <1>3, <1>4

\* What is known of a task.
LEMMA TaskKnown ==
    ASSUME BaseInv, NEW t \in tasks
    PROVE  /\ IsTask(t) /\ TaskFits(t)
           /\ t.node \in Nodes /\ t.to \in Recipients
           /\ t.events \in Seq(Events \cup {Gone})
           /\ t.step # "clear" => /\ t.events # <<>>
                                  /\ Head(t.events) \in Events \cup {Gone}
           /\ t.step \in {"forward", "clear"} => t.target \in Nodes
           /\ ~Clustered => t.step = "notify"
<1>1. IsTask(t) /\ TaskFits(t)
  BY DEF BaseInv, ReceiptTypeOK, NotifyTypeOK
<1>2. t.events \in Seq(Events \cup {Gone})
  BY <1>1 DEF IsTask
<1>3. t.events # <<>> => Head(t.events) \in Events \cup {Gone}
  BY <1>2, HeadTailProperties
<1> QED
  BY <1>1, <1>2, <1>3 DEF IsTask, TaskFits

\* After a step the tasks are old ones, or fit.
TasksFit == \A u \in tasks' : u \in tasks \/ (IsTask(u) /\ TaskFits(u))

\* A task that is done with an event goes on with the rest.
LEMMA DoneFits ==
    ASSUME BaseInv, NEW t \in tasks, Done(t)
    PROVE  /\ TasksFit
           /\ \A u \in tasks : u # t => u \in tasks'
           /\ t.events # <<>> => \A q \in Items(t.events) :
                 q = Head(t.events) \/ \E u \in tasks' : q \in Items(u.events)
<1>1. PICK rest : rest = Remaining(t)
  OBVIOUS
<1>2. PICK u : u = RestOf(t)
  OBVIOUS
<1>3. tasks' = (tasks \ {t}) \cup (IF rest # <<>> THEN {u} ELSE {})
  BY <1>1, <1>2 DEF Done, Remaining, RestOf
<1>4. IsTask(t) /\ TaskFits(t) /\ t.events \in Seq(Events \cup {Gone})
  BY TaskKnown
<1>5. CASE rest # <<>>
  <2>1. /\ IsTask(u)
        /\ u.job = t.job /\ u.node = t.node /\ u.to = t.to /\ u.step = "notify"
        /\ t.events # <<>> /\ u.events # <<>>
        /\ Items(t.events) = Items(u.events) \cup {Head(t.events)}
    BY <1>1, <1>2, <1>4, <1>5, RestIsTask
  <2>2. TaskFits(u)
    BY <1>4, <2>1 DEF TaskFits
  <2>3. tasks' = (tasks \ {t}) \cup {u}
    BY <1>3, <1>5
  <2> QED
    BY <2>1, <2>2, <2>3 DEF TasksFit
<1>6. CASE rest = <<>>
  <2>1. tasks' = tasks \ {t}
    BY <1>3, <1>6
  <2>2. ASSUME t.events # <<>>
        PROVE  \A q \in Items(t.events) : q = Head(t.events)
    <3>1. rest = Tail(t.events)
      BY <1>1, <1>4, <2>2, TailIsSubSeq DEF Remaining
    <3>2. Items(t.events) = Items(rest) \cup {Head(t.events)}
      BY <1>4, <2>2, <3>1, ChannelItems
    <3>3. Items(rest) = {}
      BY <1>6 DEF Items
    <3> QED
      BY <3>2, <3>3
  <2> QED
    BY <2>1, <2>2 DEF TasksFit
<1> QED
  BY <1>5, <1>6

\* A task that goes on with the same event.
LEMMA GotoFits ==
    ASSUME BaseInv, NEW t \in tasks, t.step # "clear", Clustered,
           NEW step \in {"route", "forward", "clear"}, NEW target \in Maybe(Nodes),
           step # "route" => target \in Nodes, Goto(t, step, target)
    PROVE  TasksFit
<1>1. PICK v : v = [t EXCEPT !.step = step, !.target = target]
  OBVIOUS
<1>2. tasks' = (tasks \ {t}) \cup {v}
  BY <1>1 DEF Goto
<1>3. IsTask(t) /\ TaskFits(t)
  BY TaskKnown
<1>4. /\ IsTask(v)
      /\ v.job = t.job /\ v.node = t.node /\ v.to = t.to /\ v.events = t.events
      /\ v.step = step /\ v.target = target
  BY <1>1, <1>3 DEF IsTask
<1>5. TaskFits(v)
  BY <1>3, <1>4 DEF TaskFits
<1> QED
  BY <1>2, <1>4, <1>5 DEF TasksFit

-----------------------------------------------------------------------------
(***************************************************************************)
(* The steps of ReceiptStream as the store sees them.                      *)
(***************************************************************************)

\* What has to hold of the store.
StoreFits ==
    /\ StoreInv
    /\ Counted
    /\ receipts \subseteq Events

LEMMA StoreQuiet ==
    ASSUME BaseInv, StoreNext \/ UNCHANGED storeVars, UNCHANGED <<messages, returned, last_seq>>,
           receipts' \subseteq receipts
    PROVE  StoreFits'
<1>1. StoreInv'
  BY StepKeepsInv, StutterKeepsInv DEF BaseInv
<1>2. Counted'
  BY DEF BaseInv, Counted
<1> QED
  BY <1>1, <1>2 DEF BaseInv, StoreFits

LEMMA StoreAlone ==
    ASSUME BaseInv, UNCHANGED storeVars
    PROVE  StoreFits' /\ receipts' = receipts
<1>1. UNCHANGED <<messages, returned, last_seq, receipts>>
  BY DEF storeVars
<1> QED
  BY <1>1, StoreQuiet

\* Deleting subscriptions settles their messages.
LEMMA UnsubscribeCounts ==
    ASSUME StoreInv, Counted, receipts \subseteq Events, NEW u, NEW ch,
           delete_subscription(u, ch)
    PROVE  Counted' /\ QueuesNew
<1> DEFINE subs == {s \in channels : s.uaid = u /\ s.channel_id = ch}
           all == {m \in messages : \E s \in subs : m.uaid = s.uaid /\ m.channel_id = s.channel_id}
<1>1. PICK gone \in SUBSET messages : gone = all
  OBVIOUS
<1>2. remove_message(gone) /\ owe_410(gone) /\ UNCHANGED returned
  BY <1>1 DEF delete_subscription, remove_subscription
<1> QED
  BY <1>1, <1>2, SettlingCounts

\* What the steps that settle messages do: they queue receipts, and announce
\* exactly those, or they do not touch the queue.
Owes ==
    \/ /\ QueuesNew
       /\ \E n \in Nodes : tasks' = tasks \cup notify_receipts(n, receipts' \ receipts)
    \/ UNCHANGED <<receipts, tasks>>

LEMMA OwingStore ==
    ASSUME BaseInv, OwingSteps
    PROVE  /\ StoreFits'
           /\ UNCHANGED <<hubVars, newest, faults, readers, written>>
           /\ \/ Owes
              \/ \E n \in EndpointNodes, r \in Rsubs : delete_rsub(n, r)
<1>0. /\ StoreInv /\ Counted /\ receipts \subseteq Events
      /\ ConnectNodes \subseteq Nodes /\ EndpointNodes \subseteq Nodes
      /\ channels \subseteq Subscription
  BY ReceiptStreamAssumption DEF BaseInv, StoreInv, StoreTypeOK
<1>1. ASSUME NEW id \in MsgIds, NEW owner \in Maybe(Uaids \X ChannelIds), message_deleted(id, owner)
      PROVE  /\ StoreFits' /\ Owes
             /\ UNCHANGED <<hubVars, newest, faults, readers, written>>
  <2>1. delete_message(id, owner) /\ UNCHANGED <<notifyVars, readers, written>>
    BY <1>1 DEF message_deleted
  <2>2. StoreNext
    BY <1>1, <2>1 DEF StoreNext
  <2>3. UNCHANGED receipts
    BY <2>1 DEF delete_message, receiptVars
  <2> QED
    BY <1>0, <2>1, <2>2, <2>3, DeleteCounts, StepKeepsInv DEF StoreFits, Owes, notifyVars
<1>2. ASSUME NEW a \in returned, withdrawn(a)
      PROVE  /\ StoreFits' /\ Owes
             /\ UNCHANGED <<hubVars, newest, faults, readers, written>>
  <2>1. withdraw_done(a) /\ UNCHANGED <<notifyVars, readers, written>>
    BY <1>2 DEF withdrawn
  <2>2. StoreNext
    BY <2>1 DEF StoreNext
  <2>3. UNCHANGED receipts
    BY <2>1 DEF withdraw_done, receiptVars
  <2> QED
    BY <1>0, <2>1, <2>2, <2>3, WithdrawCounts, StepKeepsInv DEF StoreFits, Owes, notifyVars
<1>3. ASSUME NEW n \in Nodes, AnnounceQueued(n), QueuesNew, StoreNext, Counted'
      PROVE  /\ StoreFits' /\ Owes
             /\ UNCHANGED <<hubVars, newest, faults, readers, written>>
  <2>1. tasks' = tasks \cup notify_receipts(n, receipts' \ receipts)
    BY <1>3 DEF AnnounceQueued
  <2>2. StoreInv' /\ receipts' \subseteq Events
    BY <1>0, <1>3, StepKeepsInv DEF QueuesNew
  <2> QED
    BY <1>3, <2>1, <2>2 DEF StoreFits, Owes, AnnounceQueued
<1>4. ASSUME NEW n \in ConnectNodes, NEW a \in returned, NEW status \in {204, 410},
             owe_receipt(n, a, status)
      PROVE  /\ StoreFits' /\ Owes
             /\ UNCHANGED <<hubVars, newest, faults, readers, written>>
  <2>1. enqueue_receipt(a, status) /\ AnnounceQueued(n)
    BY <1>4 DEF owe_receipt
  <2>2. StoreNext
    BY <2>1 DEF StoreNext
  <2>3. Counted' /\ QueuesNew
    BY <1>0, <2>1, EnqueueCounts
  <2> QED
    BY <1>0, <1>3, <2>1, <2>2, <2>3
<1>5. ASSUME NEW n \in EndpointNodes, NEW now \in Times, reap_loop(n, now)
      PROVE  /\ StoreFits' /\ Owes
             /\ UNCHANGED <<hubVars, newest, faults, readers, written>>
  <2>1. reap(now) /\ AnnounceQueued(n)
    BY <1>5 DEF reap_loop
  <2>2. StoreNext
    BY <2>1 DEF StoreNext
  <2>3. PICK gone \in SUBSET messages : gone = {m \in messages : m.expiry <= now}
    OBVIOUS
  <2>4. remove_message(gone) /\ owe_410(gone) /\ UNCHANGED returned
    BY <2>1, <2>3 DEF reap
  <2>5. Counted' /\ QueuesNew
    BY <1>0, <2>3, <2>4, SettlingCounts
  <2> QED
    BY <1>0, <1>3, <2>1, <2>2, <2>5
<1>6. ASSUME NEW n \in Nodes, NEW s \in channels, unsubscribe(n, s)
      PROVE  /\ StoreFits' /\ Owes
             /\ UNCHANGED <<hubVars, newest, faults, readers, written>>
  <2>1. delete_subscription(s.uaid, s.channel_id) /\ AnnounceQueued(n)
    BY <1>6 DEF unsubscribe
  <2>2. StoreNext
    BY <1>0, <2>1 DEF StoreNext, Subscription
  <2>3. Counted' /\ QueuesNew
    BY <1>0, <2>1, UnsubscribeCounts
  <2> QED
    BY <1>0, <1>3, <2>1, <2>2, <2>3
<1>7. ASSUME NEW n \in EndpointNodes, NEW r \in Rsubs, delete_rsub(n, r)
      PROVE  /\ StoreFits'
             /\ UNCHANGED <<hubVars, newest, faults, readers, written>>
  <2>1. delete_receipt_sub(r) /\ UNCHANGED <<hubVars, newest, faults, readers, written>>
    BY <1>7 DEF delete_rsub
  <2>2. StoreNext
    BY <2>1 DEF StoreNext
  <2>3. receipts' \subseteq receipts /\ UNCHANGED <<messages, returned, last_seq>>
    BY <2>1 DEF delete_receipt_sub, mailVars
  <2> QED
    BY <2>1, <2>2, <2>3, StoreQuiet
<1>8. None \in Maybe(Uaids \X ChannelIds)
      /\ \A s \in channels : <<s.uaid, s.channel_id>> \in Maybe(Uaids \X ChannelIds)
  BY <1>0 DEF Maybe, Subscription
<1>9. CASE \E n \in EndpointNodes, r \in Rsubs : delete_rsub(n, r)
  BY <1>7, <1>9
<1>10. ASSUME ~\E n \in EndpointNodes, r \in Rsubs : delete_rsub(n, r)
       PROVE  /\ StoreFits' /\ Owes
              /\ UNCHANGED <<hubVars, newest, faults, readers, written>>
  BY <1>1, <1>2, <1>4, <1>5, <1>6, <1>8, <1>10, Zenon DEF OwingSteps
<1> QED
  BY <1>9, <1>10

-----------------------------------------------------------------------------
(***************************************************************************)
(* Every step keeps the invariant: the parts that steps have in common.    *)
(***************************************************************************)

LEMMA BookTypes ==
    ASSUME BaseInv
    PROVE  /\ faults \in 0..MaxFaults /\ MaxFaults \in Nat
           /\ newest \in [Recipients -> Maybe(ListenerIds)]
           /\ readers \in [Readers -> Reader] /\ written \subseteq Events
           /\ Hub!HubInv /\ \A p \in Readers : ReaderFits(p)
BY NotifyAssumption DEF BaseInv, ReceiptTypeOK, NotifyTypeOK

LEMMA HubAlone ==
    ASSUME Hub!HubInv, UNCHANGED hubVars
    PROVE  Hub!HubInv'
BY DEF hubVars, Hub!HubInv, Hub!HubTypeOK, Hub!SlotsHoldOpenListeners

LEMMA Assemble ==
    ASSUME BaseInv, StoreFits', Hub!HubInv', TasksFit,
           newest' \in [Recipients -> Maybe(ListenerIds)], faults' \in 0..MaxFaults,
           readers' \in [Readers -> Reader], written' \subseteq Events,
           \A p \in Readers : ReaderFits(p)'
    PROVE  BaseInv'
<1>1. \A t \in tasks' : IsTask(t) /\ TaskFits(t)
  BY TaskKnown DEF TasksFit
<1>2. ReceiptTypeOK'
  BY <1>1 DEF ReceiptTypeOK, NotifyTypeOK
<1> QED
  BY <1>1, <1>2 DEF BaseInv, StoreFits

\* A reader that the step is not about, or only by ending its stream.
LEMMA OldReaderFits ==
    ASSUME BaseInv, NEW p \in Readers, readers'[p] = readers[p], written \subseteq written',
           p \in ListenerIds =>
              /\ place'[p] = place[p]
              /\ phase'[p] = phase[p] \/ (phase[p] = "listening" /\ phase'[p] = "ended")
    PROVE  ReaderFits(p)'
<1>1. ReaderFits(p)
  BY DEF BaseInv
<1> QED
  BY <1>1 DEF ReaderFits, RecipientOf

\* A step that no reader sees.
LEMMA QuietStep ==
    ASSUME BaseInv, StoreFits', Hub!HubInv', TasksFit, faults' \in 0..MaxFaults,
           UNCHANGED <<place, phase, newest, readers, written>>
    PROVE  BaseInv'
<1>1. \A p \in Readers : ReaderFits(p)'
  BY OldReaderFits
<1> QED
  BY <1>1, BookTypes, Assemble

\* A step of one reader.
LEMMA ReaderStep ==
    ASSUME BaseInv, StoreFits', Hub!HubInv', TasksFit,
           newest' \in [Recipients -> Maybe(ListenerIds)], UNCHANGED faults,
           NEW p \in Readers, NEW r \in Reader, readers' = [readers EXCEPT ![p] = r],
           written \subseteq written', written' \subseteq Events,
           \A l \in ListenerIds : l # p => phase'[l] = phase[l] /\ place'[l] = place[l],
           readers'[p] = r => ReaderFits(p)'
    PROVE  BaseInv'
<1>1. /\ readers' \in [Readers -> Reader] /\ readers'[p] = r
      /\ \A o \in Readers : o # p => readers'[o] = readers[o]
  BY BookTypes
<1>2. ASSUME NEW o \in Readers, o # p
      PROVE  ReaderFits(o)'
  BY <1>1, <1>2, OldReaderFits
<1>3. \A o \in Readers : ReaderFits(o)'
  BY <1>1, <1>2
<1> QED
  BY <1>1, <1>3, BookTypes, Assemble

\* Every reader has the fields of one.
LEMMA ReaderFields ==
    ASSUME NEW r \in Reader
    PROVE  /\ r.stage \in {"idle", "registered", "checking", "reading", "writing", "deleting"}
           /\ r.rsub \in Maybe(Rsubs) /\ r.backlog \subseteq Events /\ r.seen \subseteq Nat
           /\ r.receipt \in Maybe(Events)
BY DEF Reader

LEMMA NewReaders ==
    ASSUME NEW to \in Rsubs, NEW stage \in {"registered", "checking"}
    PROVE  /\ Opened(to, stage) \in Reader
           /\ Opened(to, stage).stage = stage /\ Opened(to, stage).rsub = to
BY DEF NoReader, Opened, Reader, Maybe

LEMMA NoReaderIsIdle == NoReader \in Reader /\ NoReader.stage = "idle"
BY DEF NoReader, Reader, Maybe

\* A running reader stays one when it goes on to the next stage.
LEMMA StageStep ==
    ASSUME BaseInv, StoreFits', TasksFit, newest' \in [Recipients -> Maybe(ListenerIds)],
           UNCHANGED <<hubVars, faults, written>>,
           NEW p \in Readers, p \in ListenerIds => phase[p] = "listening",
           NEW r \in Reader, readers' = [readers EXCEPT ![p] = r],
           r.rsub = readers[p].rsub,
           r.stage \in {"checking", "reading", "writing"}
    PROVE  BaseInv'
<1>1. Hub!HubInv' /\ UNCHANGED <<place, phase>>
  BY BookTypes, HubAlone DEF hubVars
<1>2. ASSUME readers'[p] = r
      PROVE  ReaderFits(p)'
  BY <1>1, <1>2, BookTypes DEF ReaderFits, RecipientOf
<1> QED
  BY <1>1, <1>2, BookTypes, ReaderStep

\* emit.
LEMMA EmitEffect ==
    ASSUME BaseInv, NEW p \in Readers, NEW q \in Events, Emit(p, q)
    PROVE  /\ written \subseteq written' /\ written' \subseteq Events
           /\ \E r \in Reader :
                 /\ readers' = [readers EXCEPT ![p] = r]
                 /\ r.rsub = readers[p].rsub
                 /\ r.seen = readers[p].seen \cup {q.seq}
                 /\ r.backlog = readers[p].backlog \ {q}
                 /\ \/ r.stage = readers[p].stage /\ r.receipt = readers[p].receipt
                    \/ r.stage = "deleting" /\ r.receipt = q /\ q \in written'
<1>1. PICK o \in Reader : o = readers[p]
  BY BookTypes
<1>2. q.seq \in Nat
  BY ReceiptStreamAssumption DEF Receipt
<1>3. PICK left \in SUBSET Events : left = o.backlog \ {q}
  BY <1>1, ReaderFields
<1>4. CASE q.seq \in o.seen
  <2>1. PICK r : r = [o EXCEPT !.backlog = left]
    OBVIOUS
  <2>2. /\ r \in Reader /\ r.rsub = o.rsub /\ r.seen = o.seen /\ r.backlog = left
        /\ r.stage = o.stage /\ r.receipt = o.receipt
    BY <1>3, <2>1 DEF Reader
  <2>3. readers' = [readers EXCEPT ![p] = r] /\ written' = written
    BY <1>1, <1>3, <1>4, <2>1, BookTypes DEF Emit
  <2>4. o.seen = o.seen \cup {q.seq}
    BY <1>4
  <2> QED
    BY <1>1, <1>3, <2>2, <2>3, <2>4, BookTypes
<1>5. CASE q.seq \notin o.seen
  <2>1. PICK seen : seen = o.seen \cup {q.seq}
    OBVIOUS
  <2>2. PICK r : r = [o EXCEPT !.stage = "deleting", !.receipt = q, !.seen = seen, !.backlog = left]
    OBVIOUS
  <2>3. seen \subseteq Nat /\ q \in Maybe(Events)
    BY <1>1, <1>2, <2>1, ReaderFields DEF Maybe
  <2>4. /\ r \in Reader /\ r.rsub = o.rsub /\ r.seen = seen /\ r.backlog = left
        /\ r.stage = "deleting" /\ r.receipt = q
    BY <1>3, <2>2, <2>3 DEF Reader
  <2>5. readers' = [readers EXCEPT ![p] = r] /\ written' = written \cup {q}
    BY <1>1, <1>3, <1>5, <2>1, <2>2, BookTypes DEF Emit
  <2> QED
    BY <1>1, <1>3, <2>1, <2>4, <2>5, BookTypes
<1> QED
  BY <1>4, <1>5

-----------------------------------------------------------------------------
(***************************************************************************)
(* The steps of readers.                                                   *)
(***************************************************************************)

LEMMA ListenStep ==
    ASSUME BaseInv, NEW id \in ListenerIds, listen_done(id)
    PROVE  BaseInv'
<1>1. /\ readers[id].stage = "registered" /\ phase[id] = "listening"
      /\ newest' = [newest EXCEPT ![RecipientOf(id)] = id]
      /\ UNCHANGED <<hubVars, faults, written>>
      /\ set_route(RecipientOf(id), NodeOf(id))
      /\ tasks' = tasks \cup {GoneTo(p, id) : p \in Superseded(id)}
      /\ readers' = [readers EXCEPT ![id].stage = "checking"]
  BY DEF listen_done, Running, take_route, RouteTaken
<1>2. id \in Readers /\ ReaderFits(id) /\ Clustered
  BY <1>1, BookTypes DEF Readers, ReaderFits
<1>3. RecipientOf(id) \in Recipients /\ NodeOf(id) \in Nodes
  BY <1>1, BookTypes, PlaceFacts
<1>4. StoreFits'
  <2>1. StoreNext
    BY <1>1, <1>3 DEF StoreNext
  <2>2. UNCHANGED <<messages, returned, last_seq, receipts>>
    BY <1>1 DEF set_route, mailVars, receiptVars
  <2> QED
    BY <2>1, <2>2, StoreQuiet
<1>5. TasksFit
  <2> SUFFICES ASSUME NEW t \in tasks', t \notin tasks
               PROVE  IsTask(t) /\ TaskFits(t)
    BY DEF TasksFit
  <2>1. routes[RecipientOf(id)] \in Maybe(Nodes)
    BY <1>3 DEF BaseInv, StoreInv, StoreTypeOK
  <2>2. PICK p \in Nodes : t = GoneTo(p, id)
    BY <1>1, <2>1 DEF Superseded, Maybe
  <2>3. /\ IsTask(t) /\ t.events = <<Gone>> /\ t.step = "forward" /\ t.target = p
    BY <1>1, <2>2, BookTypes, GoneToIsTask
  <2>4. Items(t.events) \subseteq {Gone} /\ t.events # <<>>
    BY <2>3 DEF Items
  <2> QED
    BY <1>2, <2>2, <2>3, <2>4 DEF TaskFits
<1>6. PICK o \in Reader : o = readers[id]
  BY <1>2, BookTypes
<1>7. PICK r : r = [o EXCEPT !.stage = "checking"]
  OBVIOUS
<1>8. r \in Reader /\ r.rsub = o.rsub /\ r.stage = "checking"
  BY <1>6, <1>7 DEF Reader
<1>9. readers' = [readers EXCEPT ![id] = r] /\ newest' \in [Recipients -> Maybe(ListenerIds)]
  BY <1>1, <1>2, <1>3, <1>6, <1>7, BookTypes DEF Maybe
<1> QED
  BY <1>1, <1>2, <1>4, <1>5, <1>6, <1>8, <1>9, StageStep

\* A reader returns.
LEMMA EndStep ==
    ASSUME BaseInv, NEW p \in Readers, End(p),
           UNCHANGED <<storeVars, newest, tasks, faults, written>>
    PROVE  BaseInv'
<1>1. StoreFits' /\ TasksFit
  BY StoreAlone DEF TasksFit
<1>2. CASE p \in PollIds
  <2>1. readers' = [readers EXCEPT ![p] = NoReader] /\ UNCHANGED hubVars /\ p \notin ListenerIds
    BY <1>2, ReceiptStreamAssumption DEF End
  <2>2. Hub!HubInv' /\ UNCHANGED <<place, phase>>
    BY <2>1, BookTypes, HubAlone DEF hubVars
  <2>3. ASSUME readers'[p] = NoReader
        PROVE  ReaderFits(p)'
    BY <2>1, <2>3, NoReaderIsIdle DEF ReaderFits
  <2> QED
    BY <1>1, <2>1, <2>2, <2>3, BookTypes, NoReaderIsIdle, ReaderStep
<1>3. CASE p \notin PollIds
  <2>1. p \in ListenerIds /\ Hub!leave(p) /\ UNCHANGED readers
    BY <1>3 DEF End, Readers
  <2>2. Hub!HubInv'
    BY <2>1, BookTypes, HubStep DEF Hub!HubNext
  <2>3. /\ phase[p] = "listening" /\ phase'[p] = "ended" /\ UNCHANGED place
        /\ \A l \in ListenerIds : l # p => phase'[l] = phase[l]
    BY <2>1, BookTypes, HubFacts DEF Hub!leave
  <2>4. \A o \in Readers : ReaderFits(o)'
    BY <2>1, <2>3, OldReaderFits
  <2> QED
    BY <1>1, <2>1, <2>2, <2>4, BookTypes, Assemble
<1> QED
  BY <1>2, <1>3

LEMMA CheckStep ==
    ASSUME BaseInv, NEW p \in Readers, receipt_sub_exists(p)
    PROVE  BaseInv'
<1>1. /\ p \in ListenerIds => phase[p] = "listening"
      /\ UNCHANGED <<storeVars, newest, tasks, faults, written>>
  BY DEF receipt_sub_exists, Running
<1>2. CASE End(p)
  BY <1>1, <1>2, EndStep
<1>3. CASE readers' = [readers EXCEPT ![p].stage = "reading"] /\ UNCHANGED hubVars
  <2>1. PICK o \in Reader : o = readers[p]
    BY BookTypes
  <2>2. PICK r : r = [o EXCEPT !.stage = "reading"]
    OBVIOUS
  <2>3. r \in Reader /\ r.rsub = o.rsub /\ r.stage = "reading"
    BY <2>1, <2>2 DEF Reader
  <2>4. readers' = [readers EXCEPT ![p] = r]
    BY <1>3, <2>1, <2>2, BookTypes
  <2>5. StoreFits' /\ TasksFit
    BY <1>1, StoreAlone DEF TasksFit
  <2> QED
    BY <1>1, <1>3, <2>1, <2>3, <2>4, <2>5, BookTypes, StageStep
<1> QED
  BY <1>2, <1>3 DEF receipt_sub_exists

LEMMA ReadStep ==
    ASSUME BaseInv, NEW p \in Readers, queued_receipts(p)
    PROVE  BaseInv'
<1>1. PICK backlog : backlog = Queued(readers[p].rsub)
  OBVIOUS
<1>2. /\ p \in ListenerIds => phase[p] = "listening"
      /\ readers' = [readers EXCEPT ![p].stage = "writing", ![p].backlog = backlog]
      /\ UNCHANGED <<storeVars, notifyVars, written>>
  BY <1>1 DEF queued_receipts, Running
<1>3. backlog \subseteq Events
  BY <1>1 DEF Queued, BaseInv
<1>4. PICK o \in Reader : o = readers[p]
  BY BookTypes
<1>5. PICK r : r = [o EXCEPT !.stage = "writing", !.backlog = backlog]
  OBVIOUS
<1>6. r \in Reader /\ r.rsub = o.rsub /\ r.stage = "writing"
  BY <1>3, <1>4, <1>5 DEF Reader
<1>7. readers' = [readers EXCEPT ![p] = r]
  BY <1>2, <1>4, <1>5, BookTypes
<1>8. UNCHANGED <<hubVars, newest, tasks, faults>>
  BY <1>2 DEF notifyVars
<1>9. StoreFits' /\ TasksFit
  BY <1>2, <1>8, StoreAlone DEF TasksFit
<1> QED
  BY <1>2, <1>4, <1>6, <1>7, <1>8, <1>9, BookTypes, StageStep

LEMMA DeleteStep ==
    ASSUME BaseInv, NEW p \in Readers, delete_written(p)
    PROVE  /\ BaseInv'
           /\ readers[p].receipt \in written /\ receipts' = receipts \ {readers[p].receipt}
<1>1. /\ p \in ListenerIds => phase[p] = "listening"
      /\ readers[p].stage = "deleting"
      /\ delete_receipt(readers[p].receipt)
      /\ readers' = [readers EXCEPT ![p].stage = "writing", ![p].receipt = None]
      /\ UNCHANGED <<notifyVars, written>>
  BY DEF delete_written, Running
<1>2. PICK o \in Reader : o = readers[p]
  BY BookTypes
<1>3. PICK r : r = [o EXCEPT !.stage = "writing", !.receipt = None]
  OBVIOUS
<1>4. r \in Reader /\ r.rsub = o.rsub /\ r.stage = "writing"
  BY <1>2, <1>3 DEF Reader, Maybe
<1>5. readers' = [readers EXCEPT ![p] = r]
  BY <1>1, <1>2, <1>3, BookTypes
<1>6. UNCHANGED <<hubVars, newest, tasks, faults>>
  BY <1>1 DEF notifyVars
<1>7. /\ receipts' = receipts \ {readers[p].receipt}
      /\ UNCHANGED <<messages, returned, last_seq>>
  BY <1>1 DEF delete_receipt, mailVars
<1>8. StoreNext \/ UNCHANGED storeVars
  <2>1. CASE readers[p].receipt \in receipts
    BY <1>1, <2>1 DEF StoreNext
  <2>2. CASE readers[p].receipt \notin receipts
    <3>1. receipts' = receipts
      BY <1>7, <2>2
    <3> QED
      BY <1>1, <3>1 DEF delete_receipt, storeVars, accountVars, mailVars
  <2> QED
    BY <2>1, <2>2
<1>9. StoreFits' /\ TasksFit
  BY <1>6, <1>7, <1>8, StoreQuiet DEF TasksFit
<1>10. BaseInv'
  BY <1>1, <1>2, <1>4, <1>5, <1>6, <1>9, BookTypes, StageStep
<1>11. readers[p].receipt \in written
  BY <1>1, BookTypes DEF ReaderFits
<1> QED
  BY <1>7, <1>10, <1>11

\* A receipt is written, or skipped.
LEMMA EmitStep ==
    ASSUME BaseInv, NEW p \in Readers, NEW q \in Events, Emit(p, q), StoreFits', Hub!HubInv',
           readers[p].stage = "writing", p \in ListenerIds => phase[p] = "listening",
           UNCHANGED <<place, phase, newest, tasks, faults>>
    PROVE  BaseInv'
<1>1. written \subseteq written' /\ written' \subseteq Events
  BY EmitEffect
<1>2. PICK r \in Reader :
          /\ readers' = [readers EXCEPT ![p] = r]
          /\ r.rsub = readers[p].rsub
          /\ \/ r.stage = readers[p].stage /\ r.receipt = readers[p].receipt
             \/ r.stage = "deleting" /\ r.receipt = q /\ q \in written'
  BY EmitEffect
<1>3. ASSUME readers'[p] = r
      PROVE  ReaderFits(p)'
  BY <1>2, <1>3, BookTypes DEF ReaderFits, RecipientOf
<1>4. TasksFit
  BY DEF TasksFit
<1> QED
  BY <1>1, <1>2, <1>3, <1>4, BookTypes, ReaderStep

LEMMA BacklogStep ==
    ASSUME BaseInv, NEW p \in Readers, write_backlog(p)
    PROVE  BaseInv'
<1>1. /\ readers[p].stage = "writing" /\ readers[p].backlog # {}
      /\ p \in ListenerIds => phase[p] = "listening"
      /\ Emit(p, Oldest(readers[p].backlog))
      /\ UNCHANGED <<storeVars, notifyVars>>
  BY DEF write_backlog, Running
<1>2. readers[p].backlog \subseteq Events
  BY BookTypes, ReaderFields
<1>3. PICK q \in Events : q = Oldest(readers[p].backlog)
  BY <1>1, <1>2, OldestExists, ReceiptStreamAssumption
<1>4. UNCHANGED <<hubVars, place, phase, newest, tasks, faults>>
  BY <1>1 DEF notifyVars, hubVars
<1>5. StoreFits' /\ Hub!HubInv'
  BY <1>1, <1>4, BookTypes, StoreAlone, HubAlone
<1> QED
  BY <1>1, <1>3, <1>4, <1>5, EmitStep

LEMMA EventStep ==
    ASSUME BaseInv, NEW id \in ListenerIds, hub_event(id)
    PROVE  BaseInv'
<1>1. /\ readers[id].stage = "writing" /\ readers[id].backlog = {} /\ phase[id] = "listening"
      /\ Hub!recv(id)
      /\ UNCHANGED <<storeVars, newest, tasks, faults>>
  BY DEF hub_event, Serving, Running
<1>2. /\ queues[id] \in Seq(Events \cup {Gone}) /\ queues[id] # <<>> /\ UNCHANGED place
      /\ phase' = [phase EXCEPT ![id] = IF Head(queues[id]) = Gone THEN "ended" ELSE @]
  BY <1>1, BookTypes, HubFacts DEF Hub!recv
<1>3. StoreFits' /\ Hub!HubInv' /\ id \in Readers
  BY <1>1, BookTypes, StoreAlone, HubStep DEF Hub!HubNext, Readers
<1>4. CASE Head(queues[id]) = Gone
  <2>1. UNCHANGED <<readers, written>>
    BY <1>4 DEF hub_event
  <2>2. phase'[id] = "ended" /\ \A l \in ListenerIds : l # id => phase'[l] = phase[l]
    BY <1>2, <1>4, BookTypes, HubFacts
  <2>3. \A p \in Readers : ReaderFits(p)'
    BY <1>1, <1>2, <2>1, <2>2, OldReaderFits
  <2>4. TasksFit
    BY <1>1 DEF TasksFit
  <2> QED
    BY <1>1, <1>3, <2>1, <2>3, <2>4, BookTypes, Assemble
<1>5. CASE Head(queues[id]) # Gone
  <2>1. PICK q \in Events : q = Head(queues[id])
    BY <1>2, <1>5, HeadTailProperties
  <2>2. Emit(id, q)
    BY <1>5, <2>1 DEF hub_event
  <2>3. phase' = phase
    BY <1>2, <1>5, BookTypes, HubFacts
  <2> QED
    BY <1>1, <1>2, <1>3, <2>1, <2>2, <2>3, EmitStep
<1> QED
  BY <1>4, <1>5

LEMMA ClosedStep ==
    ASSUME BaseInv, NEW id \in ListenerIds, hub_closed(id)
    PROVE  BaseInv'
<1>1. /\ Hub!recv_closed(id)
      /\ UNCHANGED <<storeVars, newest, tasks, faults, readers, written>>
  BY DEF hub_closed
<1>2. /\ phase[id] = "listening" /\ phase'[id] = "ended" /\ UNCHANGED place
      /\ \A l \in ListenerIds : l # id => phase'[l] = phase[l]
  BY <1>1, BookTypes, HubFacts DEF Hub!recv_closed
<1>3. StoreFits' /\ Hub!HubInv' /\ TasksFit
  BY <1>1, BookTypes, StoreAlone, HubStep DEF Hub!HubNext, TasksFit
<1>4. \A p \in Readers : ReaderFits(p)'
  BY <1>1, <1>2, OldReaderFits
<1> QED
  BY <1>1, <1>3, <1>4, BookTypes, Assemble

LEMMA DropStep ==
    ASSUME BaseInv, NEW id \in ListenerIds, drop_stream(id)
    PROVE  BaseInv'
<1>1. /\ Hub!drop_listener(id)
      /\ tasks' = tasks \cup
            {[Announce(id, NodeOf(id), RecipientOf(id), <<>>) EXCEPT
                !.step = "clear", !.target = n] :
             n \in {x \in {NodeOf(id)} : Clustered /\ Hub!Attached(id)}}
      /\ readers' = [readers EXCEPT ![id] = NoReader]
      /\ UNCHANGED <<storeVars, newest, faults, written>>
  BY DEF drop_stream, drop_listener
<1>2. /\ phase[id] = "ended" /\ phase'[id] = "dropped" /\ UNCHANGED place
      /\ \A l \in ListenerIds : l # id => phase'[l] = phase[l]
  BY <1>1, BookTypes, HubFacts DEF Hub!drop_listener
<1>3. StoreFits' /\ Hub!HubInv' /\ id \in Readers
  BY <1>1, BookTypes, StoreAlone, HubStep DEF Hub!HubNext, Readers
<1>4. TasksFit
  <2> SUFFICES ASSUME NEW t \in tasks', t \notin tasks
               PROVE  IsTask(t) /\ TaskFits(t)
    BY DEF TasksFit
  <2>1. Clustered /\ t = CleanupOf(id)
    BY <1>1 DEF CleanupOf
  <2>2. /\ IsTask(t) /\ t.events = <<>> /\ t.step = "clear" /\ t.target \in Nodes
    BY <1>2, <2>1, BookTypes, CleanupIsTask
  <2>3. Items(t.events) = {}
    BY <2>2 DEF Items
  <2> QED
    BY <2>1, <2>2, <2>3 DEF TaskFits
<1>5. ASSUME readers'[id] = NoReader
      PROVE  ReaderFits(id)'
  BY <1>2, <1>5, NoReaderIsIdle DEF ReaderFits
<1> QED
  BY <1>1, <1>2, <1>3, <1>4, <1>5, BookTypes, NoReaderIsIdle, ReaderStep

LEMMA OpenStep ==
    ASSUME BaseInv, NEW n \in EndpointNodes, NEW to \in Rsubs, NEW id \in ListenerIds,
           open(n, to, id)
    PROVE  BaseInv'
<1>1. PICK stage \in {"registered", "checking"} :
          stage = IF Clustered THEN "registered" ELSE "checking"
  OBVIOUS
<1>2. /\ Hub!register(n, to, id)
      /\ newest' = IF Clustered THEN newest ELSE [newest EXCEPT ![to] = id]
      /\ readers' = [readers EXCEPT ![id] = Opened(to, stage)]
      /\ UNCHANGED <<storeVars, tasks, faults, written>>
  BY <1>1 DEF open, listen
<1>3. n \in Nodes /\ to \in Recipients /\ id \in Readers
  BY ReceiptStreamAssumption DEF Recipients, Readers
<1>4. /\ phase'[id] = "listening" /\ place'[id] = <<n, to>>
      /\ \A l \in ListenerIds : l # id => phase'[l] = phase[l] /\ place'[l] = place[l]
  BY <1>2, <1>3, BookTypes, RegisterEffect
<1>5. StoreFits' /\ Hub!HubInv' /\ TasksFit
  BY <1>2, <1>3, BookTypes, StoreAlone, HubStep DEF Hub!HubNext, TasksFit
<1>6. newest' \in [Recipients -> Maybe(ListenerIds)]
  BY <1>2, <1>3, BookTypes DEF Maybe
<1>7. PICK r \in Reader : r = Opened(to, stage) /\ r.stage = stage /\ r.rsub = to
  BY <1>1, NewReaders
<1>8. ASSUME readers'[id] = r
      PROVE  ReaderFits(id)'
  BY <1>1, <1>4, <1>7, <1>8 DEF ReaderFits, RecipientOf
<1> QED
  BY <1>2, <1>3, <1>4, <1>5, <1>6, <1>7, <1>8, BookTypes, ReaderStep

LEMMA PollStep ==
    ASSUME BaseInv, NEW to \in Rsubs, NEW p \in PollIds, poll(to, p)
    PROVE  BaseInv'
<1>1. /\ readers' = [readers EXCEPT ![p] = Opened(to, "checking")]
      /\ UNCHANGED <<storeVars, notifyVars, written>>
  BY DEF poll
<1>2. p \in Readers /\ p \notin ListenerIds
  BY ReceiptStreamAssumption DEF Readers
<1>3. UNCHANGED <<hubVars, place, phase, newest, tasks, faults>>
  BY <1>1 DEF notifyVars, hubVars
<1>4. StoreFits' /\ Hub!HubInv' /\ TasksFit
  BY <1>1, <1>3, BookTypes, StoreAlone, HubAlone DEF TasksFit
<1>5. PICK r \in Reader : r = Opened(to, "checking") /\ r.stage = "checking"
  BY NewReaders
<1>6. ASSUME readers'[p] = r
      PROVE  ReaderFits(p)'
  BY <1>2, <1>5, <1>6 DEF ReaderFits
<1> QED
  BY <1>1, <1>2, <1>3, <1>4, <1>5, <1>6, BookTypes, ReaderStep

LEMMA CrashStep ==
    ASSUME BaseInv, NEW n \in Nodes, crash_stream_node(n)
    PROVE  BaseInv'
<1>1. /\ phase' = [id \in ListenerIds |-> IF id \in LostWith(n) THEN "dropped" ELSE phase[id]]
      /\ readers' = [p \in Readers |-> IF p \in LostWith(n) THEN NoReader ELSE readers[p]]
      /\ tasks' = {t \in tasks : t.node # n}
      /\ faults < MaxFaults /\ faults' = faults + 1
      /\ crash(n) /\ UNCHANGED <<storeVars, place, newest, written>>
  BY DEF crash_stream_node, crash
<1>2. readers' \in [Readers -> Reader] /\ faults' \in 0..MaxFaults
  BY <1>1, BookTypes, NoReaderIsIdle
<1>3. StoreFits' /\ Hub!HubInv' /\ TasksFit
  BY <1>1, BookTypes, StoreAlone, CrashKeepsHub DEF TasksFit
<1>4. ASSUME NEW p \in Readers
      PROVE  ReaderFits(p)'
  <2>1. CASE p \in LostWith(n)
    <3>1. p \in ListenerIds /\ phase'[p] = "dropped" /\ readers'[p] = NoReader
      BY <1>1, <2>1 DEF LostWith
    <3> QED
      BY <3>1, NoReaderIsIdle DEF ReaderFits
  <2>2. CASE p \notin LostWith(n)
    BY <1>1, <2>2, OldReaderFits
  <2> QED
    BY <2>1, <2>2
<1> QED
  BY <1>1, <1>2, <1>3, <1>4, BookTypes, Assemble

LEMMA ForgetStep ==
    ASSUME BaseInv, NEW id \in ListenerIds, forget(id), UNCHANGED <<readers, written>>
    PROVE  BaseInv'
<1>1. /\ Hub!forget(id) /\ UNCHANGED <<storeVars, newest, tasks, faults>>
  BY DEF forget
<1>2. /\ phase[id] = "dropped" /\ phase'[id] = "unused"
      /\ \A l \in ListenerIds : l # id => phase'[l] = phase[l] /\ place'[l] = place[l]
  BY <1>1, BookTypes, HubFacts DEF Hub!forget
<1>3. StoreFits' /\ Hub!HubInv' /\ TasksFit
  BY <1>1, BookTypes, StoreAlone, HubStep DEF Hub!HubNext, TasksFit
<1>4. ASSUME NEW p \in Readers
      PROVE  ReaderFits(p)'
  <2>1. CASE p = id
    BY <1>2, <2>1, BookTypes, NoReaderIsIdle DEF ReaderFits
  <2>2. CASE p # id
    BY <1>2, <2>2, OldReaderFits
  <2> QED
    BY <2>1, <2>2
<1> QED
  BY <1>1, <1>3, <1>4, BookTypes, Assemble

-----------------------------------------------------------------------------
(***************************************************************************)
(* The steps of tasks.                                                     *)
(***************************************************************************)

\* An event is handed to a hub.
LEMMA HandedStep ==
    ASSUME BaseInv, NEW n \in Nodes, NEW to \in Recipients, NEW e \in Events \cup {Gone},
           Hub!notify(n, to, e), TasksFit,
           UNCHANGED <<storeVars, newest, faults, readers, written>>
    PROVE  BaseInv'
<1>1. UNCHANGED <<place, phase>>
  BY BookTypes, NotifyEffect
<1>2. Hub!HubInv'
  BY BookTypes, HubStep DEF Hub!HubNext, Hub!Event
<1> QED
  BY <1>1, <1>2, BookTypes, StoreAlone, QuietStep

LEMMA TaskStepFits ==
    ASSUME BaseInv, TaskSteps
    PROVE  BaseInv' /\ receipts' = receipts
<1>0. /\ None \in Maybe(Nodes) /\ Nodes \subseteq Maybe(Nodes)
      /\ routes \in [Recipients -> Maybe(Nodes)]
  BY DEF Maybe, BaseInv, StoreInv, StoreTypeOK
<1>1. UNCHANGED <<readers, written>>
  BY DEF TaskSteps
<1>2. ASSUME UNCHANGED <<storeVars, hubVars, newest, faults>>, TasksFit
      PROVE  BaseInv' /\ receipts' = receipts
  <2>1. UNCHANGED <<place, phase>>
    BY <1>2 DEF hubVars
  <2> QED
    BY <1>1, <1>2, <2>1, BookTypes, StoreAlone, HubAlone, QuietStep
<1>3. ASSUME NEW t \in tasks, notify_local(t)
      PROVE  BaseInv' /\ receipts' = receipts
  <2>1. t.step = "notify" /\ Hub!notify(t.node, t.to, Head(t.events))
        /\ UNCHANGED <<storeVars, newest, faults>>
    BY <1>3 DEF notify_local
  <2>2. Head(t.events) \in Events \cup {Gone} /\ t.node \in Nodes /\ t.to \in Recipients
    BY <2>1, TaskKnown
  <2>3. TasksFit
    <3>1. CASE Done(t)
      BY <3>1, DoneFits
    <3>2. CASE Clustered /\ Goto(t, "route", None)
      BY <1>0, <2>1, <3>2, GotoFits
    <3> QED
      BY <1>3, <3>1, <3>2 DEF notify_local
  <2> QED
    BY <1>1, <2>1, <2>2, <2>3, HandedStep, StoreAlone
<1>4. ASSUME NEW t \in tasks, forward(t)
      PROVE  BaseInv' /\ receipts' = receipts
  <2>1. t.step = "forward" /\ Hub!notify(t.target, t.to, Head(t.events))
        /\ UNCHANGED <<storeVars, newest, faults>>
    BY <1>4 DEF forward
  <2>2. /\ Head(t.events) \in Events \cup {Gone} /\ t.target \in Nodes /\ t.to \in Recipients
        /\ Clustered
    BY <2>1, TaskKnown, NotifyAssumption
  <2>3. TasksFit
    <3>1. CASE Done(t)
      BY <3>1, DoneFits
    <3>2. CASE Goto(t, "clear", t.target)
      BY <1>0, <2>1, <2>2, <3>2, GotoFits
    <3> QED
      BY <1>4, <3>1, <3>2 DEF forward
  <2> QED
    BY <1>1, <2>1, <2>2, <2>3, HandedStep, StoreAlone
<1>5. ASSUME NEW t \in tasks, read_route(t)
      PROVE  BaseInv' /\ receipts' = receipts
  <2>1. t.step = "route" /\ UNCHANGED <<storeVars, hubVars, newest, faults>>
    BY <1>5 DEF read_route
  <2>2. t.to \in Recipients /\ Clustered
    BY <2>1, TaskKnown, NotifyAssumption
  <2>3. TasksFit
    <3>1. CASE Done(t)
      BY <3>1, DoneFits
    <3>2. ASSUME ~Done(t)
          PROVE  \E step \in {"forward", "clear"} : \E n \in Nodes : Goto(t, step, n)
      <4>1. routes[t.to] # None
        BY <1>5, <3>2 DEF read_route
      <4>2. routes[t.to] \in Nodes
        BY <1>0, <2>2, <4>1 DEF Maybe
      <4> QED
        BY <1>5, <4>1, <4>2 DEF read_route
    <3>3. ASSUME NEW step \in {"forward", "clear"}, NEW n \in Nodes, Goto(t, step, n)
          PROVE  TasksFit
      BY <1>0, <2>1, <2>2, <3>3, GotoFits
    <3> QED
      BY <3>1, <3>2, <3>3
  <2> QED
    BY <1>2, <2>1, <2>3
<1>6. ASSUME NEW t \in tasks, clear_stale(t)
      PROVE  BaseInv' /\ receipts' = receipts
  <2>1. /\ t.step = "clear" /\ clear_route(t.to, t.target) /\ Done(t)
        /\ UNCHANGED <<hubVars, newest, faults>>
    BY <1>6 DEF clear_stale
  <2>2. StoreNext
    BY <2>1, TaskKnown DEF StoreNext
  <2>3. UNCHANGED <<messages, returned, last_seq, receipts>>
    BY <2>1 DEF clear_route, mailVars, receiptVars
  <2>4. StoreFits' /\ Hub!HubInv' /\ TasksFit
    BY <2>1, <2>2, <2>3, BookTypes, StoreQuiet, HubAlone, DoneFits
  <2> QED
    BY <1>1, <2>1, <2>3, <2>4, BookTypes, QuietStep DEF hubVars
<1> QED
  BY <1>3, <1>4, <1>5, <1>6 DEF TaskSteps

LEMMA FaultStep ==
    ASSUME BaseInv, Faults
    PROVE  BaseInv' /\ receipts' = receipts
<1>1. ASSUME NEW n \in EndpointNodes \ ConnectNodes, crash_stream_node(n)
      PROVE  BaseInv' /\ receipts' = receipts
  <2>1. n \in Nodes /\ UNCHANGED storeVars
    BY <1>1, ReceiptStreamAssumption DEF crash_stream_node, crash
  <2> QED
    BY <1>1, <2>1, CrashStep, StoreAlone
<1>2. ASSUME faults < MaxFaults, faults' = faults + 1, TasksFit,
             UNCHANGED <<storeVars, hubVars, newest, readers, written>>
      PROVE  BaseInv' /\ receipts' = receipts
  <2>1. UNCHANGED <<place, phase>> /\ faults' \in 0..MaxFaults
    BY <1>2, BookTypes DEF hubVars
  <2> QED
    BY <1>2, <2>1, BookTypes, StoreAlone, HubAlone, QuietStep
<1>3. ASSUME NEW t \in tasks, NEW connected \in BOOLEAN, forward_fails(t, connected)
      PROVE  TasksFit /\ faults < MaxFaults /\ faults' = faults + 1
             /\ UNCHANGED <<storeVars, hubVars, newest>>
  <2>1. /\ faults < MaxFaults /\ faults' = faults + 1 /\ t.step = "forward"
        /\ UNCHANGED <<storeVars, hubVars, newest>>
    BY <1>3 DEF forward_fails
  <2>2. t.target \in Nodes /\ t.target \in Maybe(Nodes) /\ Clustered
    BY <2>1, TaskKnown, NotifyAssumption DEF Maybe
  <2>3. CASE Done(t)
    BY <2>1, <2>3, DoneFits
  <2>4. CASE Goto(t, "clear", t.target)
    BY <2>1, <2>2, <2>4, GotoFits
  <2> QED
    BY <1>3, <2>3, <2>4 DEF forward_fails
<1>4. ASSUME NEW t \in tasks, cancelled(t)
      PROVE  TasksFit /\ faults < MaxFaults /\ faults' = faults + 1
             /\ UNCHANGED <<storeVars, hubVars, newest>>
  BY <1>4 DEF cancelled, TasksFit
<1>5. CASE \E n \in EndpointNodes \ ConnectNodes : crash_stream_node(n)
  BY <1>1, <1>5
<1>6. ASSUME ~\E n \in EndpointNodes \ ConnectNodes : crash_stream_node(n)
      PROVE  /\ TasksFit /\ faults < MaxFaults /\ faults' = faults + 1
             /\ UNCHANGED <<storeVars, hubVars, newest, readers, written>>
  BY <1>3, <1>4, <1>6 DEF Faults
<1> QED
  BY <1>2, <1>5, <1>6

LEMMA OwingStep ==
    ASSUME BaseInv, OwingSteps
    PROVE  BaseInv'
<1>1. StoreFits' /\ UNCHANGED <<hubVars, newest, faults, readers, written>>
  BY OwingStore
<1>2. Hub!HubInv' /\ UNCHANGED <<place, phase>>
  BY <1>1, BookTypes, HubAlone DEF hubVars
<1>3. ASSUME Owes
      PROVE  TasksFit
  <2>1. CASE UNCHANGED <<receipts, tasks>>
    BY <2>1 DEF TasksFit
  <2>2. ASSUME NEW n \in Nodes, QueuesNew,
               tasks' = tasks \cup notify_receipts(n, receipts' \ receipts)
        PROVE  TasksFit
    <3>1. PICK new \in SUBSET Events :
              /\ new = receipts' \ receipts /\ IsFiniteSet(new)
              /\ \A q, r \in new : q.seq = r.seq => q = r
      BY <2>2 DEF QueuesNew
    <3>2. \A t \in notify_receipts(n, new) : IsTask(t) /\ TaskFits(t)
      BY <3>1, AnnouncementsFit
    <3> QED
      BY <2>2, <3>1, <3>2 DEF TasksFit
  <2> QED
    BY <1>3, <2>1, <2>2 DEF Owes
<1>4. ASSUME NEW n \in EndpointNodes, NEW r \in Rsubs, delete_rsub(n, r)
      PROVE  TasksFit
  <2>1. PICK u : u = Announce(r, n, r, <<Gone>>)
    OBVIOUS
  <2>2. tasks' = tasks \cup {u}
    BY <1>4, <2>1 DEF delete_rsub
  <2>3. PICK events \in Seq(Events \cup {Gone}) :
            events # <<>> /\ Items(events) = {Gone} /\ u = Announce(r, n, r, events)
    <3>1. <<Gone>> \in Seq(Events \cup {Gone})
      OBVIOUS
    <3>2. <<Gone>> # <<>> /\ Items(<<Gone>>) = {Gone}
      BY DEF Items
    <3> QED
      BY <2>1, <3>1, <3>2
  <2>4. events # <<>> /\ Items(events) = {Gone}
    BY <2>3
  <2>5. IsTask(u) /\ u.job = r /\ u.to = r /\ u.events = events /\ u.step = "notify"
    <3>1. PICK m \in Nodes, to \in Recipients : m = n /\ to = r
      BY ReceiptStreamAssumption DEF Recipients
    <3>2. PICK v : v = u /\ v = Announce(r, m, to, events)
      BY <2>3, <3>1
    <3>3. IsTask(v) /\ v.job = r /\ v.to = to /\ v.events = events /\ v.step = "notify"
      BY ONLY <2>3, <3>1, <3>2, AnnounceIsTask
    <3> QED
      BY <3>1, <3>2, <3>3
  <2>6. TaskFits(u)
    BY <2>4, <2>5 DEF TaskFits
  <2> QED
    BY <2>2, <2>5, <2>6 DEF TasksFit
<1>5. TasksFit
  BY <1>3, <1>4, OwingStore
<1> QED
  BY <1>1, <1>2, <1>5, BookTypes, QuietStep

-----------------------------------------------------------------------------
(***************************************************************************)
(* The invariant.                                                          *)
(***************************************************************************)

\* The messages there are at first.
FirstMessage(s, r, id) ==
    [id |-> id, uaid |-> s.uaid, channel_id |-> s.channel_id, topic |-> None, accepted |-> 0,
     expiry |-> 1, rsub |-> r]

LEMMA InitFits ==
    ASSUME ReceiptInit
    PROVE  BaseInv
<1>0. PICK s \in Subscription, r \in Rsubs :
          /\ channels = {s}
          /\ granted = {s}
          /\ push = [p \in PushIds |-> IF p = s.push THEN <<s.uaid, s.channel_id>> ELSE None]
          /\ messages = {FirstMessage(s, r, id) : id \in MsgIds}
  BY DEF ReceiptInit, FirstMessage
<1>1. /\ user_agents = [u \in Uaids |-> [bridge |-> None, last_seen |-> 0]]
      /\ topics = [x \in Slots |-> None]
      /\ receipt_subs = Rsubs /\ receipts = {} /\ settled = {} /\ returned = {}
      /\ last_seq = 0 /\ issued = Uaids \cup MsgIds \cup Rsubs
      /\ routes = [to \in Recipients |-> None]
      /\ newest = [to \in Recipients |-> None] /\ tasks = {} /\ faults = 0
      /\ readers = [p \in Readers |-> NoReader] /\ written = {}
      /\ NotifyInit
  BY DEF ReceiptInit, NotifyInit
<1>2. 0 \in Times /\ 1 \in Times /\ 0 \in 0..MaxFaults
  BY ReceiptStreamAssumption, NotifyAssumption
<1>3. ASSUME NEW id \in MsgIds
      PROVE  /\ FirstMessage(s, r, id) \in Message
             /\ FirstMessage(s, r, id).id = id /\ FirstMessage(s, r, id).topic = None
  BY <1>2 DEF FirstMessage, Message, Subscription, Maybe
<1>4. /\ messages \subseteq Message /\ Ids(messages) \subseteq MsgIds
      /\ \A m, n \in messages : m.id = n.id => m = n
      /\ \A m \in messages : m.topic = None
  BY <1>0, <1>3 DEF Ids
<1>5. IsFiniteSet(messages) /\ Cardinality(messages) <= Cardinality(MsgIds)
  <2>1. PICK f : f = [id \in MsgIds |-> FirstMessage(s, r, id)]
    OBVIOUS
  <2>2. f \in Surjection(MsgIds, messages)
    BY <1>0, <2>1 DEF Surjection
  <2> QED
    BY <2>2, FS_Surjection, ReceiptStreamAssumption
<1>6. StoreTypeOK
  <2>1. user_agents \in [Uaids -> Maybe(UserAgent)]
    BY <1>1, <1>2 DEF UserAgent, Maybe
  <2>2. push \in [PushIds -> Maybe(Uaids \X ChannelIds)]
    BY <1>0 DEF Subscription, Maybe
  <2> QED
    BY <1>0, <1>1, <1>4, <2>1, <2>2 DEF StoreTypeOK, Maybe
<1>7. MailApart
  BY <1>1, <1>4, <1>5 DEF MailApart
<1>8. TopicSlotsExact /\ OneOutcome /\ QueuesOwned /\ QueueBounded
  BY <1>1, <1>4 DEF TopicSlotsExact, OneOutcome, QueuesOwned, QueueBounded
<1>9. PushIndexed
  BY <1>0 DEF PushIndexed, Subscription
<1>10. StoreInv
  BY <1>6, <1>7, <1>8, <1>9 DEF StoreInv
<1>11. Counted
  <2>1. IsFiniteSet(returned) /\ Cardinality(returned) = 0
    BY <1>1, FS_EmptySet, Zenon
  <2>2. Cardinality(messages) \in Nat
    BY <1>5, FS_CardinalityType
  <2> QED
    BY <1>1, <1>5, <2>1, <2>2 DEF Counted
<1>12. Hub!HubInv /\ phase = [id \in ListenerIds |-> "unused"]
  BY <1>1, InitMakesHub
<1>13. ReceiptTypeOK
  BY <1>1, <1>2, NoReaderIsIdle DEF ReceiptTypeOK, NotifyTypeOK, Maybe
<1>14. \A p \in Readers : ReaderFits(p)
  BY <1>1, <1>12, NoReaderIsIdle DEF ReaderFits
<1> QED
  BY <1>1, <1>10, <1>11, <1>12, <1>13, <1>14 DEF BaseInv

\* Every step keeps the invariant, and no receipt leaves before it is written.
Removal == \A q \in receipts \ receipts' : q \in written \/ q.rsub \notin receipt_subs'

LEMMA OwingRemoves ==
    ASSUME BaseInv, OwingSteps
    PROVE  Removal
<1>1. ASSUME Owes
      PROVE  Removal
  BY <1>1 DEF Owes, QueuesNew, Removal
<1>2. ASSUME NEW n \in EndpointNodes, NEW r \in Rsubs, delete_rsub(n, r)
      PROVE  Removal
  BY <1>2 DEF delete_rsub, delete_receipt_sub, Removal
<1> QED
  BY <1>1, <1>2, OwingStore

LEMMA BaseStep ==
    ASSUME BaseInv, ReceiptNext
    PROVE  BaseInv' /\ Removal
<1>0. ASSUME receipts' = receipts
      PROVE  Removal
  BY <1>0 DEF Removal
<1>1. CASE OwingSteps
  BY <1>1, OwingStep, OwingRemoves
<1>2. CASE TaskSteps
  BY <1>0, <1>2, TaskStepFits
<1>3. CASE Faults
  BY <1>0, <1>3, FaultStep
<1>4. ASSUME NEW p \in Readers, backlog_done(p) \/ client_leaves(p)
      PROVE  BaseInv' /\ Removal
  <2>1. End(p) /\ UNCHANGED <<storeVars, newest, tasks, faults, written>>
    BY <1>4 DEF backlog_done, client_leaves
  <2> QED
    BY <1>0, <2>1, EndStep, StoreAlone
<1>5. ASSUME NEW p \in Readers, delete_written(p)
      PROVE  BaseInv' /\ Removal
  BY <1>5, DeleteStep DEF Removal
<1>6. ASSUME NEW p \in Readers, receipt_sub_exists(p) \/ queued_receipts(p) \/ write_backlog(p)
      PROVE  BaseInv' /\ Removal
  <2>1. UNCHANGED storeVars
    BY <1>6 DEF receipt_sub_exists, queued_receipts, write_backlog
  <2> QED
    BY <1>0, <1>6, <2>1, CheckStep, ReadStep, BacklogStep, StoreAlone
<1>7. ASSUME NEW id \in ListenerIds, hub_event(id) \/ hub_closed(id) \/ drop_stream(id)
      PROVE  BaseInv' /\ Removal
  <2>1. UNCHANGED storeVars
    BY <1>7 DEF hub_event, hub_closed, drop_stream, drop_listener
  <2> QED
    BY <1>0, <1>7, <2>1, EventStep, ClosedStep, DropStep, StoreAlone
<1>8. ASSUME NEW id \in ListenerIds, listen_done(id)
      PROVE  BaseInv' /\ Removal
  <2>1. UNCHANGED receipts
    BY <1>8 DEF listen_done, take_route, set_route, receiptVars
  <2> QED
    BY <1>0, <1>8, <2>1, ListenStep
<1>9. CASE ReaderSteps
  BY <1>4, <1>5, <1>6, <1>7, <1>8, <1>9 DEF ReaderSteps
<1>10. ASSUME NEW n \in EndpointNodes, NEW r \in Rsubs, NEW id \in ListenerIds, open(n, r, id)
       PROVE  BaseInv' /\ Removal
  BY <1>0, <1>10, OpenStep, StoreAlone DEF open
<1>11. ASSUME NEW r \in Rsubs, NEW p \in PollIds, poll(r, p)
       PROVE  BaseInv' /\ Removal
  BY <1>0, <1>11, PollStep, StoreAlone DEF poll
<1>12. CASE ClientSteps
  BY <1>4, <1>10, <1>11, <1>12 DEF ClientSteps
<1>13. ASSUME NEW id \in ListenerIds, forget(id), UNCHANGED <<readers, written>>
       PROVE  BaseInv' /\ Removal
  BY <1>0, <1>13, ForgetStep, StoreAlone DEF forget
<1> QED
  BY <1>1, <1>2, <1>3, <1>9, <1>12, <1>13 DEF ReceiptNext

LEMMA BaseStutter ==
    ASSUME BaseInv, UNCHANGED vars
    PROVE  BaseInv' /\ Removal
<1>1. UNCHANGED <<storeVars, hubVars, newest, tasks, faults, readers, written>>
  BY DEF vars, notifyVars
<1>2. StoreFits' /\ receipts' = receipts /\ Hub!HubInv' /\ TasksFit /\ UNCHANGED <<place, phase>>
  BY <1>1, BookTypes, StoreAlone, HubAlone DEF TasksFit, hubVars
<1> QED
  BY <1>1, <1>2, BookTypes, QuietStep DEF Removal

LEMMA BaseInvariant == ReceiptSpec => []BaseInv
<1>1. ReceiptInit => BaseInv
  BY InitFits
<1>2. BaseInv /\ [ReceiptNext]_vars => BaseInv'
  BY BaseStep, BaseStutter
<1> QED
  BY <1>1, <1>2, PTL DEF ReceiptSpec

\* In every deployment, with or without a cluster and whatever faults occur, a
\* task announces receipts to the receipt subscription they belong to, a stream
\* reads the queue it listens for, and deletes only what was written; the
\* store and the hubs keep their own invariants.
THEOREM StreamsFit == ReceiptSpec => [](ReceiptTypeOK /\ StoreConsistent /\ Hub!HubInv)
<1>1. BaseInv => ReceiptTypeOK /\ StoreConsistent /\ Hub!HubInv
  BY InvResolves DEF BaseInv, StoreInv, StoreConsistent
<1> QED
  BY <1>1, BaseInvariant, PTL

\* A receipt leaves the queue only after a reader has written it, or with its
\* receipt subscription, however streams, wait=0 reads, deletions and crashes
\* interleave and whatever the deployment.
THEOREM WrittenBeforeRemoved == ReceiptSpec => LeavesWhenWritten
<1>1. BaseInv /\ [ReceiptNext]_vars => [Removal]_vars
  BY BaseStep, BaseStutter
<1> QED
  BY <1>1, BaseInvariant, PTL DEF ReceiptSpec, LeavesWhenWritten, Removal

-----------------------------------------------------------------------------
(***************************************************************************)
(* On a single node no receipt is forgotten.                               *)
(***************************************************************************)

\* Stream `id` does not begin to serve, and keeps what it has.
Still(id) ==
    Serves(id)' =>
        /\ Serves(id) /\ place'[id] = place[id]
        /\ readers'[id].seen = readers[id].seen
        /\ readers'[id].backlog = readers[id].backlog
        /\ Items(queues[id]) \subseteq Items(queues'[id])

LEMMA StillServed ==
    ASSUME NEW id \in ListenerIds, Served(id), Still(id),
           \A q \in receipts' : q \in receipts \/ Announced(q)',
           \A q \in receipts : Announced(q) => Announced(q)'
    PROVE  Served(id)'
<1> SUFFICES ASSUME Serves(id)', NEW q \in receipts', q.rsub = RecipientOf(id)'
             PROVE  Reaches(id, q)'
  BY DEF Served, Queued
<1>1. CASE Announced(q)'
  BY <1>1 DEF Reaches
<1>2. CASE q \in receipts /\ ~Announced(q)'
  <2>1. q \in Queued(RecipientOf(id)) /\ Serves(id)
    BY <1>2 DEF Still, Queued, RecipientOf
  <2>2. Reaches(id, q)
    BY <2>1 DEF Served
  <2> QED
    BY <1>2, <2>2 DEF Reaches, Still
<1> QED
  BY <1>1, <1>2

\* A stream that stops listening, or has not read the queue, is not served.
LEMMA NotServing ==
    ASSUME NEW id \in ListenerIds,
           phase'[id] # "listening" \/ readers'[id].stage \notin {"writing", "deleting"}
    PROVE  Served(id)'
BY DEF Served, Serves

\* What a stream that the step is not about is.
Untouched(id) ==
    /\ phase'[id] = phase[id] /\ place'[id] = place[id] /\ readers'[id] = readers[id]
    /\ Items(queues[id]) \subseteq Items(queues'[id])
    /\ \A n \in Nodes, to \in Recipients : slots'[n][to] = slots[n][to] \/ slots'[n][to] # id

LEMMA UntouchedStill ==
    ASSUME BaseInv, NEW id \in ListenerIds, Untouched(id)
    PROVE  Still(id)
<1> SUFFICES ASSUME Serves(id)'
             PROVE  Serves(id)
  BY DEF Still, Untouched
<1>1. phase[id] = "listening" /\ readers[id].stage \in {"writing", "deleting"}
  BY DEF Serves, Untouched
<1>2. Hub!Attached(id)
  BY <1>1, BookTypes, DetachedStays DEF Serves, Untouched
<1> QED
  BY <1>1, <1>2 DEF Serves

LEMMA OthersUntouched ==
    ASSUME UNCHANGED hubVars, NEW id \in ListenerIds, readers'[id] = readers[id]
    PROVE  Untouched(id)
BY DEF Untouched, hubVars

LEMMA OwingServes ==
    ASSUME BaseInv, OwingSteps, NEW id \in ListenerIds, Served(id)
    PROVE  Served(id)'
<1>1. UNCHANGED <<hubVars, readers>>
  BY OwingStore
<1>2. Still(id)
  BY <1>1, OthersUntouched, UntouchedStill
<1>3. ASSUME tasks \subseteq tasks', \A q \in receipts' : q \in receipts \/ Announced(q)'
      PROVE  Served(id)'
  <2>1. \A q \in receipts : Announced(q) => Announced(q)'
    BY <1>3 DEF Announced
  <2> QED
    BY <1>2, <1>3, <2>1, StillServed
<1>4. ASSUME NEW n \in Nodes, QueuesNew,
             tasks' = tasks \cup notify_receipts(n, receipts' \ receipts)
      PROVE  Served(id)'
  <2>1. PICK new \in SUBSET Events :
            /\ new = receipts' \ receipts /\ IsFiniteSet(new)
            /\ \A q, r \in new : q.seq = r.seq => q = r
    BY <1>4 DEF QueuesNew
  <2>2. \A q \in new : \E t \in notify_receipts(n, new) : q \in Items(t.events)
    BY <2>1, AnnouncementsFit
  <2>3. \A q \in new : Announced(q)'
    BY <1>4, <2>1, <2>2 DEF Announced
  <2> QED
    BY <1>3, <1>4, <2>1, <2>3
<1>5. CASE Owes
  BY <1>3, <1>4, <1>5 DEF Owes
<1>6. ASSUME NEW n \in EndpointNodes, NEW r \in Rsubs, delete_rsub(n, r)
      PROVE  Served(id)'
  BY <1>3, <1>6 DEF delete_rsub, delete_receipt_sub
<1> QED
  BY <1>5, <1>6, OwingStore

\* A stream that keeps its slot when an event is handed to it gets the event.
LEMMA HandedServes ==
    ASSUME BaseInv, NEW n \in Nodes, NEW to \in Recipients, NEW e \in Events \cup {Gone},
           Hub!notify(n, to, e), UNCHANGED readers, NEW id \in ListenerIds
    PROVE  Untouched(id) /\ (slots'[n][to] = id => e \in Items(queues'[id]))
<1>1. /\ place' = place /\ phase' = phase
      /\ \A x \in Nodes, r \in Recipients :
            slots'[x][r] = slots[x][r] \/ slots'[x][r] = None
      /\ Items(queues[id]) \subseteq Items(queues'[id])
      /\ slots[n][to] # None => slots'[n][to] = None \/ e \in Items(queues'[slots[n][to]])
  BY BookTypes, NotifyEffect
<1>2. id # None
  BY NotifyAssumption
<1> QED
  BY <1>1, <1>2 DEF Untouched

\* A task hands its first event to the stream, or takes the stream's slot.
LEMMA NotifyServes ==
    ASSUME BaseInv, OneNode, NEW t \in tasks, notify_local(t), UNCHANGED <<readers, written>>,
           NEW id \in ListenerIds, Served(id)
    PROVE  Served(id)'
<1>1. /\ t.step = "notify" /\ Hub!notify(t.node, t.to, Head(t.events)) /\ Done(t)
      /\ UNCHANGED storeVars
  BY DEF notify_local, OneNode
<1>2. PICK n \in Nodes, to \in Recipients, e \in Events \cup {Gone} :
          n = t.node /\ to = t.to /\ e = Head(t.events) /\ Hub!notify(n, to, e)
  BY <1>1, TaskKnown
<1>3. t.events # <<>> /\ \A q \in Items(t.events) : q # Gone => q.rsub = to
  BY <1>1, <1>2, TaskKnown DEF TaskFits
<1>4. Untouched(id) /\ (slots'[n][to] = id => e \in Items(queues'[id]))
  BY <1>2, HandedServes
<1>5. Still(id)
  BY <1>4, UntouchedStill
<1>6. \A q \in receipts : q # Gone /\ q \in Events
  BY NotifyAssumption DEF BaseInv
<1>7. receipts' = receipts
  BY <1>1, StoreAlone
<1> SUFFICES ASSUME Serves(id)', NEW q \in receipts, q.rsub = RecipientOf(id)'
             PROVE  Reaches(id, q)'
  BY <1>7 DEF Served, Queued
<1>8. Serves(id) /\ RecipientOf(id)' = RecipientOf(id)
  BY <1>5 DEF Still, RecipientOf
<1>9. Reaches(id, q)
  BY <1>8 DEF Served, Queued
<1>10. ASSUME Announced(q)
       PROVE  Announced(q)' \/ (q = e /\ q \in Items(t.events))
  <2>1. PICK u \in tasks : q \in Items(u.events)
    BY <1>10 DEF Announced
  <2>2. CASE u # t
    BY <1>1, <2>1, <2>2, DoneFits DEF Announced
  <2>3. CASE u = t
    BY <1>1, <1>2, <1>3, <2>1, <2>3, DoneFits DEF Announced
  <2> QED
    BY <2>2, <2>3
<1>11. ASSUME q = e, q \in Items(t.events)
       PROVE  q \in Items(queues'[id])
  <2>1. to = RecipientOf(id)
    BY <1>3, <1>6, <1>8, <1>11
  <2>2. phase[id] # "unused" /\ phase'[id] # "unused" /\ place'[id] = place[id]
    BY <1>4, <1>8 DEF Serves, Untouched
  <2>3. NodeOf(id) = n /\ place[id] = <<n, to>>
    BY <1>2, <2>1, <2>2, BookTypes, PlaceFacts DEF OneNode
  <2>4. slots'[n][to] = id
    BY <2>2, <2>3 DEF Serves, Hub!Attached
  <2> QED
    BY <1>4, <1>11, <2>4
<1> QED
  BY <1>4, <1>9, <1>10, <1>11 DEF Reaches, Untouched

\* No announcement that matters is lost with a handler, and a crash of the only
\* node ends every stream.
LEMMA FaultServes ==
    ASSUME BaseInv, OneNode, Faults, NEW id \in ListenerIds, Served(id)
    PROVE  Served(id)'
<1>1. ASSUME NEW n \in EndpointNodes \ ConnectNodes, crash_stream_node(n)
      PROVE  Served(id)'
  <2>1. phase' = [l \in ListenerIds |-> IF l \in LostWith(n) THEN "dropped" ELSE phase[l]]
    BY <1>1 DEF crash_stream_node, crash
  <2>2. n \in Nodes
    BY <1>1, ReceiptStreamAssumption
  <2>3. phase[id] = "listening" => id \in LostWith(n)
    BY <2>2, BookTypes, PlaceFacts DEF OneNode, LostWith
  <2>4. phase'[id] # "listening"
    BY <2>1, <2>3
  <2> QED
    BY <2>4, NotServing
<1>2. ASSUME NEW t \in tasks, NEW connected \in BOOLEAN, forward_fails(t, connected)
      PROVE  Served(id)'
  BY <1>2, TaskKnown DEF forward_fails, OneNode
<1>3. ASSUME NEW t \in tasks, t.job \in Rsubs, cancelled(t), UNCHANGED readers
      PROVE  Served(id)'
  <2>1. UNCHANGED <<storeVars, hubVars>> /\ tasks' = tasks \ {t}
    BY <1>3 DEF cancelled
  <2>2. Still(id) /\ receipts' = receipts
    BY <1>3, <2>1, OthersUntouched, UntouchedStill, StoreAlone
  <2>3. ASSUME NEW q \in receipts, Announced(q)
        PROVE  Announced(q)'
    <3>1. PICK u \in tasks : q \in Items(u.events)
      BY <2>3 DEF Announced
    <3>2. q # Gone
      BY NotifyAssumption DEF BaseInv
    <3>3. u # t
      BY <1>3, <3>1, <3>2, TaskKnown DEF TaskFits
    <3> QED
      BY <2>1, <3>1, <3>3 DEF Announced
  <2> QED
    BY <2>2, <2>3, StillServed
<1> QED
  BY <1>1, <1>2, <1>3 DEF Faults

\* A stream that a step is not about, when the step queues nothing.
LEMMA OtherServed ==
    ASSUME BaseInv, NEW id \in ListenerIds, Served(id), Untouched(id),
           receipts' \subseteq receipts, tasks \subseteq tasks'
    PROVE  Served(id)'
<1>1. Still(id)
  BY UntouchedStill
<1>2. \A q \in receipts : Announced(q) => Announced(q)'
  BY DEF Announced
<1> QED
  BY <1>1, <1>2, StillServed

\* The stream that a step is about keeps what it has, or has written it.
LEMMA OwnServed ==
    ASSUME NEW id \in ListenerIds, Served(id), readers[id].stage \in {"writing", "deleting"},
           receipts' \subseteq receipts, UNCHANGED <<slots, place, phase, tasks>>,
           \A q \in receipts :
              \/ q.seq \in readers[id].seen
              \/ q \in readers[id].backlog
              \/ q \in Items(queues[id])
              =>
              \/ q.seq \in readers'[id].seen
              \/ q \in readers'[id].backlog
              \/ q \in Items(queues'[id])
    PROVE  Served(id)'
<1> SUFFICES ASSUME Serves(id)', NEW q \in receipts', q.rsub = RecipientOf(id)'
             PROVE  Reaches(id, q)'
  BY DEF Served, Queued
<1>1. Serves(id) /\ q \in Queued(RecipientOf(id))
  BY DEF Serves, Hub!Attached, Queued, RecipientOf
<1>2. Reaches(id, q)
  BY <1>1 DEF Served
<1> QED
  BY <1>2 DEF Reaches, Announced

\* A reader's step that leaves the hub alone leaves the other streams alone.
LEMMA OtherReader ==
    ASSUME BaseInv, NEW p \in Readers, NEW r, readers' = [readers EXCEPT ![p] = r],
           NEW id \in ListenerIds, Served(id), id # p,
           UNCHANGED <<slots, place, phase, tasks>>, queues'[id] = queues[id],
           receipts' \subseteq receipts
    PROVE  Served(id)'
<1>1. readers'[id] = readers[id]
  BY BookTypes DEF Readers
<1>2. Untouched(id)
  BY <1>1 DEF Untouched
<1> QED
  BY <1>2, OtherServed

LEMMA EndServes ==
    ASSUME BaseInv, NEW p \in Readers, End(p), UNCHANGED <<storeVars, tasks>>,
           NEW id \in ListenerIds, Served(id)
    PROVE  Served(id)'
<1>1. receipts' = receipts
  BY StoreAlone
<1>2. CASE p \in PollIds
  <2>1. readers' = [readers EXCEPT ![p] = NoReader] /\ UNCHANGED hubVars /\ p \notin ListenerIds
    BY <1>2, ReceiptStreamAssumption DEF End
  <2> QED
    BY <1>1, <2>1, OtherReader DEF hubVars
<1>3. CASE p \notin PollIds
  <2>1. p \in ListenerIds /\ Hub!leave(p) /\ UNCHANGED readers
    BY <1>3 DEF End, Readers
  <2>2. /\ phase'[p] = "ended" /\ UNCHANGED <<slots, place, queues>>
        /\ \A l \in ListenerIds : l # p => phase'[l] = phase[l]
    BY <2>1, BookTypes, HubFacts DEF Hub!leave
  <2>3. CASE id = p
    BY <2>2, <2>3, NotServing
  <2>4. CASE id # p
    <3>1. Untouched(id)
      BY <2>1, <2>2, <2>4 DEF Untouched
    <3> QED
      BY <1>1, <3>1, OtherServed
  <2> QED
    BY <2>3, <2>4
<1> QED
  BY <1>2, <1>3

LEMMA CheckServes ==
    ASSUME BaseInv, NEW p \in Readers, receipt_sub_exists(p), NEW id \in ListenerIds, Served(id)
    PROVE  Served(id)'
<1>1. UNCHANGED <<storeVars, tasks>> /\ receipts' = receipts
  BY StoreAlone DEF receipt_sub_exists
<1>2. CASE End(p)
  BY <1>1, <1>2, EndServes
<1>3. CASE readers' = [readers EXCEPT ![p].stage = "reading"] /\ UNCHANGED hubVars
  <2>1. PICK o \in Reader : o = readers[p]
    BY BookTypes
  <2>2. PICK r : r = [o EXCEPT !.stage = "reading"]
    OBVIOUS
  <2>3. readers' = [readers EXCEPT ![p] = r] /\ r.stage = "reading"
    BY <1>3, <2>1, <2>2, BookTypes DEF Reader
  <2>4. CASE id = p
    <3>1. readers'[id] = r
      BY <2>3, <2>4, BookTypes
    <3> QED
      BY <2>3, <3>1, NotServing
  <2>5. CASE id # p
    BY <1>1, <1>3, <2>3, <2>5, OtherReader DEF hubVars
  <2> QED
    BY <2>4, <2>5
<1> QED
  BY <1>2, <1>3 DEF receipt_sub_exists

\* The backlog of a stream is the whole queue.
LEMMA ReadServes ==
    ASSUME BaseInv, NEW p \in Readers, queued_receipts(p), NEW id \in ListenerIds, Served(id)
    PROVE  Served(id)'
<1>1. PICK backlog : backlog = Queued(readers[p].rsub)
  OBVIOUS
<1>2. /\ p \in ListenerIds => phase[p] = "listening"
      /\ readers' = [readers EXCEPT ![p].stage = "writing", ![p].backlog = backlog]
      /\ UNCHANGED <<storeVars, hubVars, tasks>>
  BY <1>1 DEF queued_receipts, Running, notifyVars
<1>3. PICK o \in Reader : o = readers[p]
  BY BookTypes
<1>4. PICK r : r = [o EXCEPT !.stage = "writing", !.backlog = backlog]
  OBVIOUS
<1>5. readers' = [readers EXCEPT ![p] = r] /\ r.backlog = backlog
  BY <1>2, <1>3, <1>4, BookTypes DEF Reader
<1>6. receipts' = receipts
  BY <1>2, StoreAlone
<1>7. CASE id = p
  <2>1. readers'[id].backlog = backlog
    BY <1>5, <1>7, BookTypes
  <2>2. readers[id].rsub = RecipientOf(id) /\ RecipientOf(id)' = RecipientOf(id)
    BY <1>2, <1>7, BookTypes DEF ReaderFits, RecipientOf, hubVars
  <2>3. \A q \in Queued(RecipientOf(id))' : q \in readers'[id].backlog
    BY <1>1, <1>6, <1>7, <2>1, <2>2 DEF Queued
  <2> QED
    BY <2>3 DEF Served, Reaches
<1>8. CASE id # p
  BY <1>2, <1>5, <1>6, <1>8, OtherReader DEF hubVars
<1> QED
  BY <1>7, <1>8

LEMMA DeleteServes ==
    ASSUME BaseInv, NEW p \in Readers, delete_written(p), NEW id \in ListenerIds, Served(id)
    PROVE  Served(id)'
<1>1. /\ readers[p].stage = "deleting"
      /\ readers' = [readers EXCEPT ![p].stage = "writing", ![p].receipt = None]
      /\ UNCHANGED <<hubVars, tasks>>
  BY DEF delete_written, Running, notifyVars
<1>2. receipts' \subseteq receipts
  BY DeleteStep
<1>3. PICK o \in Reader : o = readers[p]
  BY BookTypes
<1>4. PICK r : r = [o EXCEPT !.stage = "writing", !.receipt = None]
  OBVIOUS
<1>5. /\ readers' = [readers EXCEPT ![p] = r]
      /\ r.seen = o.seen /\ r.backlog = o.backlog
  BY <1>1, <1>3, <1>4, BookTypes DEF Reader
<1>6. CASE id = p
  <2>1. readers'[id].seen = readers[id].seen /\ readers'[id].backlog = readers[id].backlog
    BY <1>3, <1>5, <1>6, BookTypes
  <2> QED
    BY <1>1, <1>2, <1>6, <2>1, OwnServed DEF hubVars
<1>7. CASE id # p
  BY <1>1, <1>2, <1>5, <1>7, OtherReader DEF hubVars
<1> QED
  BY <1>6, <1>7

\* What a stream takes from its backlog or its channel it has written, now or
\* earlier.
LEMMA EmitServes ==
    ASSUME BaseInv, NEW p \in Readers, NEW q \in Events, Emit(p, q),
           readers[p].stage = "writing", receipts' = receipts,
           UNCHANGED <<slots, place, phase, tasks>>,
           p \in ListenerIds => \A e \in Items(queues[p]) : e = q \/ e \in Items(queues'[p]),
           NEW id \in ListenerIds, Served(id), id # p => queues'[id] = queues[id]
    PROVE  Served(id)'
<1>1. PICK r \in Reader :
          /\ readers' = [readers EXCEPT ![p] = r]
          /\ r.seen = readers[p].seen \cup {q.seq}
          /\ r.backlog = readers[p].backlog \ {q}
  BY EmitEffect
<1>2. CASE id = p
  <2>1. readers'[id] = r
    BY <1>1, <1>2, BookTypes
  <2>2. /\ readers'[id].seen = readers[id].seen \cup {q.seq}
        /\ readers'[id].backlog = readers[id].backlog \ {q}
    BY <1>1, <1>2, <2>1
  <2> QED
    BY <1>2, <2>2, OwnServed
<1>3. CASE id # p
  BY <1>1, <1>3, OtherReader
<1> QED
  BY <1>2, <1>3

LEMMA BacklogServes ==
    ASSUME BaseInv, NEW p \in Readers, write_backlog(p), NEW id \in ListenerIds, Served(id)
    PROVE  Served(id)'
<1>1. /\ readers[p].stage = "writing" /\ readers[p].backlog # {}
      /\ Emit(p, Oldest(readers[p].backlog))
      /\ UNCHANGED <<storeVars, notifyVars>>
  BY DEF write_backlog, Running
<1>2. readers[p].backlog \subseteq Events
  BY BookTypes, ReaderFields
<1>3. PICK q \in Events : q = Oldest(readers[p].backlog)
  BY <1>1, <1>2, OldestExists, ReceiptStreamAssumption
<1>4. UNCHANGED <<slots, place, phase, queues, tasks>> /\ receipts' = receipts
  BY <1>1, StoreAlone DEF notifyVars, hubVars
<1> QED
  BY <1>1, <1>3, <1>4, EmitServes

LEMMA EventServes ==
    ASSUME BaseInv, NEW p \in ListenerIds, hub_event(p), NEW id \in ListenerIds, Served(id)
    PROVE  Served(id)'
<1>1. /\ readers[p].stage = "writing" /\ Hub!recv(p)
      /\ UNCHANGED <<storeVars, tasks>>
  BY DEF hub_event, Serving, Running
<1>2. /\ queues \in [ListenerIds -> Seq(Events \cup {Gone})]
      /\ queues[p] # <<>> /\ UNCHANGED <<slots, place>>
      /\ queues' = [queues EXCEPT ![p] = Tail(@)]
      /\ phase' = [phase EXCEPT ![p] = IF Head(queues[p]) = Gone THEN "ended" ELSE @]
  BY <1>1, BookTypes, HubFacts DEF Hub!recv
<1>3. receipts' = receipts /\ p \in Readers
  BY <1>1, StoreAlone DEF Readers
<1>4. queues'[p] = Tail(queues[p]) /\ \A l \in ListenerIds : l # p => queues'[l] = queues[l]
  BY <1>2
<1>5. CASE Head(queues[p]) = Gone
  <2>1. UNCHANGED readers
    BY <1>5 DEF hub_event
  <2>2. phase'[p] = "ended" /\ \A l \in ListenerIds : l # p => phase'[l] = phase[l]
    BY <1>2, <1>5, BookTypes, HubFacts
  <2>3. CASE id = p
    BY <2>2, <2>3, NotServing
  <2>4. CASE id # p
    <3>1. Untouched(id)
      BY <1>2, <1>4, <2>1, <2>2, <2>4 DEF Untouched
    <3> QED
      BY <1>1, <1>3, <3>1, OtherServed
  <2> QED
    BY <2>3, <2>4
<1>6. CASE Head(queues[p]) # Gone
  <2>1. queues[p] \in Seq(Events \cup {Gone})
    BY <1>2
  <2>2. /\ Items(queues[p]) = Items(Tail(queues[p])) \cup {Head(queues[p])}
        /\ Head(queues[p]) \in Events \cup {Gone}
    BY <1>2, <2>1, ChannelItems
  <2>3. PICK q \in Events : q = Head(queues[p])
    BY <1>6, <2>2
  <2>4. Emit(p, q)
    BY <1>6, <2>3 DEF hub_event
  <2>5. phase' = phase
    BY <1>2, <1>6, BookTypes, HubFacts
  <2>6. \A e \in Items(queues[p]) : e = q \/ e \in Items(queues'[p])
    BY <1>4, <2>2, <2>3
  <2> QED
    BY <1>1, <1>2, <1>3, <1>4, <2>3, <2>4, <2>5, <2>6, EmitServes
<1> QED
  BY <1>5, <1>6

LEMMA ClosedServes ==
    ASSUME BaseInv, NEW p \in ListenerIds, hub_closed(p), NEW id \in ListenerIds, Served(id)
    PROVE  Served(id)'
<1>1. Hub!recv_closed(p) /\ UNCHANGED <<storeVars, tasks, readers>>
  BY DEF hub_closed
<1>2. /\ phase'[p] = "ended" /\ UNCHANGED <<slots, place, queues>>
      /\ \A l \in ListenerIds : l # p => phase'[l] = phase[l]
  BY <1>1, BookTypes, HubFacts DEF Hub!recv_closed
<1>3. CASE id = p
  BY <1>2, <1>3, NotServing
<1>4. CASE id # p
  <2>1. Untouched(id) /\ receipts' = receipts
    BY <1>1, <1>2, <1>4, StoreAlone DEF Untouched
  <2> QED
    BY <1>1, <2>1, OtherServed
<1> QED
  BY <1>3, <1>4

LEMMA DropServes ==
    ASSUME BaseInv, NEW p \in ListenerIds, drop_stream(p), NEW id \in ListenerIds, Served(id)
    PROVE  Served(id)'
<1>1. /\ Hub!drop_listener(p) /\ tasks \subseteq tasks' /\ UNCHANGED storeVars
      /\ readers' = [readers EXCEPT ![p] = NoReader]
  BY DEF drop_stream, drop_listener
<1>2. /\ phase[p] = "ended" /\ slots' = Hub!unregister(p) /\ UNCHANGED place
      /\ phase'[p] = "dropped"
      /\ \A l \in ListenerIds : l # p => phase'[l] = phase[l] /\ queues'[l] = queues[l]
  BY <1>1, BookTypes, HubFacts DEF Hub!drop_listener
<1>3. CASE id = p
  BY <1>2, <1>3, NotServing
<1>4. CASE id # p
  <2>1. \A x \in Nodes, r \in Recipients :
           slots'[x][r] = IF slots[x][r] = p THEN None ELSE slots[x][r]
    BY <1>2, BookTypes, UnregisterEffect
  <2>2. id # None
    BY NotifyAssumption
  <2>3. readers'[id] = readers[id]
    BY <1>1, <1>4, BookTypes DEF Readers
  <2>4. Untouched(id)
    BY <1>2, <1>4, <2>1, <2>2, <2>3 DEF Untouched
  <2> QED
    BY <1>1, <2>4, StoreAlone, OtherServed
<1> QED
  BY <1>3, <1>4

\* A new stream reads the queue after it has registered; the one that it
\* replaces does not get its slot back.
LEMMA OpenServes ==
    ASSUME BaseInv, NEW n \in EndpointNodes, NEW to \in Rsubs, NEW p \in ListenerIds,
           open(n, to, p), NEW id \in ListenerIds, Served(id)
    PROVE  Served(id)'
<1>1. PICK stage \in {"registered", "checking"} :
          stage = IF Clustered THEN "registered" ELSE "checking"
  OBVIOUS
<1>2. /\ Hub!register(n, to, p)
      /\ readers' = [readers EXCEPT ![p] = Opened(to, stage)]
      /\ UNCHANGED <<storeVars, tasks>>
  BY <1>1 DEF open, listen
<1>3. n \in Nodes /\ to \in Recipients /\ p \in Readers
  BY ReceiptStreamAssumption DEF Recipients, Readers
<1>4. /\ id # p => phase'[id] = phase[id] /\ place'[id] = place[id]
      /\ slots'[n][to] = p
      /\ Items(queues[id]) \subseteq Items(queues'[id])
  BY <1>2, <1>3, BookTypes, RegisterEffect
<1>5. \A x \in Nodes, r \in Recipients : x # n \/ r # to => slots'[x][r] = slots[x][r]
  BY <1>2, <1>3, BookTypes, RegisterEffect
<1>6. CASE id = p
  <2>1. readers'[id].stage = stage
    BY <1>1, <1>2, <1>3, <1>6, BookTypes, NewReaders
  <2> QED
    BY <1>1, <2>1, NotServing
<1>7. CASE id # p
  <2>1. readers'[id] = readers[id]
    BY <1>2, <1>7, BookTypes DEF Readers
  <2>2. Untouched(id)
    BY <1>4, <1>5, <1>7, <2>1 DEF Untouched
  <2> QED
    BY <1>2, <2>2, StoreAlone, OtherServed
<1> QED
  BY <1>6, <1>7

LEMMA PollServes ==
    ASSUME BaseInv, NEW to \in Rsubs, NEW p \in PollIds, poll(to, p),
           NEW id \in ListenerIds, Served(id)
    PROVE  Served(id)'
<1>1. /\ readers' = [readers EXCEPT ![p] = Opened(to, "checking")]
      /\ UNCHANGED <<storeVars, slots, place, phase, queues, tasks>>
  BY DEF poll, notifyVars, hubVars
<1>2. p \in Readers /\ id # p /\ receipts' = receipts
  BY <1>1, ReceiptStreamAssumption, StoreAlone DEF Readers
<1> QED
  BY <1>1, <1>2, OtherReader

LEMMA ForgetServes ==
    ASSUME BaseInv, NEW p \in ListenerIds, forget(p), UNCHANGED readers,
           NEW id \in ListenerIds, Served(id)
    PROVE  Served(id)'
<1>1. Hub!forget(p) /\ UNCHANGED <<storeVars, tasks>>
  BY DEF forget
<1>2. /\ phase'[p] = "unused" /\ UNCHANGED <<slots, queues>>
      /\ \A l \in ListenerIds : l # p => phase'[l] = phase[l] /\ place'[l] = place[l]
  BY <1>1, BookTypes, HubFacts DEF Hub!forget
<1>3. CASE id = p
  BY <1>2, <1>3, NotServing
<1>4. CASE id # p
  <2>1. Untouched(id)
    BY <1>2, <1>4 DEF Untouched
  <2> QED
    BY <1>1, <2>1, StoreAlone, OtherServed
<1> QED
  BY <1>3, <1>4

LEMMA ServedStep ==
    ASSUME BaseInv, OneNode, ReceiptNext, NEW id \in ListenerIds, Served(id)
    PROVE  Served(id)'
<1>1. CASE OwingSteps
  BY <1>1, OwingServes
<1>2. CASE TaskSteps
  <2>1. ASSUME NEW t \in tasks, read_route(t) \/ forward(t) \/ clear_stale(t)
        PROVE  FALSE
    BY <2>1, TaskKnown DEF read_route, forward, clear_stale, OneNode
  <2> QED
    BY <1>2, <2>1, NotifyServes DEF TaskSteps
<1>3. CASE Faults
  BY <1>3, FaultServes
<1>4. ASSUME NEW p \in Readers, backlog_done(p) \/ client_leaves(p)
      PROVE  Served(id)'
  BY <1>4, EndServes DEF backlog_done, client_leaves
<1>5. ASSUME NEW p \in ListenerIds, listen_done(p)
      PROVE  FALSE
  BY <1>5, BookTypes DEF listen_done, Running, ReaderFits, Readers, OneNode
<1>6. CASE ReaderSteps
  BY <1>4, <1>5, <1>6, CheckServes, ReadServes, BacklogServes, DeleteServes, EventServes,
     ClosedServes, DropServes DEF ReaderSteps
<1>7. CASE ClientSteps
  BY <1>4, <1>7, OpenServes, PollServes DEF ClientSteps
<1>8. CASE \E p \in ListenerIds : forget(p) /\ UNCHANGED <<readers, written>>
  BY <1>8, ForgetServes
<1> QED
  BY <1>1, <1>2, <1>3, <1>6, <1>7, <1>8 DEF ReceiptNext

LEMMA ServedStutter ==
    ASSUME BaseInv, UNCHANGED vars, NEW id \in ListenerIds, Served(id)
    PROVE  Served(id)'
<1>1. UNCHANGED <<storeVars, hubVars, tasks, readers>>
  BY DEF vars, notifyVars
<1>2. Untouched(id) /\ receipts' = receipts
  BY <1>1, OthersUntouched, StoreAlone
<1> QED
  BY <1>1, <1>2, OtherServed

LEMMA ReceiptInvariant ==
    ASSUME OneNode
    PROVE  ReceiptSpec => []ReceiptIInv
<1>1. ReceiptInit => ReceiptIInv
  <2> SUFFICES ASSUME ReceiptInit
               PROVE  \A id \in ListenerIds : Served(id)
    BY InitFits DEF ReceiptIInv
  <2>1. NotifyInit
    BY DEF ReceiptInit
  <2>2. phase = [id \in ListenerIds |-> "unused"]
    BY <2>1, InitMakesHub
  <2> QED
    BY <2>2 DEF Served, Serves
<1>2. ReceiptIInv /\ [ReceiptNext]_vars => ReceiptIInv'
  BY BaseStep, BaseStutter, ServedStep, ServedStutter DEF ReceiptIInv
<1> QED
  BY <1>1, <1>2, PTL DEF ReceiptSpec

\* On a single node, however streams replace each other, fall behind, end and
\* overlap with wait=0 reads, and whichever handler is dropped: every receipt
\* queued for the current stream has been written to it, is in its backlog or
\* its channel, or is announced by a task under way.  In a cluster this fails: a
\* task can clear the route of a stream that has just registered.
THEOREM NoReceiptMissed ==
    ASSUME OneNode
    PROVE  ReceiptSpec => []ReceiptInv
<1>1. ReceiptIInv => ReceiptInv
  <2> SUFFICES ASSUME ReceiptIInv, NEW id \in ListenerIds, Current(id),
                      NEW q \in Queued(RecipientOf(id))
               PROVE  \/ q.seq \in readers[id].seen
                      \/ q \in readers[id].backlog
                      \/ \E i \in 1..Len(queues[id]) : queues[id][i] = q
                      \/ OnItsWay(q, id)
    BY DEF ReceiptIInv, BaseInv, ReceiptInv, NoReceiptForgotten
  <2>1. Reaches(id, q)
    BY DEF ReceiptIInv, Served, Serves, Current
  <2>2. CASE q \in Items(queues[id])
    BY <2>2 DEF Items
  <2>3. ASSUME Announced(q)
        PROVE  OnItsWay(q, id)
    <3>1. PICK t \in tasks : q \in Items(t.events)
      BY <2>3 DEF Announced
    <3>2. PICK i \in 1..Len(t.events) : t.events[i] = q
      BY <3>1 DEF Items
    <3>3. t.step = "notify"
      BY TaskKnown DEF ReceiptIInv, OneNode
    <3> QED
      BY <3>2, <3>3 DEF OnItsWay
  <2> QED
    BY <2>1, <2>2, <2>3 DEF Reaches
<1> QED
  BY <1>1, ReceiptInvariant, PTL

==============================================================================
