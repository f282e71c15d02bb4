---------------------------- MODULE NotifyProofs ----------------------------
(***************************************************************************)
(* What the proofs about sessions and about receipt streams share: the     *)
(* hubs, whose steps are those of Hub, except for crashes, so that their   *)
(* invariant is taken from HubProofs; and what the operations of Notify do *)
(* to them.                                                                *)
(***************************************************************************)
EXTENDS Notify, MemoryStoreProofs, SequenceTheorems

HubP == INSTANCE HubProofs WITH HubNodes <- Nodes, HubTo <- Recipients, Payloads <- Events, Stuck <- {}, Vacant <- None

Items(q) == {q[i] : i \in 1..Len(q)}

\* Every step of a hub keeps the hub's invariant.
LEMMA HubStep ==
    ASSUME Hub!HubInv, Hub!HubNext
    PROVE  Hub!HubInv'
<1>1. Hub!HubInv <=> HubP!HubInv
  BY DEF Hub!HubInv, HubP!HubInv, Hub!HubTypeOK, HubP!HubTypeOK, Hub!SlotsHoldOpenListeners,
         HubP!SlotsHoldOpenListeners, Hub!Phases, HubP!Phases, Hub!Event, HubP!Event
<1>2. Hub!HubNext => HubP!HubNext
  BY DEF Hub!HubNext, HubP!HubNext, Hub!Event, HubP!Event, Hub!register, HubP!register,
         Hub!Room, HubP!Room, Hub!notify, HubP!notify, Hub!Notified, HubP!Notified,
         Hub!recv, HubP!recv, Hub!recv_closed, HubP!recv_closed, Hub!Attached,
         HubP!Attached, Hub!leave, HubP!leave, Hub!drop_listener, HubP!drop_listener,
         Hub!unregister, HubP!unregister, Hub!forget, HubP!forget
<1>3. HubP!HubInv'
  BY <1>1, <1>2, HubP!HubStepKeepsInv, NotifyAssumption DEF HubP!HubAssumption
<1> QED
  BY <1>3
  DEF Hub!HubInv, HubP!HubInv, Hub!HubTypeOK, HubP!HubTypeOK, Hub!SlotsHoldOpenListeners,
      HubP!SlotsHoldOpenListeners, Hub!Phases, HubP!Phases, Hub!Event, HubP!Event

\* The invariant of the hubs, spelled out.
LEMMA HubFacts ==
    ASSUME Hub!HubInv
    PROVE  /\ slots \in [Nodes -> [Recipients -> ListenerIds \cup {None}]]
           /\ place \in [ListenerIds -> (Nodes \X Recipients) \cup {None}]
           /\ \A id \in ListenerIds : place[id] = None <=> phase[id] = "unused"
           /\ phase \in [ListenerIds -> {"unused", "listening", "ended", "dropped"}]
           /\ queues \in [ListenerIds -> Seq(Events \cup {Gone})]
           /\ \A n \in Nodes, to \in Recipients : slots[n][to] # None =>
                 /\ slots[n][to] \in ListenerIds
                 /\ place[slots[n][to]] = <<n, to>>
                 /\ phase[slots[n][to]] \in {"listening", "ended"}
BY DEF Hub!HubInv, Hub!HubTypeOK, Hub!SlotsHoldOpenListeners, Hub!Phases, Hub!Event

\* A connection in use has a place.
LEMMA PlaceFacts ==
    ASSUME Hub!HubInv, NEW id \in ListenerIds, phase[id] # "unused"
    PROVE  /\ NodeOf(id) \in Nodes /\ RecipientOf(id) \in Recipients
           /\ place[id] = <<NodeOf(id), RecipientOf(id)>>
BY HubFacts DEF NodeOf, RecipientOf

\* What appending and reading do to the events in a channel.
LEMMA ChannelItems ==
    ASSUME NEW S, NEW q \in Seq(S), NEW e
    PROVE  /\ e \in S => Items(Append(q, e)) = Items(q) \cup {e}
           /\ q # <<>> => /\ Items(q) = Items(Tail(q)) \cup {Head(q)}
                          /\ Head(q) \in S /\ Head(q) \in Items(q)
           /\ Items(<<>>) = {}
<1>1. Len(q) \in Nat
  BY LenProperties
<1>2. ASSUME e \in S
      PROVE  Items(Append(q, e)) = Items(q) \cup {e}
  <2>1. /\ Len(Append(q, e)) = Len(q) + 1
        /\ \A i \in 1..Len(q) : Append(q, e)[i] = q[i]
        /\ Append(q, e)[Len(q) + 1] = e
    BY <1>2, AppendProperties
  <2>2. 1..(Len(q) + 1) = (1..Len(q)) \cup {Len(q) + 1}
    BY <1>1
  <2> QED
    BY <2>1, <2>2 DEF Items
<1>3. ASSUME q # <<>>
      PROVE  /\ Items(q) = Items(Tail(q)) \cup {Head(q)}
             /\ Head(q) \in S /\ Head(q) \in Items(q)
  <2>1. /\ Len(Tail(q)) = Len(q) - 1
        /\ \A i \in 1..Len(Tail(q)) : Tail(q)[i] = q[i + 1]
        /\ Head(q) = q[1] /\ Len(q) >= 1 /\ Head(q) \in S
    BY <1>3, <1>1, HeadTailProperties, EmptySeq
  <2>2. \A i \in 1..Len(q) : i = 1 \/ (i - 1) \in 1..Len(Tail(q))
    BY <1>1, <2>1
  <2>3. \A i \in 1..Len(Tail(q)) : i + 1 \in 1..Len(q)
    BY <1>1, <2>1
  <2>4. 1 \in 1..Len(q)
    BY <1>1, <2>1
  <2>5. Items(q) \subseteq Items(Tail(q)) \cup {Head(q)}
    <3> SUFFICES ASSUME NEW i \in 1..Len(q), i # 1
                 PROVE  q[i] \in Items(Tail(q))
      BY <2>1 DEF Items
    <3>1. PICK j \in 1..Len(Tail(q)) : j = i - 1
      BY <2>2
    <3>2. q[i] = Tail(q)[j]
      BY <3>1, <2>1
    <3> QED
      BY <3>2 DEF Items
  <2> QED
    BY <2>1, <2>3, <2>4, <2>5 DEF Items
<1> QED
  BY <1>2, <1>3 DEF Items

\* A crash empties one node's hub and drops its listeners.
LEMMA CrashKeepsHub ==
    ASSUME Hub!HubInv, NEW n \in Nodes, crash(n)
    PROVE  Hub!HubInv'
<1>1. /\ slots' = [slots EXCEPT ![n] = [to \in Recipients |-> None]]
      /\ phase' = [id \in ListenerIds |-> IF id \in LostWith(n) THEN "dropped" ELSE phase[id]]
      /\ queues' = [id \in ListenerIds |-> IF id \in LostWith(n) THEN <<>> ELSE queues[id]]
      /\ place' = place
  BY DEF crash
<1>2. \A id \in LostWith(n) : phase[id] # "unused" /\ NodeOf(id) = n /\ id \in ListenerIds
  BY DEF LostWith
<1>3. slots' \in [Nodes -> [Recipients -> ListenerIds \cup {None}]]
  BY <1>1, HubFacts
<1>4. queues' \in [ListenerIds -> Seq(Events \cup {Gone})]
  BY <1>1, HubFacts, EmptySeq
<1>5. \A id \in ListenerIds : Len(queues'[id]) <= Capacity
  BY <1>1, EmptySeq, NotifyAssumption DEF Hub!HubInv, Hub!HubTypeOK
<1>6. /\ phase' \in [ListenerIds -> {"unused", "listening", "ended", "dropped"}]
      /\ \A id \in ListenerIds : place'[id] = None <=> phase'[id] = "unused"
  BY <1>1, <1>2, HubFacts
<1>7. ASSUME NEW x \in Nodes, NEW to \in Recipients, slots'[x][to] # None
      PROVE  /\ place'[slots'[x][to]] = <<x, to>>
             /\ phase'[slots'[x][to]] \in {"listening", "ended"}
  <2>1. x # n /\ slots'[x][to] = slots[x][to]
    BY <1>1, <1>7, HubFacts
  <2>2. PICK l \in ListenerIds : l = slots[x][to] /\ place[l] = <<x, to>>
                                /\ phase[l] \in {"listening", "ended"}
    BY <1>7, <2>1, HubFacts
  <2>3. l \notin LostWith(n)
    BY <1>2, <2>1, <2>2 DEF NodeOf
  <2> QED
    BY <1>1, <2>1, <2>2, <2>3
<1> QED
  BY <1>1, <1>3, <1>4, <1>5, <1>6, <1>7, HubFacts
  DEF Hub!HubInv, Hub!HubTypeOK, Hub!SlotsHoldOpenListeners, Hub!Phases, Hub!Event

\* What Hub::notify does: the listener in the slot gets the event or loses its
\* slot.
LEMMA NotifyEffect ==
    ASSUME Hub!HubInv, NEW n \in Nodes, NEW to \in Recipients, NEW e \in Events \cup {Gone},
           Hub!notify(n, to, e)
    PROVE  /\ UNCHANGED <<place, phase>>
           /\ Hub!Notified(n, to) = "Absent" <=> slots[n][to] = None
           /\ \A x \in Nodes, r \in Recipients :
                 \/ slots'[x][r] = slots[x][r]
                 \/ x = n /\ r = to /\ slots'[x][r] = None /\ slots[x][r] # None
           /\ \A l \in ListenerIds :
                 \/ queues'[l] = queues[l]
                 \/ l = slots[n][to] /\ Items(queues'[l]) = Items(queues[l]) \cup {e}
           /\ slots[n][to] # None => \/ slots'[n][to] = None
                                     \/ e \in Items(queues'[slots[n][to]])
<1>1. /\ slots \in [Nodes -> [Recipients -> ListenerIds \cup {None}]]
      /\ queues \in [ListenerIds -> Seq(Events \cup {Gone})]
      /\ slots[n][to] # None => slots[n][to] \in ListenerIds /\ phase[slots[n][to]] # "dropped"
  BY HubFacts
<1>2. /\ Hub!Notified(n, to) = "Absent" <=> slots[n][to] = None
      /\ Hub!Notified(n, to) = "Delivered" => slots[n][to] # None
  BY <1>1 DEF Hub!Notified
<1>3. UNCHANGED <<place, phase>>
  BY DEF Hub!notify
<1>4. CASE Hub!Notified(n, to) = "Delivered"
  <2>1. PICK l \in ListenerIds : l = slots[n][to]
    BY <1>1, <1>2, <1>4
  <2>2. queues' = [queues EXCEPT ![l] = Append(@, e)] /\ slots' = slots
    BY <1>4, <2>1 DEF Hub!notify
  <2>3. queues'[l] = Append(queues[l], e) /\ \A x \in ListenerIds : x # l => queues'[x] = queues[x]
    BY <1>1, <2>2
  <2>4. Items(queues'[l]) = Items(queues[l]) \cup {e}
    BY <1>1, <2>3, ChannelItems
  <2> QED
    BY <1>2, <1>3, <2>1, <2>2, <2>3, <2>4
<1>5. CASE Hub!Notified(n, to) # "Delivered"
  <2>1. slots' = [slots EXCEPT ![n][to] = None] /\ queues' = queues
    BY <1>5 DEF Hub!notify
  <2> QED
    BY <1>1, <1>2, <1>3, <2>1
<1> QED
  BY <1>4, <1>5

\* What a registration does to the channels: only the listener it replaces
\* gets anything, and that is Gone.
LEMMA RegisterEffect ==
    ASSUME Hub!HubInv, NEW n \in Nodes, NEW to \in Recipients, NEW id \in ListenerIds,
           Hub!register(n, to, id)
    PROVE  /\ phase[id] = "unused" /\ phase'[id] = "listening" /\ place'[id] = <<n, to>>
           /\ \A l \in ListenerIds : l # id => phase'[l] = phase[l] /\ place'[l] = place[l]
           /\ slots'[n][to] = id
           /\ \A x \in Nodes, r \in Recipients :
                 x # n \/ r # to => slots'[x][r] = slots[x][r]
           /\ \A l \in ListenerIds :
                 \/ queues'[l] = queues[l]
                 \/ /\ l = slots[n][to] /\ l # id /\ place[l] = <<n, to>>
                    /\ phase[l] \in {"listening", "ended"}
                    /\ Items(queues'[l]) = Items(queues[l]) \cup {Gone}
           /\ queues'[id] = queues[id]
<1>1. /\ slots \in [Nodes -> [Recipients -> ListenerIds \cup {None}]]
      /\ queues \in [ListenerIds -> Seq(Events \cup {Gone})]
      /\ phase \in [ListenerIds -> {"unused", "listening", "ended", "dropped"}]
      /\ place \in [ListenerIds -> (Nodes \X Recipients) \cup {None}]
      /\ slots[n][to] # None =>
            /\ slots[n][to] \in ListenerIds /\ place[slots[n][to]] = <<n, to>>
            /\ phase[slots[n][to]] \in {"listening", "ended"}
  BY HubFacts
<1>2. /\ phase[id] = "unused" /\ phase' = [phase EXCEPT ![id] = "listening"]
      /\ place' = [place EXCEPT ![id] = <<n, to>>]
      /\ slots' = [slots EXCEPT ![n][to] = id]
  BY DEF Hub!register
<1>3. \A l \in ListenerIds :
         \/ queues'[l] = queues[l]
         \/ /\ l = slots[n][to] /\ place[l] = <<n, to>>
            /\ phase[l] \in {"listening", "ended"}
            /\ Items(queues'[l]) = Items(queues[l]) \cup {Gone}
  <2>1. CASE queues' = queues
    BY <2>1
  <2>2. CASE slots[n][to] # None /\ queues' = [queues EXCEPT ![slots[n][to]] = Append(@, Gone)]
    <3>1. PICK old \in ListenerIds : old = slots[n][to]
      BY <1>1, <2>2
    <3>2. /\ queues'[old] = Append(queues[old], Gone)
          /\ \A l \in ListenerIds : l # old => queues'[l] = queues[l]
      BY <1>1, <2>2, <3>1
    <3>3. Items(queues'[old]) = Items(queues[old]) \cup {Gone}
      <4>1. queues[old] \in Seq(Events \cup {Gone}) /\ Gone \in Events \cup {Gone}
        BY <1>1
      <4>2. Items(Append(queues[old], Gone)) = Items(queues[old]) \cup {Gone}
        BY <4>1, ChannelItems
      <4> QED
        BY <3>2, <4>2
    <3> QED
      BY <1>1, <3>1, <3>2, <3>3, NotifyAssumption
  <2> QED
    BY <2>1, <2>2 DEF Hub!register
<1>4. \A l \in ListenerIds : phase[l] \in {"listening", "ended"} => l # id
  BY <1>2
<1>5. /\ phase'[id] = "listening" /\ place'[id] = <<n, to>>
      /\ \A l \in ListenerIds : l # id => phase'[l] = phase[l] /\ place'[l] = place[l]
  BY <1>1, <1>2
<1>6. /\ slots'[n][to] = id
      /\ \A x \in Nodes, r \in Recipients : x # n \/ r # to => slots'[x][r] = slots[x][r]
  BY <1>1, <1>2
<1> QED
  BY <1>2, <1>3, <1>4, <1>5, <1>6

\* The slots that a dropped listener leaves.
LEMMA UnregisterEffect ==
    ASSUME Hub!HubInv, NEW id \in ListenerIds, phase[id] # "unused", slots' = Hub!unregister(id)
    PROVE  \A x \in Nodes, r \in Recipients :
              slots'[x][r] = IF slots[x][r] = id THEN None ELSE slots[x][r]
<1>1. /\ slots \in [Nodes -> [Recipients -> ListenerIds \cup {None}]]
      /\ NodeOf(id) \in Nodes /\ RecipientOf(id) \in Recipients
      /\ place[id] = <<NodeOf(id), RecipientOf(id)>>
  BY HubFacts, PlaceFacts
<1>2. \A x \in Nodes, r \in Recipients : slots[x][r] = id => x = NodeOf(id) /\ r = RecipientOf(id)
  BY HubFacts, NotifyAssumption DEF NodeOf, RecipientOf
<1>3. slots' = IF slots[NodeOf(id)][RecipientOf(id)] = id
               THEN [slots EXCEPT ![NodeOf(id)][RecipientOf(id)] = None] ELSE slots
  BY <1>1 DEF Hub!unregister, Hub!Attached, NodeOf, RecipientOf
<1> HIDE DEF NodeOf, RecipientOf
<1> QED
  BY <1>1, <1>2, <1>3

\* Nobody gets back into a slot.
LEMMA DetachedStays ==
    ASSUME Hub!HubInv, NEW l \in ListenerIds, phase[l] # "unused", place'[l] = place[l],
           \A x \in Nodes, r \in Recipients : slots'[x][r] = slots[x][r] \/ slots'[x][r] # l
    PROVE  Hub!Attached(l)' => Hub!Attached(l)
BY PlaceFacts DEF Hub!Attached, NodeOf, RecipientOf

-----------------------------------------------------------------------------
(***************************************************************************)
(* The tasks that steps spawn.                                             *)
(***************************************************************************)

\* A task as announced.
LEMMA AnnounceIsTask ==
    ASSUME NEW job, NEW n \in Nodes, NEW to \in Recipients,
           NEW events \in Seq(Events \cup {Gone}), NEW u, u = Announce(job, n, to, events)
    PROVE  /\ IsTask(u)
           /\ u.job = job /\ u.node = n /\ u.to = to /\ u.events = events
           /\ u.step = "notify" /\ u.target = None
<1>1. u = [job |-> job, node |-> n, to |-> to, events |-> events, step |-> "notify",
           target |-> None]
  BY DEF Announce
<1>2. PICK v : v = u
  OBVIOUS
<1>3. DOMAIN v = {"job", "node", "to", "events", "step", "target"}
  BY <1>1, <1>2, Zenon
<1>4. /\ v.job = job /\ v.node = n /\ v.to = to /\ v.events = events
      /\ v.step = "notify" /\ v.target = None
  BY <1>1, <1>2
<1>5. IsTask(v)
  BY <1>3, <1>4 DEF IsTask, Maybe
<1> QED
  BY <1>2, <1>4, <1>5

\* The forward that tells a superseded node.
LEMMA GoneToIsTask ==
    ASSUME Hub!HubInv, NEW id \in ListenerIds, phase[id] # "unused", NEW p \in Nodes,
           NEW u, u = GoneTo(p, id)
    PROVE  /\ IsTask(u)
           /\ u.job = id /\ u.to = RecipientOf(id) /\ u.events = <<Gone>>
           /\ u.step = "forward" /\ u.target = p
<1>1. u = [job |-> id, node |-> NodeOf(id), to |-> RecipientOf(id), events |-> <<Gone>>,
           step |-> "forward", target |-> p]
  BY DEF GoneTo, Announce
<1>2. PICK v : v = u
  OBVIOUS
<1>3. DOMAIN v = {"job", "node", "to", "events", "step", "target"}
  BY <1>1, <1>2, Zenon
<1>4. /\ v.job = id /\ v.node = NodeOf(id) /\ v.to = RecipientOf(id) /\ v.events = <<Gone>>
      /\ v.step = "forward" /\ v.target = p
  BY <1>1, <1>2
<1>5. NodeOf(id) \in Nodes /\ RecipientOf(id) \in Recipients
  BY PlaceFacts
<1>6. <<Gone>> \in Seq(Events \cup {Gone})
  OBVIOUS
<1>7. IsTask(v)
  BY <1>3, <1>4, <1>5, <1>6 DEF IsTask, Maybe
<1> QED
  BY <1>2, <1>4, <1>7

\* The task that a dropped Listener spawns.
CleanupOf(id) ==
    [Announce(id, NodeOf(id), RecipientOf(id), <<>>) EXCEPT !.step = "clear", !.target = NodeOf(id)]

LEMMA CleanupIsTask ==
    ASSUME Hub!HubInv, NEW id \in ListenerIds, phase[id] # "unused", NEW u, u = CleanupOf(id)
    PROVE  /\ IsTask(u)
           /\ u.job = id /\ u.to = RecipientOf(id) /\ u.events = <<>>
           /\ u.step = "clear" /\ u.target = NodeOf(id) /\ u.target \in Nodes
<1>1. u = [job |-> id, node |-> NodeOf(id), to |-> RecipientOf(id), events |-> <<>>,
           step |-> "clear", target |-> NodeOf(id)]
  BY DEF CleanupOf, Announce
<1>2. PICK v : v = u
  OBVIOUS
<1>3. DOMAIN v = {"job", "node", "to", "events", "step", "target"}
  BY <1>1, <1>2, Zenon
<1>4. /\ v.job = id /\ v.node = NodeOf(id) /\ v.to = RecipientOf(id) /\ v.events = <<>>
      /\ v.step = "clear" /\ v.target = NodeOf(id)
  BY <1>1, <1>2
<1>5. NodeOf(id) \in Nodes /\ RecipientOf(id) \in Recipients
  BY PlaceFacts
<1>6. <<>> \in Seq(Events \cup {Gone})
  OBVIOUS
<1>7. IsTask(v)
  BY <1>3, <1>4, <1>5, <1>6 DEF IsTask, Maybe
<1> QED
  BY <1>2, <1>4, <1>5, <1>7

\* What is left of a task that is done with its first event.
Remaining(t) == SubSeq(t.events, 2, Len(t.events))
RestOf(t) == Announce(t.job, t.node, t.to, Remaining(t))

LEMMA RestIsTask ==
    ASSUME NEW t, IsTask(t), Remaining(t) # <<>>, NEW u, u = RestOf(t)
    PROVE  /\ IsTask(u)
           /\ u.job = t.job /\ u.node = t.node /\ u.to = t.to /\ u.step = "notify"
           /\ t.events # <<>> /\ u.events # <<>>
           /\ Items(t.events) = Items(u.events) \cup {Head(t.events)}
<1>0. PICK rest : rest = SubSeq(t.events, 2, Len(t.events)) /\ rest # <<>> /\ rest = Remaining(t)
  BY DEF Remaining
<1>1. t.events \in Seq(Events \cup {Gone}) /\ Len(t.events) \in Nat
  BY LenProperties DEF IsTask
<1>2. t.events # <<>>
  <2> SUFFICES ASSUME t.events = <<>>
               PROVE  FALSE
    OBVIOUS
  <2>1. Len(t.events) = 0
    OBVIOUS
  <2>2. rest = <<>>
    BY <1>0, <2>1, SubSeqEmpty
  <2> QED
    BY <1>0, <2>2
<1>3. rest = Tail(t.events) /\ rest \in Seq(Events \cup {Gone})
  BY <1>0, <1>1, <1>2, TailIsSubSeq, HeadTailProperties
<1>4. Items(t.events) = Items(rest) \cup {Head(t.events)}
  BY <1>1, <1>2, <1>3, ChannelItems
<1>5. PICK n \in Nodes, to \in Recipients : n = t.node /\ to = t.to
  BY DEF IsTask
<1>6. PICK job : job = t.job
  OBVIOUS
<1>7. PICK ev \in Seq(Events \cup {Gone}) : ev = rest
  BY <1>3
<1>8. PICK v : v = u /\ v = Announce(job, n, to, ev)
  BY <1>0, <1>5, <1>6, <1>7 DEF RestOf
<1>9. /\ IsTask(v)
      /\ v.job = job /\ v.node = n /\ v.to = to /\ v.step = "notify"
      /\ v.events = ev
  BY ONLY <1>5, <1>7, <1>8, AnnounceIsTask
<1> QED
  BY <1>0, <1>2, <1>4, <1>5, <1>6, <1>7, <1>8, <1>9

\* Nobody is connected at first.
LEMMA InitMakesHub ==
    ASSUME NotifyInit
    PROVE  /\ Hub!HubInv
           /\ slots = [n \in Nodes |-> [to \in Recipients |-> None]]
           /\ phase = [id \in ListenerIds |-> "unused"]
           /\ queues = [id \in ListenerIds |-> <<>>]
<1>1. /\ slots = [n \in Nodes |-> [to \in Recipients |-> None]]
      /\ place = [id \in ListenerIds |-> None]
      /\ phase = [id \in ListenerIds |-> "unused"]
      /\ queues = [id \in ListenerIds |-> <<>>]
  BY DEF NotifyInit, Hub!HubInit
<1>2. 0 <= Capacity
  BY NotifyAssumption
<1>3. Hub!HubTypeOK
  BY <1>1, <1>2, EmptySeq DEF Hub!HubTypeOK, Hub!Phases
<1> QED
  BY <1>1, <1>3 DEF Hub!HubInv, Hub!SlotsHoldOpenListeners

=============================================================================
