------------------------------ MODULE HubProofs ------------------------------
(***************************************************************************)
(* The safety properties of Hub, for every number of nodes, recipients and *)
(* listeners and every channel capacity.                                   *)
(***************************************************************************)
EXTENDS Hub, TLAPS

\* HubInv is inductive as it stands: a listener in a slot is neither unused, so
\* that a new registration cannot be in a slot already, nor dropped, so that
\* forget cannot leave a slot behind.

\* A new hub is empty.
LEMMA InitMakesHubInv ==
    ASSUME HubInit
    PROVE  HubInv
<1>1. 0 <= Capacity
  BY HubAssumption
<1>2. HubTypeOK
  BY <1>1 DEF HubInit, HubTypeOK, Phases
<1>3. SlotsHoldOpenListeners
  BY DEF HubInit, SlotsHoldOpenListeners
<1> QED
  BY <1>2, <1>3 DEF HubInv

\* What the type invariant says of one listener's channel.
LEMMA ChannelTypes ==
    ASSUME HubInv, NEW id \in ListenerIds
    PROVE  /\ queues[id] \in Seq(Event)
           /\ Len(queues[id]) \in Nat
           /\ Len(queues[id]) <= Capacity
           /\ Capacity \in Nat
BY HubAssumption DEF HubInv, HubTypeOK

\* Appending to a channel that has room keeps all channels well-typed and
\* within their capacity.
LEMMA AppendKeepsChannels ==
    ASSUME HubInv, NEW id \in ListenerIds, Room(id), NEW e \in Event,
           queues' = [queues EXCEPT ![id] = Append(@, e)]
    PROVE  /\ queues' \in [ListenerIds -> Seq(Event)]
           /\ \A l \in ListenerIds : Len(queues'[l]) <= Capacity
<1>1. queues \in [ListenerIds -> Seq(Event)]
  BY DEF HubInv, HubTypeOK
<1>2. /\ Append(queues[id], e) \in Seq(Event)
      /\ Len(Append(queues[id], e)) = Len(queues[id]) + 1
  BY ChannelTypes
<1>3. Len(queues[id]) + 1 <= Capacity
  BY ChannelTypes DEF Room
<1>4. \A l \in ListenerIds : Len(queues[l]) <= Capacity
  BY DEF HubInv, HubTypeOK
<1>5. ASSUME NEW l \in ListenerIds
      PROVE  Len(queues'[l]) <= Capacity
  <2>1. CASE l = id
    BY <2>1, <1>1, <1>2, <1>3
  <2>2. CASE l # id
    BY <2>2, <1>1, <1>4
  <2> QED
    BY <2>1, <2>2
<1> QED
  BY <1>1, <1>2, <1>5

\* A slot that holds a listener holds one that is registered for it.
LEMMA SlotTypes ==
    ASSUME HubInv, NEW n \in HubNodes, NEW to \in HubTo, slots[n][to] # Vacant
    PROVE  /\ slots[n][to] \in ListenerIds
           /\ place[slots[n][to]] = <<n, to>>
           /\ phase[slots[n][to]] \in {"listening", "ended"}
BY DEF HubInv, HubTypeOK, SlotsHoldOpenListeners

\* A registration takes its slot, and only the one it replaces hears of it.
LEMMA RegisterKeepsHub ==
    ASSUME HubInv, NEW n \in HubNodes, NEW to \in HubTo, NEW id \in ListenerIds,
           register(n, to, id)
    PROVE  HubInv'
<1>1. /\ phase[id] = "unused"
      /\ phase' = [phase EXCEPT ![id] = "listening"]
      /\ place' = [place EXCEPT ![id] = <<n, to>>]
      /\ slots' = [slots EXCEPT ![n][to] = id]
  BY DEF register
<1>2. /\ slots \in [HubNodes -> [HubTo -> ListenerIds \cup {Vacant}]]
      /\ place \in [ListenerIds -> (HubNodes \X HubTo) \cup {Vacant}]
      /\ \A l \in ListenerIds : place[l] = Vacant <=> phase[l] = "unused"
      /\ phase \in [ListenerIds -> Phases]
  BY DEF HubInv, HubTypeOK
<1>3. /\ queues' \in [ListenerIds -> Seq(Event)]
      /\ \A l \in ListenerIds : Len(queues'[l]) <= Capacity
  <2>1. CASE slots[n][to] # Vacant /\ Room(slots[n][to])
    <3>1. queues' = [queues EXCEPT ![slots[n][to]] = Append(@, Gone)]
      BY <2>1 DEF register
    <3>2. slots[n][to] \in ListenerIds
      BY <2>1, SlotTypes
    <3>3. Gone \in Event
      BY DEF Event
    <3> QED
      BY <2>1, <3>1, <3>2, <3>3, AppendKeepsChannels
  <2>2. CASE ~(slots[n][to] # Vacant /\ Room(slots[n][to]))
    BY <2>2 DEF register, HubInv, HubTypeOK
  <2> QED
    BY <2>1, <2>2
<1>4. \A l \in ListenerIds : place'[l] = Vacant <=> phase'[l] = "unused"
  <2>1. <<n, to>> # Vacant
    BY HubAssumption
  <2> QED
    BY <1>1, <1>2, <2>1
<1>5. HubTypeOK'
  BY <1>1, <1>2, <1>3, <1>4 DEF HubTypeOK, Phases
<1>6. ASSUME NEW m \in HubNodes, NEW t \in HubTo, slots'[m][t] # Vacant
      PROVE  /\ place'[slots'[m][t]] = <<m, t>>
             /\ phase'[slots'[m][t]] \in {"listening", "ended"}
  <2>1. CASE m = n /\ t = to
    BY <2>1, <1>1, <1>2
  <2>2. CASE ~(m = n /\ t = to)
    <3>1. slots'[m][t] = slots[m][t]
      BY <2>2, <1>1, <1>2
    <3>2. /\ slots[m][t] \in ListenerIds
          /\ place[slots[m][t]] = <<m, t>>
          /\ phase[slots[m][t]] \in {"listening", "ended"}
      BY <3>1, <1>6, SlotTypes
    <3>3. slots[m][t] # id
      BY <3>2, <1>1
    <3> QED
      BY <3>1, <3>2, <3>3, <1>1, <1>2
  <2> QED
    BY <2>1, <2>2
<1> QED
  BY <1>5, <1>6 DEF HubInv, SlotsHoldOpenListeners

\* An event is queued, or the slot is emptied.
LEMMA NotifyKeepsHub ==
    ASSUME HubInv, NEW n \in HubNodes, NEW to \in HubTo, NEW e \in Event,
           notify(n, to, e)
    PROVE  HubInv'
<1>1. UNCHANGED <<place, phase>>
  BY DEF notify
<1>2. CASE Notified(n, to) = "Delivered"
  <2>1. slots[n][to] # Vacant /\ Room(slots[n][to])
    BY <1>2 DEF Notified
  <2>2. queues' = [queues EXCEPT ![slots[n][to]] = Append(@, e)] /\ UNCHANGED slots
    BY <1>2 DEF notify
  <2>3. /\ queues' \in [ListenerIds -> Seq(Event)]
        /\ \A l \in ListenerIds : Len(queues'[l]) <= Capacity
    BY <2>1, <2>2, SlotTypes, AppendKeepsChannels
  <2> QED
    BY <1>1, <2>2, <2>3 DEF HubInv, HubTypeOK, SlotsHoldOpenListeners
<1>3. CASE Notified(n, to) # "Delivered"
  <2>1. slots' = [slots EXCEPT ![n][to] = Vacant] /\ UNCHANGED queues
    BY <1>3 DEF notify
  <2>2. HubTypeOK'
    BY <1>1, <2>1 DEF HubInv, HubTypeOK
  <2>3. \A m \in HubNodes, t \in HubTo : slots'[m][t] # Vacant => slots'[m][t] = slots[m][t]
    BY <2>1 DEF HubInv, HubTypeOK
  <2> QED
    BY <1>1, <2>2, <2>3 DEF HubInv, SlotsHoldOpenListeners
<1> QED
  BY <1>2, <1>3

\* A connection reads an event.
LEMMA RecvKeepsHub ==
    ASSUME HubInv, NEW id \in ListenerIds, recv(id)
    PROVE  HubInv'
<1>1. /\ phase[id] = "listening" /\ queues[id] # <<>>
      /\ queues' = [queues EXCEPT ![id] = Tail(@)]
      /\ phase' = [phase EXCEPT ![id] = IF Head(queues[id]) = Gone THEN "ended" ELSE @]
      /\ UNCHANGED <<slots, place>>
  BY DEF recv
<1>2. /\ queues \in [ListenerIds -> Seq(Event)] /\ phase \in [ListenerIds -> Phases]
      /\ \A l \in ListenerIds : Len(queues[l]) <= Capacity
      /\ \A l \in ListenerIds : place[l] = Vacant <=> phase[l] = "unused"
  BY DEF HubInv, HubTypeOK
<1>3. Tail(queues[id]) \in Seq(Event) /\ Len(Tail(queues[id])) <= Capacity
  <2>1. Tail(queues[id]) \in Seq(Event) /\ Len(Tail(queues[id])) = Len(queues[id]) - 1
    BY <1>1, ChannelTypes
  <2> QED
    BY <2>1, ChannelTypes
<1>4. phase'[id] \in {"listening", "ended"} /\ \A l \in ListenerIds : l # id => phase'[l] = phase[l]
  BY <1>1, <1>2
<1>5. phase' \in [ListenerIds -> Phases]
  BY <1>1, <1>2 DEF Phases
<1>6. \A l \in ListenerIds : place'[l] = Vacant <=> phase'[l] = "unused"
  BY <1>1, <1>2, <1>4
<1>7. queues' \in [ListenerIds -> Seq(Event)] /\ \A l \in ListenerIds : Len(queues'[l]) <= Capacity
  BY <1>1, <1>2, <1>3
<1>8. HubTypeOK'
  BY <1>1, <1>5, <1>6, <1>7 DEF HubInv, HubTypeOK
<1>9. SlotsHoldOpenListeners'
  BY <1>1, <1>4 DEF HubInv, HubTypeOK, SlotsHoldOpenListeners
<1> QED
  BY <1>8, <1>9 DEF HubInv

\* A connection's loop returns.
LEMMA EndKeepsHub ==
    ASSUME HubInv, NEW id \in ListenerIds, phase[id] = "listening",
           phase' = [phase EXCEPT ![id] = "ended"],
           UNCHANGED <<slots, place, queues>>
    PROVE  HubInv'
<1>1. HubTypeOK'
  BY DEF HubInv, HubTypeOK, Phases
<1>2. SlotsHoldOpenListeners'
  BY DEF HubInv, HubTypeOK, SlotsHoldOpenListeners
<1> QED
  BY <1>1, <1>2 DEF HubInv

\* What unregister leaves: the listener's own slot is empty, or holds another.
LEMMA UnregisterSlots ==
    ASSUME HubInv, NEW id \in ListenerIds, phase[id] # "unused",
           slots' = unregister(id)
    PROVE  /\ slots' \in [HubNodes -> [HubTo -> ListenerIds \cup {Vacant}]]
           /\ \A n \in HubNodes, t \in HubTo :
                 slots'[n][t] = IF slots[n][t] = id THEN Vacant ELSE slots[n][t]
<1>1. /\ slots \in [HubNodes -> [HubTo -> ListenerIds \cup {Vacant}]]
      /\ place \in [ListenerIds -> (HubNodes \X HubTo) \cup {Vacant}]
      /\ place[id] # Vacant
  BY DEF HubInv, HubTypeOK
<1>2. PICK n \in HubNodes, to \in HubTo : place[id] = <<n, to>>
  BY <1>1
<1>3. \A m \in HubNodes, t \in HubTo : slots[m][t] = id => m = n /\ t = to
  <2>1. ASSUME NEW m \in HubNodes, NEW t \in HubTo, slots[m][t] = id
        PROVE  m = n /\ t = to
    <3>1. slots[m][t] # Vacant
      BY <2>1, HubAssumption
    <3>2. place[id] = <<m, t>>
      BY <2>1, <3>1, SlotTypes
    <3> QED
      BY <1>2, <3>2
  <2> QED
    BY <2>1
<1>4. place[id][1] = n /\ place[id][2] = to
  BY <1>2
<1>5. CASE slots[n][to] = id
  <2>1. slots' = [slots EXCEPT ![n][to] = Vacant]
    BY <1>4, <1>5 DEF unregister, Attached
  <2> QED
    BY <2>1, <1>1, <1>3, <1>5
<1>6. CASE slots[n][to] # id
  <2>1. slots' = slots
    BY <1>4, <1>6 DEF unregister, Attached
  <2> QED
    BY <2>1, <1>1, <1>3, <1>6
<1> QED
  BY <1>5, <1>6

\* The Listener is dropped.
LEMMA DropKeepsHub ==
    ASSUME HubInv, NEW id \in ListenerIds, drop_listener(id)
    PROVE  HubInv'
<1>1. /\ phase[id] = "ended"
      /\ slots' = unregister(id)
      /\ phase' = [phase EXCEPT ![id] = "dropped"]
      /\ queues' = [queues EXCEPT ![id] = <<>>]
      /\ UNCHANGED place
  BY DEF drop_listener
<1>2. /\ slots' \in [HubNodes -> [HubTo -> ListenerIds \cup {Vacant}]]
      /\ \A n \in HubNodes, t \in HubTo :
            slots'[n][t] = IF slots[n][t] = id THEN Vacant ELSE slots[n][t]
  BY <1>1, UnregisterSlots
<1>3. queues' \in [ListenerIds -> Seq(Event)] /\ \A l \in ListenerIds : Len(queues'[l]) <= Capacity
  <2>1. <<>> \in Seq(Event) /\ Len(<<>>) = 0 /\ 0 <= Capacity
    BY HubAssumption
  <2> QED
    BY <2>1, <1>1 DEF HubInv, HubTypeOK
<1>4. HubTypeOK'
  BY <1>1, <1>2, <1>3 DEF HubInv, HubTypeOK, Phases
<1>5. SlotsHoldOpenListeners'
  BY <1>1, <1>2 DEF HubInv, HubTypeOK, SlotsHoldOpenListeners
<1> QED
  BY <1>4, <1>5 DEF HubInv

\* No slot names a dropped listener, so its id may be used again.
LEMMA ForgetKeepsHub ==
    ASSUME HubInv, NEW id \in ListenerIds, forget(id)
    PROVE  HubInv'
<1>1. /\ phase[id] = "dropped"
      /\ phase' = [phase EXCEPT ![id] = "unused"]
      /\ place' = [place EXCEPT ![id] = Vacant]
      /\ UNCHANGED <<slots, queues>>
  BY DEF forget
<1>2. HubTypeOK'
  BY <1>1 DEF HubInv, HubTypeOK, Phases
<1>3. ASSUME NEW n \in HubNodes, NEW to \in HubTo, slots[n][to] # Vacant
      PROVE  slots[n][to] \in ListenerIds /\ slots[n][to] # id
  BY <1>1, <1>3, SlotTypes
<1>4. SlotsHoldOpenListeners'
  BY <1>1, <1>3 DEF HubInv, HubTypeOK, SlotsHoldOpenListeners
<1> QED
  BY <1>2, <1>4 DEF HubInv

\* Every step of a hub or of a connection keeps the invariant.
LEMMA HubStepKeepsInv ==
    ASSUME HubInv, [HubNext]_hubVars
    PROVE  HubInv'
<1>1. ASSUME UNCHANGED hubVars
      PROVE  HubInv'
  BY <1>1 DEF hubVars, HubInv, HubTypeOK, SlotsHoldOpenListeners
<1>2. ASSUME NEW n \in HubNodes, NEW to \in HubTo, NEW id \in ListenerIds,
             register(n, to, id)
      PROVE  HubInv'
  BY <1>2, RegisterKeepsHub
<1>3. ASSUME NEW n \in HubNodes, NEW to \in HubTo, NEW e \in Event, notify(n, to, e)
      PROVE  HubInv'
  BY <1>3, NotifyKeepsHub
<1>4. ASSUME NEW id \in ListenerIds, recv(id)
      PROVE  HubInv'
  BY <1>4, RecvKeepsHub
<1>5. ASSUME NEW id \in ListenerIds, recv_closed(id) \/ leave(id)
      PROVE  HubInv'
  BY <1>5, EndKeepsHub DEF recv_closed, leave
<1>6. ASSUME NEW id \in ListenerIds, drop_listener(id)
      PROVE  HubInv'
  BY <1>6, DropKeepsHub
<1>7. ASSUME NEW id \in ListenerIds, forget(id)
      PROVE  HubInv'
  BY <1>7, ForgetKeepsHub
<1> QED
  BY <1>1, <1>2, <1>3, <1>4, <1>5, <1>6, <1>7 DEF HubNext

\* The step formula of OnlyOwnerEmptiesSlot.
OwnerEmpties ==
    \A n \in HubNodes, to \in HubTo :
        LET id == slots[n][to]
        IN  id # Vacant /\ slots'[n][to] = Vacant =>
              phase'[id] = "dropped" \/ Len(queues[id]) = Capacity

\* A slot is emptied by its own listener's drop or for a full channel.
LEMMA HubStepEmpties ==
    ASSUME HubInv, HubNext
    PROVE  OwnerEmpties
<1>0. slots \in [HubNodes -> [HubTo -> ListenerIds \cup {Vacant}]]
      /\ phase \in [ListenerIds -> Phases]
  BY DEF HubInv, HubTypeOK
<1>1. ASSUME NEW n \in HubNodes, NEW to \in HubTo, NEW id \in ListenerIds,
             register(n, to, id)
      PROVE  OwnerEmpties
  <2>1. slots' = [slots EXCEPT ![n][to] = id] /\ id # Vacant
    BY <1>1, HubAssumption DEF register
  <2> QED
    BY <2>1, <1>0 DEF OwnerEmpties
<1>2. ASSUME NEW n \in HubNodes, NEW to \in HubTo, NEW e \in Event, notify(n, to, e)
      PROVE  OwnerEmpties
  <2>1. CASE slots' = slots
    BY <2>1 DEF OwnerEmpties
  <2>2. CASE slots' # slots
    <3>1. slots' = [slots EXCEPT ![n][to] = Vacant] /\ Notified(n, to) # "Delivered"
      BY <1>2, <2>2 DEF notify
    <3>2. ASSUME slots[n][to] # Vacant
          PROVE  Len(queues[slots[n][to]]) = Capacity
      <4>1. slots[n][to] \in ListenerIds /\ phase[slots[n][to]] # "dropped"
        BY <3>2, SlotTypes
      <4>2. ~Room(slots[n][to])
        BY <3>1, <3>2, <4>1 DEF Notified
      <4> QED
        BY <4>1, <4>2, ChannelTypes DEF Room
    <3> QED
      BY <3>1, <3>2, <1>0 DEF OwnerEmpties
  <2> QED
    BY <2>1, <2>2
<1>3. ASSUME NEW id \in ListenerIds,
             recv(id) \/ recv_closed(id) \/ leave(id) \/ forget(id)
      PROVE  OwnerEmpties
  BY <1>3 DEF recv, recv_closed, leave, forget, OwnerEmpties
<1>4. ASSUME NEW id \in ListenerIds, drop_listener(id)
      PROVE  OwnerEmpties
  <2>1. /\ phase[id] = "ended"
        /\ slots' = unregister(id)
        /\ phase' = [phase EXCEPT ![id] = "dropped"]
    BY <1>4 DEF drop_listener
  <2>2. \A n \in HubNodes, t \in HubTo :
           slots'[n][t] = IF slots[n][t] = id THEN Vacant ELSE slots[n][t]
    BY <2>1, UnregisterSlots
  <2> QED
    BY <2>1, <2>2, <1>0 DEF OwnerEmpties
<1> QED
  BY <1>1, <1>2, <1>3, <1>4 DEF HubNext

------------------------------------------------------------------------------
\* The inductive invariant holds in every state of the hubs.
THEOREM HubInvariant == HubSpec => []HubInv
<1>1. HubInit => HubInv
  BY InitMakesHubInv
<1>2. HubInv /\ [HubNext]_hubVars => HubInv'
  BY HubStepKeepsInv
<1> QED
  BY <1>1, <1>2, PTL DEF HubSpec

\* The hub is well-typed, and no channel ever holds more than its capacity.
THEOREM ChannelsBounded == HubSpec => []HubTypeOK
<1>1. HubInv => HubTypeOK
  BY DEF HubInv
<1> QED
  BY <1>1, HubInvariant, PTL

\* Whoever registers, falls behind or leaves, a slot holds a listener of this
\* very recipient that is not dropped.
THEOREM SlotsAreOpen == HubSpec => []SlotsHoldOpenListeners
<1>1. HubInv => SlotsHoldOpenListeners
  BY DEF HubInv
<1> QED
  BY <1>1, HubInvariant, PTL

\* A replaced listener never removes its successor.
THEOREM SuccessorsStay == HubSpec => OnlyOwnerEmptiesSlot
<1>1. HubInv /\ [HubNext]_hubVars => [OwnerEmpties]_hubVars
  BY HubStepEmpties
<1>2. HubSpec => [][OwnerEmpties]_hubVars
  BY <1>1, HubInvariant, PTL DEF HubSpec
<1> QED
  BY <1>2 DEF OnlyOwnerEmptiesSlot, OwnerEmpties

==============================================================================
