--------------------------------- MODULE Hub ---------------------------------
(***************************************************************************)
(* The in-process fan-out, crates/webpush-server/src/hub.rs, with the life *)
(* of the Listener of notify.rs that owns a registration.  Each node has   *)
(* one hub: a map from recipients to slots behind a mutex, so that each    *)
(* method is one atomic action.  A slot holds the only Sender of its       *)
(* listener's bounded channel: taking the listener out of its slot closes  *)
(* the channel once what is queued in it has been read.                    *)
(*                                                                         *)
(* Registration ids come from a counter but are only ever compared for     *)
(* equality, so here they are the members of a set.                        *)
(***************************************************************************)
EXTENDS Naturals, Sequences

CONSTANTS
    HubNodes,    \* the processes, each with a hub
    HubTo,       \* the recipients
    Payloads,    \* the events other than Gone
    ListenerIds, \* registration ids; bounds how many connections coexist
    Capacity,    \* events a listener's channel buffers
    Stuck,       \* connections whose client may stop reading what it is sent
    Gone,        \* Event::Gone
    Vacant       \* an empty slot, and the place of an unused listener

ASSUME HubAssumption ==
    /\ Capacity \in Nat \ {0}
    /\ Gone \notin Payloads
    /\ Vacant \notin ListenerIds \cup (HubNodes \X HubTo)

VARIABLES
    slots,   \* node, recipient -> the registered listener
    place,   \* listener -> the <<node, recipient>> it registered for
    phase,   \* listener -> where its connection is
    queues   \* listener -> the events in its channel

hubVars == <<slots, place, phase, queues>>

Event == Payloads \cup {Gone}

\* "ended": the connection's loop has returned and is sending its close frame;
\* the Listener is dropped after that.
Phases == {"unused", "listening", "ended", "dropped"}

Attached(id) == /\ phase[id] # "unused"
                /\ slots[place[id][1]][place[id][2]] = id

Room(id) == Len(queues[id]) < Capacity

HubInit ==
    /\ slots = [n \in HubNodes |-> [to \in HubTo |-> Vacant]]
    /\ place = [id \in ListenerIds |-> Vacant]
    /\ phase = [id \in ListenerIds |-> "unused"]
    /\ queues = [id \in ListenerIds |-> <<>>]

------------------------------------------------------------------------------
\* A replaced listener gets Gone if its channel has room.  Either way it has
\* lost its Sender.
register(n, to, id) ==
    LET old == slots[n][to]
    IN  /\ phase[id] = "unused"
        /\ phase' = [phase EXCEPT ![id] = "listening"]
        /\ place' = [place EXCEPT ![id] = <<n, to>>]
        /\ slots' = [slots EXCEPT ![n][to] = id]
        /\ queues' = IF old # Vacant /\ Room(old)
                     THEN [queues EXCEPT ![old] = Append(@, Gone)]
                     ELSE queues

\* What notify returns for this recipient now.  The channel of a listener in
\* a slot is closed only if its receiver was dropped first.
Notified(n, to) ==
    IF slots[n][to] = Vacant \/ phase[slots[n][to]] = "dropped"
    THEN "Absent"
    ELSE IF Room(slots[n][to]) THEN "Delivered" ELSE "Dropped"

\* A listener that fell behind, or is closed, loses its slot.
notify(n, to, event) ==
    /\ IF Notified(n, to) = "Delivered"
       THEN /\ queues' = [queues EXCEPT ![slots[n][to]] = Append(@, event)]
            /\ UNCHANGED slots
       ELSE /\ slots' = [slots EXCEPT ![n][to] = Vacant]
            /\ UNCHANGED queues
    /\ UNCHANGED <<place, phase>>

\* rx.recv() yields an event; Gone ends the connection.
recv(id) ==
    /\ phase[id] = "listening"
    /\ queues[id] # <<>>
    /\ queues' = [queues EXCEPT ![id] = Tail(@)]
    /\ phase' = [phase EXCEPT ![id] = IF Head(queues[id]) = Gone THEN "ended" ELSE @]
    /\ UNCHANGED <<slots, place>>

\* Faulty: the connection carries on without a hub.
recv_closed_ignored(id) ==
    /\ phase[id] = "listening"
    /\ queues[id] = <<>>
    /\ ~Attached(id)
    /\ UNCHANGED hubVars

\* rx.recv() yields None: the channel is empty and has no Sender.
recv_closed(id) ==
    /\ phase[id] = "listening"
    /\ queues[id] = <<>>
    /\ ~Attached(id)
    /\ phase' = [phase EXCEPT ![id] = "ended"]
    /\ UNCHANGED <<slots, place, queues>>

\* The connection ends for a reason of its own: the peer left, a timeout, an
\* error, shutdown.
leave(id) ==
    /\ phase[id] = "listening"
    /\ phase' = [phase EXCEPT ![id] = "ended"]
    /\ UNCHANGED <<slots, place, queues>>

\* Faulty: the registration id is not compared.
unregister_any(id) == [slots EXCEPT ![place[id][1]][place[id][2]] = Vacant]

\* What unregister(to, id) leaves in the slots: a slot that a newer listener
\* took is not touched.
unregister(id) ==
    IF Attached(id)
    THEN [slots EXCEPT ![place[id][1]][place[id][2]] = Vacant]
    ELSE slots

\* Faulty: the slot keeps its dropped listener.
drop_listener_registered(id) ==
    /\ phase[id] = "ended"
    /\ phase' = [phase EXCEPT ![id] = "dropped"]
    /\ queues' = [queues EXCEPT ![id] = <<>>]
    /\ UNCHANGED <<slots, place>>

\* Drop for Listener: unregister, then the receiver goes.
drop_listener(id) ==
    /\ phase[id] = "ended"
    /\ slots' = unregister(id)
    /\ phase' = [phase EXCEPT ![id] = "dropped"]
    /\ queues' = [queues EXCEPT ![id] = <<>>]
    /\ UNCHANGED place

\* The counter behind next_id never runs out: the model reuses an id that
\* nothing refers to any more.
forget(id) ==
    /\ phase[id] = "dropped"
    /\ phase' = [phase EXCEPT ![id] = "unused"]
    /\ place' = [place EXCEPT ![id] = Vacant]
    /\ UNCHANGED <<slots, queues>>

HubNext ==
    \/ \E n \in HubNodes, to \in HubTo, id \in ListenerIds : register(n, to, id)
    \/ \E n \in HubNodes, to \in HubTo, e \in Event : notify(n, to, e)
    \/ \E id \in ListenerIds : recv(id)
    \/ \E id \in ListenerIds : recv_closed(id)
    \/ \E id \in ListenerIds : leave(id)
    \/ \E id \in ListenerIds : drop_listener(id)
    \/ \E id \in ListenerIds : forget(id)

\* The runtime keeps polling a connection's task, which is back at its channel
\* as soon as its client has read what it was sent, and finishes once its loop
\* has returned.  No write has a timeout: the task of a client that stops
\* reading stands in it, and nothing is assumed of it.
HubFairness ==
    \A id \in ListenerIds \ Stuck : /\ WF_hubVars(recv(id))
                                    /\ WF_hubVars(recv_closed(id))
                                    /\ WF_hubVars(drop_listener(id))

HubSpec == HubInit /\ [][HubNext]_hubVars /\ HubFairness

------------------------------------------------------------------------------
(***************************************************************************)
(* Properties.                                                             *)
(***************************************************************************)

\* The hub's state has its declared types, and no channel holds more than its
\* capacity.
HubTypeOK ==
    /\ slots \in [HubNodes -> [HubTo -> ListenerIds \cup {Vacant}]]
    /\ place \in [ListenerIds -> (HubNodes \X HubTo) \cup {Vacant}]
    /\ \A id \in ListenerIds : place[id] = Vacant <=> phase[id] = "unused"
    /\ phase \in [ListenerIds -> Phases]
    /\ queues \in [ListenerIds -> Seq(Event)]
    /\ \A id \in ListenerIds : Len(queues[id]) <= Capacity

\* A slot names a listener that registered for exactly this recipient on this
\* node and whose receiver still exists, whatever order connections replace
\* each other, fall behind and end in.  So notify never hands an event to a
\* closed channel, and the Closed arm of its match is dead code.
SlotsHoldOpenListeners ==
    \A n \in HubNodes, to \in HubTo : slots[n][to] # Vacant =>
        /\ place[slots[n][to]] = <<n, to>>
        /\ phase[slots[n][to]] \in {"listening", "ended"}

\* Whoever registers, falls behind or leaves: the channels are bounded, and the
\* slots name open listeners.
HubInv == HubTypeOK /\ SlotsHoldOpenListeners

\* "A replaced listener cannot remove its successor": a slot becomes empty
\* only because the listener in it was dropped or its channel was full.
OnlyOwnerEmptiesSlot ==
    [][\A n \in HubNodes, to \in HubTo :
          LET id == slots[n][to]
          IN  id # Vacant /\ slots'[n][to] = Vacant =>
                phase'[id] = "dropped" \/ Len(queues[id]) = Capacity]_hubVars

\* A listener out of its slot, replaced or too slow, ends if its client reads,
\* also when its full channel could not take the Gone and whatever other clients
\* do: no such connection lingers that will never hear of a message again.
DetachedListenersEnd ==
    \A id \in ListenerIds \ Stuck :
        (phase[id] = "listening" /\ ~Attached(id)) ~> (phase[id] = "dropped")

==============================================================================
