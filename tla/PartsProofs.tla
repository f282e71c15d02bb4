---------------------------- MODULE PartsProofs ----------------------------
(***************************************************************************)
(* What is proved of the components that share no state with any other,    *)
(* for every setting of their intervals and any number of requests: the    *)
(* parts of MCParts, each a section below.                                 *)
(***************************************************************************)
EXTENDS MCParts, Credential, FiniteSetTheorems, SequenceTheorems, WellFoundedInduction, TLAPS

(***************************************************************************)
(* A step of a behaviour of MCParts is a step of each part, or leaves it   *)
(* as it was.                                                              *)
(***************************************************************************)
LEMMA PartsSteps ==
    ASSUME [PartsNext]_partsVars
    PROVE  /\ [AccessNext]_accessVars
           /\ [ProviderNext]_providerVars
           /\ [PushNext]_pushVars
           /\ [ServerNext]_serverVars
           /\ [ActivityNext]_activityVars
           /\ [ChunkNext]_chunkVars
           /\ [EncodingNext]_encodingVars
<1>1. CASE UNCHANGED partsVars
  BY <1>1 DEF partsVars
<1>2. CASE PartsNext
  <2>1. CASE OnlyChanges("access") /\ AccessNext
    BY <2>1 DEF OnlyChanges
  <2>2. CASE OnlyChanges("provider") /\ ProviderNext
    BY <2>2 DEF OnlyChanges
  <2>3. CASE OnlyChanges("push") /\ PushNext
    BY <2>3 DEF OnlyChanges
  <2>4. CASE OnlyChanges("server") /\ ServerNext
    BY <2>4 DEF OnlyChanges
  <2>5. CASE OnlyChanges("activity") /\ ActivityNext
    BY <2>5 DEF OnlyChanges
  <2>6. CASE OnlyChanges("chunks") /\ ChunkNext
    BY <2>6 DEF OnlyChanges
  <2>7. CASE OnlyChanges("encoding") /\ EncodingNext
    BY <2>7 DEF OnlyChanges
  <2>8. CASE OnlyChanges("routes")
    BY <2>8 DEF OnlyChanges
  <2> QED BY <1>2, <2>1, <2>2, <2>3, <2>4, <2>5, <2>6, <2>7, <2>8 DEF PartsNext
<1> QED BY <1>1, <1>2

-----------------------------------------------------------------------------
(***************************************************************************)
(* Server: the limit on connections and the wait for the tasks at          *)
(* shutdown, for any number of clients, permits and requests.              *)
(***************************************************************************)

OpenSet == {c \in Conns : Open(c)}

Weight(c) == IF Open(c) THEN 1 ELSE 0

InLoop == IF loop \in {"accept", "backoff"} THEN 1 ELSE 0

PermitTypeOK ==
    /\ permits \in Int
    /\ conn \in [Conns -> Stages]
    /\ session \in [Conns -> {"none", "pending", "running", "ended"}]
    /\ refs \in [Conns -> SUBSET {"connection", "session"}]

(***************************************************************************)
(* Who shares a permit: the connection's task, and from the upgrade on the *)
(* session, which begins when the connection is over.                      *)
(***************************************************************************)
SharedBy(c) ==
    /\ "connection" \in refs[c] <=> Served(c)
    /\ "session" \in refs[c] <=> conn[c] = "upgrade" \/ session[c] \in {"pending", "running"}
    /\ session[c] # "none" => conn[c] = "closed"

Shared == \A c \in Conns : SharedBy(c)

PermitInv == PermitTypeOK /\ Shared /\ PermitsInUse

LEMMA OpenFinite == IsFiniteSet(OpenSet) /\ Cardinality(OpenSet) \in Nat
<1>1. OpenSet \subseteq Conns
  BY DEF OpenSet
<1>2. IsFiniteSet(OpenSet)
  BY <1>1, ServerAssumption, FS_Subset
<1> QED BY <1>2, FS_CardinalityType

(***************************************************************************)
(* The count when a connection is opened, stays as it was, or is closed.   *)
(***************************************************************************)
LEMMA CountOpened ==
    ASSUME NEW c \in Conns, c \notin OpenSet, OpenSet' = OpenSet \cup {c}
    PROVE  Cardinality(OpenSet') = Cardinality(OpenSet) + 1
BY OpenFinite, FS_AddElement

LEMMA CountClosed ==
    ASSUME NEW c \in Conns, c \in OpenSet, OpenSet' = OpenSet \ {c}
    PROVE  Cardinality(OpenSet') = Cardinality(OpenSet) - 1
BY OpenFinite, FS_RemoveElement

LEMMA Balance ==
    ASSUME NEW p \in Int, NEW q \in Int, NEW k \in Int, NEW n \in Int, NEW i \in Int, NEW j \in Int,
           NEW w \in Int, NEW v \in Int, NEW max \in Int,
           p + k + i = max, n = k + v - w, q + j + v = p + i + w
    PROVE  q + n + j = max
OBVIOUS

(***************************************************************************)
(* A step that changes what one client has keeps the invariant if it takes *)
(* a permit with what it opens and returns it with what it closes.         *)
(***************************************************************************)
LEMMA OneChanges ==
    ASSUME PermitInv, NEW c \in Conns, PermitTypeOK', SharedBy(c)',
           \A x \in Conns \ {c} : conn'[x] = conn[x] /\ session'[x] = session[x] /\ refs'[x] = refs[x],
           permits' + InLoop' + Weight(c)' = permits + InLoop + Weight(c)
    PROVE  PermitInv'
<1>1. Shared'
  <2>1. \A x \in Conns \ {c} : SharedBy(x)'
    BY DEF PermitInv, Shared, SharedBy, Served
  <2> QED BY <2>1 DEF Shared
<1>2. \A x \in Conns \ {c} : Open(x)' <=> Open(x)
  BY DEF Open, Served
<1>3. Cardinality(OpenSet') = Cardinality(OpenSet) + Weight(c)' - Weight(c)
  <2>1. CASE Open(c)' /\ ~Open(c)
    <3>1. c \notin OpenSet /\ OpenSet' = OpenSet \cup {c}
      BY <1>2, <2>1 DEF OpenSet
    <3>2. Weight(c)' = 1 /\ Weight(c) = 0
      BY <2>1 DEF Weight
    <3>3. Cardinality(OpenSet') = Cardinality(OpenSet) + 1
      BY <3>1, CountOpened
    <3>4. Cardinality(OpenSet) \in Int
      BY OpenFinite
    <3> QED BY <3>2, <3>3, <3>4
  <2>2. CASE ~Open(c)' /\ Open(c)
    <3>1. c \in OpenSet /\ OpenSet' = OpenSet \ {c}
      BY <1>2, <2>2 DEF OpenSet
    <3>2. Weight(c)' = 0 /\ Weight(c) = 1
      BY <2>2 DEF Weight
    <3>3. Cardinality(OpenSet') = Cardinality(OpenSet) - 1
      BY <3>1, CountClosed
    <3>4. Cardinality(OpenSet) \in Int
      BY OpenFinite
    <3> QED BY <3>2, <3>3, <3>4
  <2>3. CASE Open(c)' <=> Open(c)
    <3>1. OpenSet' = OpenSet
      BY <1>2, <2>3 DEF OpenSet
    <3>2. Weight(c)' = Weight(c) /\ Weight(c) \in Int
      BY <2>3 DEF Weight
    <3> QED BY <3>1, <3>2, OpenFinite
  <2> QED BY <2>1, <2>2, <2>3
<1>4. /\ InLoop \in Int /\ InLoop' \in Int /\ Weight(c) \in Int /\ Weight(c)' \in Int
      /\ permits \in Int /\ permits' \in Int
  BY DEF InLoop, Weight, PermitInv, PermitTypeOK
<1>5. Cardinality(OpenSet) \in Int /\ Cardinality(OpenSet') \in Int /\ MaxConnections \in Int
  BY <1>3, <1>4, OpenFinite, ServerAssumption
<1>6. permits + Cardinality(OpenSet) + InLoop = MaxConnections
  BY DEF PermitInv, PermitsInUse, OpenSet, InLoop
<1>7. permits' + Cardinality(OpenSet') + InLoop' = MaxConnections
  <2> HIDE DEF InLoop, OpenSet, Weight
  <2>1. permits' + InLoop' + Weight(c)' = permits + InLoop + Weight(c)
    OBVIOUS
  <2> QED BY ONLY <1>3, <1>4, <1>5, <1>6, <2>1, Balance
<1>8. PermitsInUse'
  BY <1>7 DEF PermitsInUse, OpenSet, InLoop
<1> QED BY <1>1, <1>8 DEF PermitInv

(***************************************************************************)
(* A step of the accept loop alone.                                        *)
(***************************************************************************)
LEMMA LoopChanges ==
    ASSUME PermitInv, UNCHANGED <<conn, session, refs>>, permits' \in Int,
           permits' = permits + InLoop - InLoop'
    PROVE  PermitInv'
<1>1. PermitTypeOK' /\ Shared'
  BY DEF PermitInv, PermitTypeOK, Shared, SharedBy, Served
<1>2. OpenSet' = OpenSet
  BY DEF OpenSet, Open, Served
<1>3. permits + Cardinality(OpenSet) + InLoop = MaxConnections
  BY DEF PermitInv, PermitsInUse, OpenSet, InLoop
<1>4. /\ InLoop \in Int /\ InLoop' \in Int /\ permits \in Int
      /\ Cardinality(OpenSet) \in Int /\ MaxConnections \in Int
  BY OpenFinite, ServerAssumption DEF InLoop, PermitInv, PermitTypeOK
<1>5. permits' + Cardinality(OpenSet) + InLoop' = MaxConnections
  <2>1. permits' = permits + InLoop - InLoop'
    OBVIOUS
  <2> QED BY ONLY <1>3, <1>4, <2>1
<1>6. PermitsInUse'
  BY <1>2, <1>5 DEF PermitsInUse, OpenSet, InLoop
<1> QED BY <1>1, <1>6 DEF PermitInv

LEMMA LoopKeeps ==
    ASSUME PermitInv, acquire \/ accept_fails \/ continue \/ stop_loop
    PROVE  PermitInv'
<1>1. UNCHANGED <<conn, session, refs>>
  BY DEF acquire, accept_fails, continue, stop_loop, connVars
<1>2. permits \in Int
  BY DEF PermitInv, PermitTypeOK
<1>3. permits' \in Int /\ permits' = permits + InLoop - InLoop'
  <2>1. CASE acquire
    BY <1>2, <2>1 DEF acquire, InLoop
  <2>2. CASE accept_fails
    BY <1>2, <2>2 DEF accept_fails, InLoop
  <2>3. CASE continue
    BY <1>2, <2>3 DEF continue, InLoop
  <2>4. CASE stop_loop
    BY <1>2, <2>4 DEF stop_loop, InLoop
  <2> QED BY <2>1, <2>2, <2>3, <2>4
<1> QED BY <1>1, <1>3, LoopChanges

LEMMA QuietKeeps ==
    ASSUME PermitInv, UNCHANGED <<conn, session, refs, permits, loop>>
    PROVE  PermitInv'
<1>1. permits' \in Int /\ permits' = permits + InLoop - InLoop'
  BY DEF PermitInv, PermitTypeOK, InLoop
<1> QED BY <1>1, LoopChanges

(***************************************************************************)
(* The steps of one client's connection and session.                       *)
(***************************************************************************)
LEMMA ClientKeeps ==
    ASSUME PermitInv, NEW c \in Conns,
           \/ arrive(c) \/ accept(c) \/ handshake(c) \/ handshake_fails(c)
           \/ close_idle(c) \/ disconnect(c)
           \/ upgrade(c) \/ stream(c) \/ request(c) \/ answer(c) \/ switch(c)
           \/ track_future(c) \/ session_ends(c)
    PROVE  PermitInv'
<1> USE DEF PermitTypeOK, SharedBy, Served, Open, Weight, InLoop, Stages, Exchanges
<1>0. PermitTypeOK /\ SharedBy(c)
  BY DEF PermitInv, Shared
<1>1. CASE arrive(c)
  <2>1. PermitTypeOK'
    BY <1>0, <1>1 DEF arrive, loopVars
  <2>2. SharedBy(c)'
    BY <1>0, <1>1 DEF arrive, loopVars
  <2>3. \A x \in Conns \ {c} : conn'[x] = conn[x] /\ session'[x] = session[x] /\ refs'[x] = refs[x]
    BY <1>0, <1>1 DEF arrive, loopVars
  <2>4. permits' + InLoop' + Weight(c)' = permits + InLoop + Weight(c)
    BY <1>0, <1>1 DEF arrive, loopVars
  <2> QED BY <2>1, <2>2, <2>3, <2>4, OneChanges
<1>2. CASE accept(c)
  <2>1. PermitTypeOK'
    BY <1>0, <1>2 DEF accept
  <2>2. SharedBy(c)'
    BY <1>0, <1>2 DEF accept
  <2>3. \A x \in Conns \ {c} : conn'[x] = conn[x] /\ session'[x] = session[x] /\ refs'[x] = refs[x]
    BY <1>0, <1>2 DEF accept
  <2>4. permits' + InLoop' + Weight(c)' = permits + InLoop + Weight(c)
    BY <1>0, <1>2 DEF accept
  <2> QED BY <2>1, <2>2, <2>3, <2>4, OneChanges
<1>3. CASE handshake(c)
  <2>1. PermitTypeOK'
    BY <1>0, <1>3 DEF handshake, loopVars
  <2>2. SharedBy(c)'
    BY <1>0, <1>3 DEF handshake, loopVars
  <2>3. \A x \in Conns \ {c} : conn'[x] = conn[x] /\ session'[x] = session[x] /\ refs'[x] = refs[x]
    BY <1>0, <1>3 DEF handshake, loopVars
  <2>4. permits' + InLoop' + Weight(c)' = permits + InLoop + Weight(c)
    BY <1>0, <1>3 DEF handshake, loopVars
  <2> QED BY <2>1, <2>2, <2>3, <2>4, OneChanges
<1>4. CASE handshake_fails(c)
  <2>1. PermitTypeOK'
    BY <1>0, <1>4 DEF handshake_fails, ReleaseAll, Close, loopVars
  <2>2. SharedBy(c)'
    BY <1>0, <1>4 DEF handshake_fails, ReleaseAll, Close, loopVars
  <2>3. \A x \in Conns \ {c} : conn'[x] = conn[x] /\ session'[x] = session[x] /\ refs'[x] = refs[x]
    BY <1>0, <1>4 DEF handshake_fails, ReleaseAll, Close, loopVars
  <2>4. permits' + InLoop' + Weight(c)' = permits + InLoop + Weight(c)
    BY <1>0, <1>4 DEF handshake_fails, ReleaseAll, Close, loopVars
  <2> QED BY <2>1, <2>2, <2>3, <2>4, OneChanges
<1>5. CASE close_idle(c)
  <2>1. PermitTypeOK'
    BY <1>0, <1>5 DEF close_idle, ReleaseAll, Close, loopVars
  <2>2. SharedBy(c)'
    BY <1>0, <1>5 DEF close_idle, ReleaseAll, Close, loopVars
  <2>3. \A x \in Conns \ {c} : conn'[x] = conn[x] /\ session'[x] = session[x] /\ refs'[x] = refs[x]
    BY <1>0, <1>5 DEF close_idle, ReleaseAll, Close, loopVars
  <2>4. permits' + InLoop' + Weight(c)' = permits + InLoop + Weight(c)
    BY <1>0, <1>5 DEF close_idle, ReleaseAll, Close, loopVars
  <2> QED BY <2>1, <2>2, <2>3, <2>4, OneChanges
<1>6. CASE disconnect(c)
  <2>1. PermitTypeOK'
    BY <1>0, <1>6 DEF disconnect, ReleaseAll, Close, loopVars
  <2>2. SharedBy(c)'
    BY <1>0, <1>6 DEF disconnect, ReleaseAll, Close, loopVars
  <2>3. \A x \in Conns \ {c} : conn'[x] = conn[x] /\ session'[x] = session[x] /\ refs'[x] = refs[x]
    BY <1>0, <1>6 DEF disconnect, ReleaseAll, Close, loopVars
  <2>4. permits' + InLoop' + Weight(c)' = permits + InLoop + Weight(c)
    BY <1>0, <1>6 DEF disconnect, ReleaseAll, Close, loopVars
  <2> QED BY <2>1, <2>2, <2>3, <2>4, OneChanges
<1>7. CASE upgrade(c)
  <2>1. PermitTypeOK'
    BY <1>0, <1>7 DEF upgrade, loopVars
  <2>2. SharedBy(c)'
    BY <1>0, <1>7 DEF upgrade, loopVars
  <2>3. \A x \in Conns \ {c} : conn'[x] = conn[x] /\ session'[x] = session[x] /\ refs'[x] = refs[x]
    BY <1>0, <1>7 DEF upgrade, loopVars
  <2>4. permits' + InLoop' + Weight(c)' = permits + InLoop + Weight(c)
    BY <1>0, <1>7 DEF upgrade, loopVars
  <2> QED BY <2>1, <2>2, <2>3, <2>4, OneChanges
<1>8. CASE stream(c)
  <2>1. PermitTypeOK'
    BY <1>0, <1>8 DEF stream, loopVars
  <2>2. SharedBy(c)'
    BY <1>0, <1>8 DEF stream, loopVars
  <2>3. \A x \in Conns \ {c} : conn'[x] = conn[x] /\ session'[x] = session[x] /\ refs'[x] = refs[x]
    BY <1>0, <1>8 DEF stream, loopVars
  <2>4. permits' + InLoop' + Weight(c)' = permits + InLoop + Weight(c)
    BY <1>0, <1>8 DEF stream, loopVars
  <2> QED BY <2>1, <2>2, <2>3, <2>4, OneChanges
<1>9. CASE request(c)
  <2>1. PermitTypeOK'
    BY <1>0, <1>9 DEF request, loopVars
  <2>2. SharedBy(c)'
    BY <1>0, <1>9 DEF request, loopVars
  <2>3. \A x \in Conns \ {c} : conn'[x] = conn[x] /\ session'[x] = session[x] /\ refs'[x] = refs[x]
    BY <1>0, <1>9 DEF request, loopVars
  <2>4. permits' + InLoop' + Weight(c)' = permits + InLoop + Weight(c)
    BY <1>0, <1>9 DEF request, loopVars
  <2> QED BY <2>1, <2>2, <2>3, <2>4, OneChanges
<1>10. CASE answer(c)
  <2>1. PermitTypeOK'
    BY <1>0, <1>10 DEF answer, loopVars
  <2>2. SharedBy(c)'
    BY <1>0, <1>10 DEF answer, loopVars
  <2>3. \A x \in Conns \ {c} : conn'[x] = conn[x] /\ session'[x] = session[x] /\ refs'[x] = refs[x]
    BY <1>0, <1>10 DEF answer, loopVars
  <2>4. permits' + InLoop' + Weight(c)' = permits + InLoop + Weight(c)
    BY <1>0, <1>10 DEF answer, loopVars
  <2> QED BY <2>1, <2>2, <2>3, <2>4, OneChanges
<1>11. CASE switch(c)
  <2>1. PermitTypeOK'
    BY <1>0, <1>11 DEF switch, Release, loopVars
  <2>2. SharedBy(c)'
    BY <1>0, <1>11 DEF switch, Release, loopVars
  <2>3. \A x \in Conns \ {c} : conn'[x] = conn[x] /\ session'[x] = session[x] /\ refs'[x] = refs[x]
    BY <1>0, <1>11 DEF switch, Release, loopVars
  <2>4. permits' + InLoop' + Weight(c)' = permits + InLoop + Weight(c)
    BY <1>0, <1>11 DEF switch, Release, loopVars
  <2> QED BY <2>1, <2>2, <2>3, <2>4, OneChanges
<1>12. CASE track_future(c)
  <2>1. PermitTypeOK'
    BY <1>0, <1>12 DEF track_future, loopVars
  <2>2. SharedBy(c)'
    BY <1>0, <1>12 DEF track_future, loopVars
  <2>3. \A x \in Conns \ {c} : conn'[x] = conn[x] /\ session'[x] = session[x] /\ refs'[x] = refs[x]
    BY <1>0, <1>12 DEF track_future, loopVars
  <2>4. permits' + InLoop' + Weight(c)' = permits + InLoop + Weight(c)
    BY <1>0, <1>12 DEF track_future, loopVars
  <2> QED BY <2>1, <2>2, <2>3, <2>4, OneChanges
<1>13. CASE session_ends(c)
  <2>1. PermitTypeOK'
    BY <1>0, <1>13 DEF session_ends, Release, loopVars
  <2>2. SharedBy(c)'
    BY <1>0, <1>13 DEF session_ends, Release, loopVars
  <2>3. \A x \in Conns \ {c} : conn'[x] = conn[x] /\ session'[x] = session[x] /\ refs'[x] = refs[x]
    BY <1>0, <1>13 DEF session_ends, Release, loopVars
  <2>4. permits' + InLoop' + Weight(c)' = permits + InLoop + Weight(c)
    BY <1>0, <1>13 DEF session_ends, Release, loopVars
  <2> QED BY <2>1, <2>2, <2>3, <2>4, OneChanges
<1> QED BY <1>1, <1>2, <1>3, <1>4, <1>5, <1>6, <1>7, <1>8, <1>9, <1>10, <1>11, <1>12, <1>13

LEMMA ServerKeeps ==
    ASSUME PermitInv, [ServerNext]_serverVars
    PROVE  PermitInv'
<1>1. CASE acquire \/ accept_fails \/ continue \/ stop_loop
  BY <1>1, LoopKeeps
<1>2. ASSUME NEW c \in Conns,
             \/ arrive(c) \/ accept(c) \/ handshake(c) \/ handshake_fails(c)
             \/ close_idle(c) \/ disconnect(c)
             \/ upgrade(c) \/ stream(c) \/ request(c) \/ answer(c) \/ switch(c)
             \/ track_future(c) \/ session_ends(c)
      PROVE  PermitInv'
  BY <1>2, ClientKeeps
<1>3. ASSUME NEW c \in Conns, graceful_shutdown(c) \/ pump_ends(c)
      PROVE  PermitInv'
  BY <1>3, QuietKeeps DEF graceful_shutdown, pump_ends, loopVars
<1>4. CASE side_done \/ work \/ stop_work \/ drain \/ stop \/ return \/ time_out
  BY <1>4, QuietKeeps DEF side_done, work, stop_work, drain, stop, return, time_out, loopVars, connVars
<1>5. CASE UNCHANGED serverVars
  BY <1>5, QuietKeeps DEF serverVars, loopVars, connVars
<1> QED BY <1>1, <1>2, <1>3, <1>4, <1>5 DEF ServerNext

LEMMA ServerStarts == ServerInit => PermitInv
<1> SUFFICES ASSUME ServerInit PROVE PermitInv
  OBVIOUS
<1>1. PermitTypeOK /\ Shared
  BY ServerAssumption DEF ServerInit, PermitTypeOK, Shared, SharedBy, Served, Stages
<1>2. OpenSet = {}
  BY DEF ServerInit, OpenSet, Open, Served
<1>3. Cardinality(OpenSet) = 0
  BY <1>2, FS_EmptySet
<1>4. PermitsInUse
  BY <1>3, ServerAssumption DEF ServerInit, PermitsInUse, OpenSet
<1> QED BY <1>1, <1>4 DEF PermitInv

(***************************************************************************)
(* However many clients come and go, and however accepts, handshakes,      *)
(* upgrades and sessions end: the permits that serve() lacks are those of  *)
(* its loop, of open connections and of sessions, so max_connections holds *)
(* for both together and no permit is lost.                                *)
(***************************************************************************)
THEOREM PermitsAccountedFor == ServerSpec => []PermitsInUse
<1>1. PermitInv => PermitsInUse
  BY DEF PermitInv
<1> QED BY <1>1, ServerStarts, ServerKeeps, PTL DEF ServerSpec

-----------------------------------------------------------------------------
(* The tasks that TaskTracker counts. *)

ServedSet == {c \in Conns : Served(c)}
RunningSet == {c \in Conns : session[c] = "running"}
PumpSet == {c \in Conns : pump[c] = "running"}

(***************************************************************************)
(* The accept loop, the background loop and the tasks of listeners.        *)
(***************************************************************************)
LoopTask == IF loop = "ended" THEN 0 ELSE 1
WorkTask == IF background = "ended" THEN 0 ELSE 1

Alone == side + LoopTask + WorkTask

TasksCounted ==
    tasks = Cardinality(ServedSet) + Cardinality(RunningSet) + Cardinality(PumpSet) + Alone

(***************************************************************************)
(* The types that do not follow from the counts.                           *)
(***************************************************************************)
PlainTypeOK ==
    /\ mode \in {"serving", "draining", "stopping", "returned"} /\ timed_out \in BOOLEAN
    /\ loop \in {"permit", "accept", "backoff", "ended"} /\ failed \in 0..MaxFailures
    /\ conn \in [Conns -> Stages] /\ told \subseteq Conns
    /\ session \in [Conns -> {"none", "pending", "running", "ended"}]
    /\ pump \in [Conns -> {"none", "running", "ended"}]
    /\ background \in {"waiting", "working", "ended"} /\ permits \in Nat
    /\ side \in Nat /\ tasks \in Int /\ begun \in 0..MaxRequests
    /\ emptied \in BOOLEAN /\ overlooked \subseteq Conns

(***************************************************************************)
(* A pump that runs is the one of the connection's only request, or its    *)
(* connection is over.                                                     *)
(***************************************************************************)
PumpsServed == \A c \in Conns : pump[c] = "running" => conn[c] \in {"stream", "closed"}

(***************************************************************************)
(* From the moment TaskTracker was closed and empty nothing begins but the *)
(* sessions it overlooked, and what they spawn.                            *)
(***************************************************************************)
Drained ==
    emptied =>
        /\ loop = "ended" /\ background = "ended"
        /\ \A c \in Conns : /\ ~Served(c) /\ pump[c] # "running"
                            /\ session[c] \in {"pending", "running"} => c \in overlooked
        /\ side > 0 => overlooked # {}

Waited == mode = "returned" => timed_out \/ emptied

TaskInv == PlainTypeOK /\ PumpsServed /\ TasksCounted /\ Drained /\ Waited

ServerInv == PermitInv /\ TaskInv

(***************************************************************************)
(* T is S, or S with c added or removed, and d the change of its size.     *)
(***************************************************************************)
Change(S, T, c, d) ==
    \/ T = S /\ d = 0
    \/ c \notin S /\ T = S \cup {c} /\ d = 1
    \/ c \in S /\ T = S \ {c} /\ d = -1

LEMMA ChangeCounted ==
    ASSUME NEW S \in SUBSET Conns, NEW T, NEW c, NEW d, Change(S, T, c, d)
    PROVE  Cardinality(S) \in Int /\ Cardinality(T) \in Int /\ d \in Int
           /\ Cardinality(T) = Cardinality(S) + d
<1>1. IsFiniteSet(S)
  BY ServerAssumption, FS_Subset
<1>2. Cardinality(S) \in Nat
  BY <1>1, FS_CardinalityType
<1>3. CASE T = S /\ d = 0
  BY <1>2, <1>3
<1>4. CASE c \notin S /\ T = S \cup {c} /\ d = 1
  BY <1>1, <1>2, <1>4, FS_AddElement
<1>5. CASE c \in S /\ T = S \ {c} /\ d = -1
  BY <1>1, <1>2, <1>5, FS_RemoveElement
<1> QED BY <1>3, <1>4, <1>5 DEF Change

LEMMA Recount ==
    ASSUME NEW a \in Int, NEW b \in Int, NEW e \in Int, NEW f \in Int,
           NEW da \in Int, NEW db \in Int, NEW de \in Int, NEW df \in Int,
           NEW t, NEW u, t = a + b + e + f, u = t + da + db + de + df
    PROVE  u = (a + da) + (b + db) + (e + de) + (f + df)
OBVIOUS

(***************************************************************************)
(* A step keeps the count if it changes it by what it begins and ends.     *)
(***************************************************************************)
LEMMA CountMoves ==
    ASSUME PlainTypeOK, TasksCounted, NEW c, NEW ds, NEW dr, NEW dp, NEW da \in Int,
           Change(ServedSet, ServedSet', c, ds), Change(RunningSet, RunningSet', c, dr),
           Change(PumpSet, PumpSet', c, dp), Alone' = Alone + da,
           tasks' = tasks + ds + dr + dp + da
    PROVE  TasksCounted'
<1>1. ServedSet \in SUBSET Conns /\ RunningSet \in SUBSET Conns /\ PumpSet \in SUBSET Conns
  BY DEF ServedSet, RunningSet, PumpSet
<1>2. /\ Cardinality(ServedSet) \in Int /\ ds \in Int
      /\ Cardinality(ServedSet') = Cardinality(ServedSet) + ds
  BY <1>1, ChangeCounted
<1>3. /\ Cardinality(RunningSet) \in Int /\ dr \in Int
      /\ Cardinality(RunningSet') = Cardinality(RunningSet) + dr
  BY <1>1, ChangeCounted
<1>4. /\ Cardinality(PumpSet) \in Int /\ dp \in Int
      /\ Cardinality(PumpSet') = Cardinality(PumpSet) + dp
  BY <1>1, ChangeCounted
<1>5. Alone \in Int
  BY DEF Alone, LoopTask, WorkTask, PlainTypeOK
<1>6. tasks = Cardinality(ServedSet) + Cardinality(RunningSet) + Cardinality(PumpSet) + Alone
  BY DEF TasksCounted
<1>7. tasks' = (Cardinality(ServedSet) + ds) + (Cardinality(RunningSet) + dr)
                  + (Cardinality(PumpSet) + dp) + (Alone + da)
  <2> HIDE DEF ServedSet, RunningSet, PumpSet, Alone
  <2>1. tasks' = tasks + ds + dr + dp + da /\ da \in Int
    OBVIOUS
  <2> QED BY ONLY <1>2, <1>3, <1>4, <1>5, <1>6, <2>1, Recount
<1>8. tasks' = Cardinality(ServedSet') + Cardinality(RunningSet') + Cardinality(PumpSet') + Alone'
  <2>1. Alone' = Alone + da
    OBVIOUS
  <2> HIDE DEF ServedSet, RunningSet, PumpSet, Alone
  <2> QED BY ONLY <1>2, <1>3, <1>4, <1>7, <2>1
<1> QED BY <1>8 DEF TasksCounted

(***************************************************************************)
(* Every step counts the tasks it begins and ends.                         *)
(***************************************************************************)
LEMMA CountKept ==
    ASSUME ServerInv, [ServerNext]_serverVars
    PROVE  TasksCounted'
<1> USE DEF Served, Stages, Exchanges, LoopTask, WorkTask
<1>0. PlainTypeOK /\ TasksCounted /\ PumpsServed /\ Shared
  BY DEF ServerInv, TaskInv, PermitInv
<1>q. ASSUME UNCHANGED <<ServedSet, session, pump, loop, background, side, tasks>>
      PROVE  TasksCounted'
  BY <1>0, <1>q DEF TasksCounted, RunningSet, PumpSet, Alone
<1>1. ASSUME NEW c \in Conns, arrive(c) PROVE TasksCounted'
  <2>1. ServedSet' = ServedSet
    BY <1>0, <1>1 DEF arrive, loopVars, shutdownVars, ServedSet, PlainTypeOK
  <2> QED BY <2>1, <1>q, <1>1 DEF arrive, loopVars, shutdownVars
<1>2. ASSUME NEW c \in Conns, handshake(c) PROVE TasksCounted'
  <2>1. ServedSet' = ServedSet
    BY <1>0, <1>2 DEF handshake, loopVars, shutdownVars, ServedSet, PlainTypeOK
  <2> QED BY <2>1, <1>q, <1>2 DEF handshake, loopVars, shutdownVars
<1>3. ASSUME NEW c \in Conns, graceful_shutdown(c) PROVE TasksCounted'
  <2>1. ServedSet' = ServedSet
    BY <1>0, <1>3 DEF graceful_shutdown, loopVars, shutdownVars, ServedSet, PlainTypeOK
  <2> QED BY <2>1, <1>q, <1>3 DEF graceful_shutdown, loopVars, shutdownVars
<1>4. ASSUME NEW c \in Conns, upgrade(c) PROVE TasksCounted'
  <2>1. ServedSet' = ServedSet
    BY <1>0, <1>4 DEF upgrade, loopVars, shutdownVars, ServedSet, PlainTypeOK
  <2> QED BY <2>1, <1>q, <1>4 DEF upgrade, loopVars, shutdownVars
<1>5. ASSUME NEW c \in Conns, request(c) PROVE TasksCounted'
  <2>1. ServedSet' = ServedSet
    BY <1>0, <1>5 DEF request, loopVars, shutdownVars, ServedSet, PlainTypeOK
  <2> QED BY <2>1, <1>q, <1>5 DEF request, loopVars, shutdownVars
<1>6. ASSUME NEW c \in Conns, answer(c) PROVE TasksCounted'
  <2>1. ServedSet' = ServedSet
    BY <1>0, <1>6 DEF answer, loopVars, shutdownVars, ServedSet, PlainTypeOK
  <2> QED BY <2>1, <1>q, <1>6 DEF answer, loopVars, shutdownVars
<1>7. ASSUME NEW c \in Conns, accept(c) PROVE TasksCounted'
  <2>2. Change(ServedSet, ServedSet', c, 1)
    BY <1>0, <1>7 DEF Change, ServedSet, accept, loopVars, shutdownVars, PlainTypeOK, PumpsServed, Shared, SharedBy
  <2>3. Change(RunningSet, RunningSet', c, 0)
    BY <1>0, <1>7 DEF Change, RunningSet, accept, loopVars, shutdownVars, PlainTypeOK, PumpsServed, Shared, SharedBy
  <2>4. Change(PumpSet, PumpSet', c, 0)
    BY <1>0, <1>7 DEF Change, PumpSet, accept, loopVars, shutdownVars, PlainTypeOK, PumpsServed, Shared, SharedBy
  <2>5. Alone' = Alone + 0
    BY <1>0, <1>7 DEF Alone, PlainTypeOK, accept, loopVars, shutdownVars
  <2>6. tasks' = tasks + 1 + 0 + 0 + 0
    BY <1>0, <1>7 DEF PlainTypeOK, accept, loopVars, shutdownVars
  <2> QED BY <2>2, <2>3, <2>4, <2>5, <2>6, <1>0, CountMoves
<1>8. ASSUME NEW c \in Conns, handshake_fails(c) PROVE TasksCounted'
  <2>2. Change(ServedSet, ServedSet', c, (-1))
    BY <1>0, <1>8 DEF Change, ServedSet, handshake_fails, ReleaseAll, Close, loopVars, shutdownVars, PlainTypeOK, PumpsServed, Shared, SharedBy
  <2>3. Change(RunningSet, RunningSet', c, 0)
    BY <1>0, <1>8 DEF Change, RunningSet, handshake_fails, ReleaseAll, Close, loopVars, shutdownVars, PlainTypeOK, PumpsServed, Shared, SharedBy
  <2>4. Change(PumpSet, PumpSet', c, 0)
    BY <1>0, <1>8 DEF Change, PumpSet, handshake_fails, ReleaseAll, Close, loopVars, shutdownVars, PlainTypeOK, PumpsServed, Shared, SharedBy
  <2>5. Alone' = Alone + 0
    BY <1>0, <1>8 DEF Alone, PlainTypeOK, handshake_fails, ReleaseAll, Close, loopVars, shutdownVars
  <2>6. tasks' = tasks + (-1) + 0 + 0 + 0
    BY <1>0, <1>8 DEF PlainTypeOK, handshake_fails, ReleaseAll, Close, loopVars, shutdownVars
  <2> QED BY <2>2, <2>3, <2>4, <2>5, <2>6, <1>0, CountMoves
<1>9. ASSUME NEW c \in Conns, close_idle(c) PROVE TasksCounted'
  <2>2. Change(ServedSet, ServedSet', c, (-1))
    BY <1>0, <1>9 DEF Change, ServedSet, close_idle, ReleaseAll, Close, loopVars, shutdownVars, PlainTypeOK, PumpsServed, Shared, SharedBy
  <2>3. Change(RunningSet, RunningSet', c, 0)
    BY <1>0, <1>9 DEF Change, RunningSet, close_idle, ReleaseAll, Close, loopVars, shutdownVars, PlainTypeOK, PumpsServed, Shared, SharedBy
  <2>4. Change(PumpSet, PumpSet', c, 0)
    BY <1>0, <1>9 DEF Change, PumpSet, close_idle, ReleaseAll, Close, loopVars, shutdownVars, PlainTypeOK, PumpsServed, Shared, SharedBy
  <2>5. Alone' = Alone + 0
    BY <1>0, <1>9 DEF Alone, PlainTypeOK, close_idle, ReleaseAll, Close, loopVars, shutdownVars
  <2>6. tasks' = tasks + (-1) + 0 + 0 + 0
    BY <1>0, <1>9 DEF PlainTypeOK, close_idle, ReleaseAll, Close, loopVars, shutdownVars
  <2> QED BY <2>2, <2>3, <2>4, <2>5, <2>6, <1>0, CountMoves
<1>10. ASSUME NEW c \in Conns, disconnect(c) PROVE TasksCounted'
  <2>2. Change(ServedSet, ServedSet', c, (-1))
    BY <1>0, <1>10 DEF Change, ServedSet, disconnect, ReleaseAll, Close, loopVars, shutdownVars, PlainTypeOK, PumpsServed, Shared, SharedBy
  <2>3. Change(RunningSet, RunningSet', c, 0)
    BY <1>0, <1>10 DEF Change, RunningSet, disconnect, ReleaseAll, Close, loopVars, shutdownVars, PlainTypeOK, PumpsServed, Shared, SharedBy
  <2>4. Change(PumpSet, PumpSet', c, 0)
    BY <1>0, <1>10 DEF Change, PumpSet, disconnect, ReleaseAll, Close, loopVars, shutdownVars, PlainTypeOK, PumpsServed, Shared, SharedBy
  <2>5. Alone' = Alone + 0
    BY <1>0, <1>10 DEF Alone, PlainTypeOK, disconnect, ReleaseAll, Close, loopVars, shutdownVars
  <2>6. tasks' = tasks + (-1) + 0 + 0 + 0
    BY <1>0, <1>10 DEF PlainTypeOK, disconnect, ReleaseAll, Close, loopVars, shutdownVars
  <2> QED BY <2>2, <2>3, <2>4, <2>5, <2>6, <1>0, CountMoves
<1>11. ASSUME NEW c \in Conns, switch(c) PROVE TasksCounted'
  <2>2. Change(ServedSet, ServedSet', c, (-1))
    BY <1>0, <1>11 DEF Change, ServedSet, switch, Release, loopVars, shutdownVars, PlainTypeOK, PumpsServed, Shared, SharedBy
  <2>3. Change(RunningSet, RunningSet', c, 0)
    BY <1>0, <1>11 DEF Change, RunningSet, switch, Release, loopVars, shutdownVars, PlainTypeOK, PumpsServed, Shared, SharedBy
  <2>4. Change(PumpSet, PumpSet', c, 0)
    BY <1>0, <1>11 DEF Change, PumpSet, switch, Release, loopVars, shutdownVars, PlainTypeOK, PumpsServed, Shared, SharedBy
  <2>5. Alone' = Alone + 0
    BY <1>0, <1>11 DEF Alone, PlainTypeOK, switch, Release, loopVars, shutdownVars
  <2>6. tasks' = tasks + (-1) + 0 + 0 + 0
    BY <1>0, <1>11 DEF PlainTypeOK, switch, Release, loopVars, shutdownVars
  <2> QED BY <2>2, <2>3, <2>4, <2>5, <2>6, <1>0, CountMoves
<1>12. ASSUME NEW c \in Conns, stream(c) PROVE TasksCounted'
  <2>1. PICK spawned \in 0..1 : side' = side + spawned /\ tasks' = tasks + 1 + spawned
    BY <1>12 DEF stream
  <2>2. Change(ServedSet, ServedSet', c, 0)
    BY <1>0, <1>12 DEF Change, ServedSet, stream, loopVars, shutdownVars, PlainTypeOK, PumpsServed, Shared, SharedBy
  <2>3. Change(RunningSet, RunningSet', c, 0)
    BY <1>0, <1>12 DEF Change, RunningSet, stream, loopVars, shutdownVars, PlainTypeOK, PumpsServed, Shared, SharedBy
  <2>4. Change(PumpSet, PumpSet', c, 1)
    BY <1>0, <1>12 DEF Change, PumpSet, stream, loopVars, shutdownVars, PlainTypeOK, PumpsServed, Shared, SharedBy
  <2>5. Alone' = Alone + spawned /\ spawned \in Int
    BY <2>1, <1>0, <1>12 DEF Alone, PlainTypeOK, stream, loopVars, shutdownVars
  <2>6. tasks' = tasks + 0 + 0 + 1 + spawned
    BY <2>1, <1>0 DEF PlainTypeOK
  <2> QED BY <2>2, <2>3, <2>4, <2>5, <2>6, <1>0, CountMoves
<1>13. ASSUME NEW c \in Conns, track_future(c) PROVE TasksCounted'
  <2>1. PICK spawned \in 0..1 : side' = side + spawned /\ tasks' = tasks + 1 + spawned
    BY <1>13 DEF track_future
  <2>2. Change(ServedSet, ServedSet', c, 0)
    BY <1>0, <1>13 DEF Change, ServedSet, track_future, loopVars, shutdownVars, PlainTypeOK, PumpsServed, Shared, SharedBy
  <2>3. Change(RunningSet, RunningSet', c, 1)
    BY <1>0, <1>13 DEF Change, RunningSet, track_future, loopVars, shutdownVars, PlainTypeOK, PumpsServed, Shared, SharedBy
  <2>4. Change(PumpSet, PumpSet', c, 0)
    BY <1>0, <1>13 DEF Change, PumpSet, track_future, loopVars, shutdownVars, PlainTypeOK, PumpsServed, Shared, SharedBy
  <2>5. Alone' = Alone + spawned /\ spawned \in Int
    BY <2>1, <1>0, <1>13 DEF Alone, PlainTypeOK, track_future, loopVars, shutdownVars
  <2>6. tasks' = tasks + 0 + 1 + 0 + spawned
    BY <2>1, <1>0 DEF PlainTypeOK
  <2> QED BY <2>2, <2>3, <2>4, <2>5, <2>6, <1>0, CountMoves
<1>14. ASSUME NEW c \in Conns, session_ends(c) PROVE TasksCounted'
  <2>1. PICK spawned \in 0..1 : side' = side + spawned /\ tasks' = tasks - 1 + spawned
    BY <1>14 DEF session_ends
  <2>2. Change(ServedSet, ServedSet', c, 0)
    BY <1>0, <1>14 DEF Change, ServedSet, session_ends, Release, loopVars, shutdownVars, PlainTypeOK, PumpsServed, Shared, SharedBy
  <2>3. Change(RunningSet, RunningSet', c, (-1))
    BY <1>0, <1>14 DEF Change, RunningSet, session_ends, Release, loopVars, shutdownVars, PlainTypeOK, PumpsServed, Shared, SharedBy
  <2>4. Change(PumpSet, PumpSet', c, 0)
    BY <1>0, <1>14 DEF Change, PumpSet, session_ends, Release, loopVars, shutdownVars, PlainTypeOK, PumpsServed, Shared, SharedBy
  <2>5. Alone' = Alone + spawned /\ spawned \in Int
    BY <2>1, <1>0, <1>14 DEF Alone, PlainTypeOK, session_ends, Release, loopVars, shutdownVars
  <2>6. tasks' = tasks + 0 + (-1) + 0 + spawned
    BY <2>1, <1>0 DEF PlainTypeOK
  <2> QED BY <2>2, <2>3, <2>4, <2>5, <2>6, <1>0, CountMoves
<1>15. ASSUME NEW c \in Conns, pump_ends(c) PROVE TasksCounted'
  <2>1. PICK spawned \in 0..1 : side' = side + spawned /\ tasks' = tasks - 1 + spawned
    BY <1>15 DEF pump_ends
  <2>2. Change(ServedSet, ServedSet', c, 0)
    BY <1>0, <1>15 DEF Change, ServedSet, pump_ends, loopVars, shutdownVars, PlainTypeOK, PumpsServed, Shared, SharedBy
  <2>3. Change(RunningSet, RunningSet', c, 0)
    BY <1>0, <1>15 DEF Change, RunningSet, pump_ends, loopVars, shutdownVars, PlainTypeOK, PumpsServed, Shared, SharedBy
  <2>4. Change(PumpSet, PumpSet', c, (-1))
    BY <1>0, <1>15 DEF Change, PumpSet, pump_ends, loopVars, shutdownVars, PlainTypeOK, PumpsServed, Shared, SharedBy
  <2>5. Alone' = Alone + spawned /\ spawned \in Int
    BY <2>1, <1>0, <1>15 DEF Alone, PlainTypeOK, pump_ends, loopVars, shutdownVars
  <2>6. tasks' = tasks + 0 + 0 + (-1) + spawned
    BY <2>1, <1>0 DEF PlainTypeOK
  <2> QED BY <2>2, <2>3, <2>4, <2>5, <2>6, <1>0, CountMoves
<1>16. CASE acquire \/ accept_fails \/ continue \/ drain \/ stop \/ return \/ time_out
  <2>1. UNCHANGED <<conn, session, pump, background, side, tasks>>
    BY <1>16 DEF acquire, accept_fails, continue, drain, stop, return, time_out, connVars
  <2>2. Alone' = Alone /\ ServedSet' = ServedSet
    BY <2>1, <1>16 DEF acquire, accept_fails, continue, drain, stop, return, time_out, Alone, loopVars, ServedSet
  <2> QED BY <2>1, <2>2, <1>0 DEF TasksCounted, RunningSet, PumpSet
<1>17. CASE work \/ UNCHANGED serverVars
  <2>1. UNCHANGED <<conn, session, pump, side, tasks, loop>>
    BY <1>17 DEF work, serverVars, connVars, loopVars
  <2>2. Alone' = Alone /\ ServedSet' = ServedSet
    BY <2>1, <1>17 DEF work, serverVars, Alone, ServedSet
  <2> QED BY <2>1, <2>2, <1>0 DEF TasksCounted, RunningSet, PumpSet
<1>18. CASE stop_loop
  <2>1. UNCHANGED <<conn, session, pump>>
    BY <1>18 DEF stop_loop, loopVars, connVars, shutdownVars
  <2>2. /\ Change(ServedSet, ServedSet', 0, 0) /\ Change(RunningSet, RunningSet', 0, 0)
        /\ Change(PumpSet, PumpSet', 0, 0)
    BY <2>1 DEF Change, ServedSet, RunningSet, PumpSet
  <2>3. Alone' = Alone + (-1)
    BY <1>0, <1>18 DEF Alone, PlainTypeOK, stop_loop, loopVars, connVars, shutdownVars
  <2>4. tasks' = tasks + 0 + 0 + 0 + (-1)
    BY <1>0, <1>18 DEF PlainTypeOK, stop_loop
  <2> QED BY <2>2, <2>3, <2>4, <1>0, CountMoves
<1>19. CASE side_done
  <2>1. UNCHANGED <<conn, session, pump>>
    BY <1>19 DEF side_done, loopVars, connVars, shutdownVars
  <2>2. /\ Change(ServedSet, ServedSet', 0, 0) /\ Change(RunningSet, RunningSet', 0, 0)
        /\ Change(PumpSet, PumpSet', 0, 0)
    BY <2>1 DEF Change, ServedSet, RunningSet, PumpSet
  <2>3. Alone' = Alone + (-1)
    BY <1>0, <1>19 DEF Alone, PlainTypeOK, side_done, loopVars, connVars, shutdownVars
  <2>4. tasks' = tasks + 0 + 0 + 0 + (-1)
    BY <1>0, <1>19 DEF PlainTypeOK, side_done
  <2> QED BY <2>2, <2>3, <2>4, <1>0, CountMoves
<1>20. CASE stop_work
  <2>1. UNCHANGED <<conn, session, pump>>
    BY <1>20 DEF stop_work, loopVars, connVars, shutdownVars
  <2>2. /\ Change(ServedSet, ServedSet', 0, 0) /\ Change(RunningSet, RunningSet', 0, 0)
        /\ Change(PumpSet, PumpSet', 0, 0)
    BY <2>1 DEF Change, ServedSet, RunningSet, PumpSet
  <2>3. Alone' = Alone + (-1)
    BY <1>0, <1>20 DEF Alone, PlainTypeOK, stop_work, loopVars, connVars, shutdownVars
  <2>4. tasks' = tasks + 0 + 0 + 0 + (-1)
    BY <1>0, <1>20 DEF PlainTypeOK, stop_work
  <2> QED BY <2>2, <2>3, <2>4, <1>0, CountMoves
<1> QED
  BY <1>1, <1>2, <1>3, <1>4, <1>5, <1>6, <1>7, <1>8, <1>9, <1>10, <1>11, <1>12, <1>13, <1>14, <1>15, <1>16, <1>17, <1>18, <1>19, <1>20 DEF ServerNext

(***************************************************************************)
(* The types without those of TaskTracker's watch, which the last conjunct *)
(* of ServerNext changes.                                                  *)
(***************************************************************************)
StepTypeOK ==
    /\ mode \in {"serving", "draining", "stopping", "returned"} /\ timed_out \in BOOLEAN
    /\ loop \in {"permit", "accept", "backoff", "ended"} /\ failed \in 0..MaxFailures
    /\ conn \in [Conns -> Stages] /\ told \subseteq Conns
    /\ session \in [Conns -> {"none", "pending", "running", "ended"}]
    /\ pump \in [Conns -> {"none", "running", "ended"}]
    /\ background \in {"waiting", "working", "ended"} /\ permits \in Nat
    /\ side \in Nat /\ tasks \in Int /\ begun \in 0..MaxRequests

LEMMA StepTypesKept ==
    ASSUME ServerInv, [ServerNext]_serverVars
    PROVE  StepTypeOK'
<1> USE DEF StepTypeOK, Stages, Exchanges
<1>0. StepTypeOK /\ MaxFailures \in Nat /\ MaxRequests \in Nat
  BY ServerAssumption DEF ServerInv, TaskInv, PlainTypeOK
<1>1. ASSUME NEW c \in Conns, arrive(c) PROVE StepTypeOK'
  BY <1>0, <1>1 DEF arrive, loopVars, shutdownVars
<1>2. ASSUME NEW c \in Conns, accept(c) PROVE StepTypeOK'
  BY <1>0, <1>2 DEF accept, loopVars, shutdownVars
<1>3. ASSUME NEW c \in Conns, handshake(c) PROVE StepTypeOK'
  BY <1>0, <1>3 DEF handshake, loopVars, shutdownVars
<1>4. ASSUME NEW c \in Conns, handshake_fails(c) PROVE StepTypeOK'
  BY <1>0, <1>4 DEF handshake_fails, ReleaseAll, Close, loopVars, shutdownVars
<1>5. ASSUME NEW c \in Conns, graceful_shutdown(c) PROVE StepTypeOK'
  BY <1>0, <1>5 DEF graceful_shutdown, loopVars, shutdownVars
<1>6. ASSUME NEW c \in Conns, close_idle(c) PROVE StepTypeOK'
  BY <1>0, <1>6 DEF close_idle, ReleaseAll, Close, loopVars, shutdownVars
<1>7. ASSUME NEW c \in Conns, disconnect(c) PROVE StepTypeOK'
  BY <1>0, <1>7 DEF disconnect, ReleaseAll, Close, loopVars, shutdownVars
<1>8. ASSUME NEW c \in Conns, upgrade(c) PROVE StepTypeOK'
  BY <1>0, <1>8 DEF upgrade, loopVars, shutdownVars
<1>9. ASSUME NEW c \in Conns, stream(c) PROVE StepTypeOK'
  BY <1>0, <1>9 DEF stream, loopVars, shutdownVars
<1>10. ASSUME NEW c \in Conns, request(c) PROVE StepTypeOK'
  BY <1>0, <1>10 DEF request, loopVars, shutdownVars
<1>11. ASSUME NEW c \in Conns, answer(c) PROVE StepTypeOK'
  BY <1>0, <1>11 DEF answer, loopVars, shutdownVars
<1>12. ASSUME NEW c \in Conns, switch(c) PROVE StepTypeOK'
  BY <1>0, <1>12 DEF switch, Release, loopVars, shutdownVars
<1>13. ASSUME NEW c \in Conns, track_future(c) PROVE StepTypeOK'
  BY <1>0, <1>13 DEF track_future, loopVars, shutdownVars
<1>14. ASSUME NEW c \in Conns, session_ends(c) PROVE StepTypeOK'
  BY <1>0, <1>14 DEF session_ends, Release, loopVars, shutdownVars
<1>15. ASSUME NEW c \in Conns, pump_ends(c) PROVE StepTypeOK'
  BY <1>0, <1>15 DEF pump_ends, loopVars, shutdownVars
<1>16. CASE acquire
  BY <1>0, <1>16 DEF acquire, loopVars, connVars, shutdownVars
<1>17. CASE accept_fails
  BY <1>0, <1>17 DEF accept_fails, loopVars, connVars, shutdownVars
<1>18. CASE continue
  BY <1>0, <1>18 DEF continue, loopVars, connVars, shutdownVars
<1>19. CASE stop_loop
  BY <1>0, <1>19 DEF stop_loop, loopVars, connVars, shutdownVars
<1>20. CASE side_done
  BY <1>0, <1>20 DEF side_done, loopVars, connVars, shutdownVars
<1>21. CASE work
  BY <1>0, <1>21 DEF work, loopVars, connVars, shutdownVars
<1>22. CASE stop_work
  BY <1>0, <1>22 DEF stop_work, loopVars, connVars, shutdownVars
<1>23. CASE drain
  BY <1>0, <1>23 DEF drain, loopVars, connVars, shutdownVars
<1>24. CASE stop
  BY <1>0, <1>24 DEF stop, loopVars, connVars, shutdownVars
<1>25. CASE return
  BY <1>0, <1>25 DEF return, loopVars, connVars, shutdownVars
<1>26. CASE time_out
  BY <1>0, <1>26 DEF time_out, loopVars, connVars, shutdownVars
<1>27. CASE UNCHANGED serverVars
  BY <1>0, <1>27 DEF serverVars, loopVars, connVars, shutdownVars, watchVars
<1> QED
  BY <1>1, <1>2, <1>3, <1>4, <1>5, <1>6, <1>7, <1>8, <1>9, <1>10, <1>11, <1>12, <1>13, <1>14, <1>15, <1>16, <1>17, <1>18, <1>19, <1>20, <1>21, <1>22, <1>23, <1>24, <1>25, <1>26, <1>27 DEF ServerNext

LEMMA PumpsKept ==
    ASSUME ServerInv, [ServerNext]_serverVars
    PROVE  PumpsServed'
<1> USE DEF PumpsServed
<1>0. PlainTypeOK /\ PumpsServed
  BY DEF ServerInv, TaskInv
<1> USE DEF PlainTypeOK
<1>1. ASSUME NEW c \in Conns, arrive(c) PROVE PumpsServed'
  BY <1>0, <1>1 DEF arrive, loopVars, shutdownVars
<1>2. ASSUME NEW c \in Conns, accept(c) PROVE PumpsServed'
  BY <1>0, <1>2 DEF accept, loopVars, shutdownVars
<1>3. ASSUME NEW c \in Conns, handshake(c) PROVE PumpsServed'
  BY <1>0, <1>3 DEF handshake, loopVars, shutdownVars
<1>4. ASSUME NEW c \in Conns, handshake_fails(c) PROVE PumpsServed'
  BY <1>0, <1>4 DEF handshake_fails, ReleaseAll, Close, loopVars, shutdownVars
<1>5. ASSUME NEW c \in Conns, graceful_shutdown(c) PROVE PumpsServed'
  BY <1>0, <1>5 DEF graceful_shutdown, loopVars, shutdownVars
<1>6. ASSUME NEW c \in Conns, close_idle(c) PROVE PumpsServed'
  BY <1>0, <1>6 DEF close_idle, ReleaseAll, Close, loopVars, shutdownVars
<1>7. ASSUME NEW c \in Conns, disconnect(c) PROVE PumpsServed'
  BY <1>0, <1>7 DEF disconnect, ReleaseAll, Close, loopVars, shutdownVars
<1>8. ASSUME NEW c \in Conns, upgrade(c) PROVE PumpsServed'
  BY <1>0, <1>8 DEF upgrade, loopVars, shutdownVars
<1>9. ASSUME NEW c \in Conns, stream(c) PROVE PumpsServed'
  BY <1>0, <1>9 DEF stream, loopVars, shutdownVars
<1>10. ASSUME NEW c \in Conns, request(c) PROVE PumpsServed'
  BY <1>0, <1>10 DEF request, loopVars, shutdownVars
<1>11. ASSUME NEW c \in Conns, answer(c) PROVE PumpsServed'
  BY <1>0, <1>11 DEF answer, loopVars, shutdownVars
<1>12. ASSUME NEW c \in Conns, switch(c) PROVE PumpsServed'
  BY <1>0, <1>12 DEF switch, Release, loopVars, shutdownVars
<1>13. ASSUME NEW c \in Conns, track_future(c) PROVE PumpsServed'
  BY <1>0, <1>13 DEF track_future, loopVars, shutdownVars
<1>14. ASSUME NEW c \in Conns, session_ends(c) PROVE PumpsServed'
  BY <1>0, <1>14 DEF session_ends, Release, loopVars, shutdownVars
<1>15. ASSUME NEW c \in Conns, pump_ends(c) PROVE PumpsServed'
  BY <1>0, <1>15 DEF pump_ends, loopVars, shutdownVars
<1>16. CASE acquire
  BY <1>0, <1>16 DEF acquire, loopVars, connVars, shutdownVars
<1>17. CASE accept_fails
  BY <1>0, <1>17 DEF accept_fails, loopVars, connVars, shutdownVars
<1>18. CASE continue
  BY <1>0, <1>18 DEF continue, loopVars, connVars, shutdownVars
<1>19. CASE stop_loop
  BY <1>0, <1>19 DEF stop_loop, loopVars, connVars, shutdownVars
<1>20. CASE side_done
  BY <1>0, <1>20 DEF side_done, loopVars, connVars, shutdownVars
<1>21. CASE work
  BY <1>0, <1>21 DEF work, loopVars, connVars, shutdownVars
<1>22. CASE stop_work
  BY <1>0, <1>22 DEF stop_work, loopVars, connVars, shutdownVars
<1>23. CASE drain
  BY <1>0, <1>23 DEF drain, loopVars, connVars, shutdownVars
<1>24. CASE stop
  BY <1>0, <1>24 DEF stop, loopVars, connVars, shutdownVars
<1>25. CASE return
  BY <1>0, <1>25 DEF return, loopVars, connVars, shutdownVars
<1>26. CASE time_out
  BY <1>0, <1>26 DEF time_out, loopVars, connVars, shutdownVars
<1>27. CASE UNCHANGED serverVars
  BY <1>0, <1>27 DEF serverVars, loopVars, connVars, shutdownVars, watchVars
<1> QED
  BY <1>1, <1>2, <1>3, <1>4, <1>5, <1>6, <1>7, <1>8, <1>9, <1>10, <1>11, <1>12, <1>13, <1>14, <1>15, <1>16, <1>17, <1>18, <1>19, <1>20, <1>21, <1>22, <1>23, <1>24, <1>25, <1>26, <1>27 DEF ServerNext

(***************************************************************************)
(* What Drained says of a process that TaskTracker has seen empty.         *)
(***************************************************************************)
Quiet(S) ==
    /\ loop = "ended" /\ background = "ended"
    /\ \A c \in Conns : /\ ~Served(c) /\ pump[c] # "running"
                        /\ session[c] \in {"pending", "running"} => c \in S
    /\ side > 0 => S # {}

(***************************************************************************)
(* After that only the sessions in S can begin, and what they spawn.       *)
(***************************************************************************)
LEMMA QuietKept ==
    ASSUME ServerInv, [ServerNext]_serverVars, NEW S, Quiet(S)
    PROVE  Quiet(S)'
<1> USE DEF Quiet, Served, Stages, Exchanges
<1>0. PlainTypeOK /\ Quiet(S)
  BY DEF ServerInv, TaskInv
<1> USE DEF PlainTypeOK
<1>1. ASSUME NEW c \in Conns, arrive(c) PROVE Quiet(S)'
  BY <1>0, <1>1 DEF arrive, loopVars, shutdownVars
<1>2. ASSUME NEW c \in Conns, accept(c) PROVE Quiet(S)'
  BY <1>0, <1>2 DEF accept, loopVars, shutdownVars
<1>3. ASSUME NEW c \in Conns, handshake(c) PROVE Quiet(S)'
  BY <1>0, <1>3 DEF handshake, loopVars, shutdownVars
<1>4. ASSUME NEW c \in Conns, handshake_fails(c) PROVE Quiet(S)'
  BY <1>0, <1>4 DEF handshake_fails, ReleaseAll, Close, loopVars, shutdownVars
<1>5. ASSUME NEW c \in Conns, graceful_shutdown(c) PROVE Quiet(S)'
  BY <1>0, <1>5 DEF graceful_shutdown, loopVars, shutdownVars
<1>6. ASSUME NEW c \in Conns, close_idle(c) PROVE Quiet(S)'
  BY <1>0, <1>6 DEF close_idle, ReleaseAll, Close, loopVars, shutdownVars
<1>7. ASSUME NEW c \in Conns, disconnect(c) PROVE Quiet(S)'
  BY <1>0, <1>7 DEF disconnect, ReleaseAll, Close, loopVars, shutdownVars
<1>8. ASSUME NEW c \in Conns, upgrade(c) PROVE Quiet(S)'
  BY <1>0, <1>8 DEF upgrade, loopVars, shutdownVars
<1>9. ASSUME NEW c \in Conns, stream(c) PROVE Quiet(S)'
  BY <1>0, <1>9 DEF stream, loopVars, shutdownVars
<1>10. ASSUME NEW c \in Conns, request(c) PROVE Quiet(S)'
  BY <1>0, <1>10 DEF request, loopVars, shutdownVars
<1>11. ASSUME NEW c \in Conns, answer(c) PROVE Quiet(S)'
  BY <1>0, <1>11 DEF answer, loopVars, shutdownVars
<1>12. ASSUME NEW c \in Conns, switch(c) PROVE Quiet(S)'
  BY <1>0, <1>12 DEF switch, Release, loopVars, shutdownVars
<1>13. ASSUME NEW c \in Conns, track_future(c) PROVE Quiet(S)'
  BY <1>0, <1>13 DEF track_future, loopVars, shutdownVars
<1>14. ASSUME NEW c \in Conns, session_ends(c) PROVE Quiet(S)'
  BY <1>0, <1>14 DEF session_ends, Release, loopVars, shutdownVars
<1>15. ASSUME NEW c \in Conns, pump_ends(c) PROVE Quiet(S)'
  BY <1>0, <1>15 DEF pump_ends, loopVars, shutdownVars
<1>16. CASE acquire
  BY <1>0, <1>16 DEF acquire, loopVars, connVars, shutdownVars
<1>17. CASE accept_fails
  BY <1>0, <1>17 DEF accept_fails, loopVars, connVars, shutdownVars
<1>18. CASE continue
  BY <1>0, <1>18 DEF continue, loopVars, connVars, shutdownVars
<1>19. CASE stop_loop
  BY <1>0, <1>19 DEF stop_loop, loopVars, connVars, shutdownVars
<1>20. CASE side_done
  BY <1>0, <1>20 DEF side_done, loopVars, connVars, shutdownVars
<1>21. CASE work
  BY <1>0, <1>21 DEF work, loopVars, connVars, shutdownVars
<1>22. CASE stop_work
  BY <1>0, <1>22 DEF stop_work, loopVars, connVars, shutdownVars
<1>23. CASE drain
  BY <1>0, <1>23 DEF drain, loopVars, connVars, shutdownVars
<1>24. CASE stop
  BY <1>0, <1>24 DEF stop, loopVars, connVars, shutdownVars
<1>25. CASE return
  BY <1>0, <1>25 DEF return, loopVars, connVars, shutdownVars
<1>26. CASE time_out
  BY <1>0, <1>26 DEF time_out, loopVars, connVars, shutdownVars
<1>27. CASE UNCHANGED serverVars
  BY <1>0, <1>27 DEF serverVars, loopVars, connVars, shutdownVars, watchVars
<1> QED
  BY <1>1, <1>2, <1>3, <1>4, <1>5, <1>6, <1>7, <1>8, <1>9, <1>10, <1>11, <1>12, <1>13, <1>14, <1>15, <1>16, <1>17, <1>18, <1>19, <1>20, <1>21, <1>22, <1>23, <1>24, <1>25, <1>26, <1>27 DEF ServerNext

LEMMA NothingAlone ==
    ASSUME NEW a \in Nat, NEW b \in Nat, NEW e \in Nat, NEW f, f = a + b + e
    PROVE  f \in Nat /\ (f = 0 => a = 0 /\ b = 0 /\ e = 0)
OBVIOUS

LEMMA NothingLeft ==
    ASSUME NEW a \in Nat, NEW b \in Nat, NEW e \in Nat, NEW f \in Nat, a + b + e + f = 0
    PROVE  a = 0 /\ b = 0 /\ e = 0 /\ f = 0
OBVIOUS

(***************************************************************************)
(* TaskTracker counts everything that runs, so that it is empty when       *)
(* nothing does but the upgrades that nobody counted yet.                  *)
(***************************************************************************)
LEMMA EmptyIsQuiet ==
    ASSUME PlainTypeOK', TasksCounted', tasks' = 0
    PROVE  Quiet({c \in Conns : session[c] = "pending"})'
<1>1. ServedSet' \in SUBSET Conns /\ RunningSet' \in SUBSET Conns /\ PumpSet' \in SUBSET Conns
  BY DEF ServedSet, RunningSet, PumpSet
<1>2. IsFiniteSet(ServedSet') /\ IsFiniteSet(RunningSet') /\ IsFiniteSet(PumpSet')
  BY <1>1, ServerAssumption, FS_Subset
<1>3. /\ Cardinality(ServedSet') \in Nat /\ Cardinality(RunningSet') \in Nat
      /\ Cardinality(PumpSet') \in Nat
  BY <1>2, FS_CardinalityType
<1>4. side' \in Nat /\ Alone' \in Nat
  <2>1. side' \in Nat
    BY DEF PlainTypeOK
  <2>2. LoopTask' \in Nat /\ WorkTask' \in Nat
    BY DEF LoopTask, WorkTask
  <2>3. Alone' = side' + LoopTask' + WorkTask'
    BY DEF Alone
  <2> HIDE DEF Alone, LoopTask, WorkTask
  <2> QED BY ONLY <2>1, <2>2, <2>3, NothingAlone
<1>5. /\ Cardinality(ServedSet') = 0 /\ Cardinality(RunningSet') = 0
      /\ Cardinality(PumpSet') = 0 /\ Alone' = 0
  <2>1. Cardinality(ServedSet') + Cardinality(RunningSet') + Cardinality(PumpSet') + Alone' = 0
    BY DEF TasksCounted
  <2> HIDE DEF ServedSet, RunningSet, PumpSet, Alone
  <2> QED BY ONLY <1>3, <1>4, <2>1, NothingLeft
<1>6. ServedSet' = {} /\ RunningSet' = {} /\ PumpSet' = {}
  BY <1>2, <1>5, FS_EmptySet
<1>7. \A c \in Conns : ~Served(c)' /\ session'[c] # "running" /\ pump'[c] # "running"
  BY <1>6 DEF ServedSet, RunningSet, PumpSet
<1>8. side' = 0 /\ loop' = "ended" /\ background' = "ended"
  <2>1. LoopTask' \in Nat /\ WorkTask' \in Nat
    BY DEF LoopTask, WorkTask
  <2>2. side' = 0 /\ LoopTask' = 0 /\ WorkTask' = 0
    <3>1. Alone' = side' + LoopTask' + WorkTask'
      BY DEF Alone
    <3> HIDE DEF Alone, LoopTask, WorkTask
    <3> QED BY ONLY <1>4, <1>5, <2>1, <3>1, NothingAlone
  <2> QED BY <2>2 DEF LoopTask, WorkTask
<1> QED BY <1>7, <1>8 DEF Quiet

LEMMA WatchKeeps ==
    ASSUME ServerInv, [ServerNext]_serverVars, StepTypeOK', TasksCounted'
    PROVE  PlainTypeOK' /\ Drained' /\ Waited'
<1>0. /\ emptied \in BOOLEAN /\ overlooked \subseteq Conns /\ timed_out \in BOOLEAN
      /\ Drained /\ Waited
  BY DEF ServerInv, TaskInv, PlainTypeOK
<1>1. emptied' \in BOOLEAN /\ overlooked' \subseteq Conns
  BY <1>0 DEF ServerNext, Watch, serverVars, watchVars
<1>2. PlainTypeOK'
  BY <1>1 DEF StepTypeOK, PlainTypeOK
<1>3. Drained'
  <2>1. CASE emptied
    <3>1. PICK S : S = overlooked
      OBVIOUS
    <3>2. Quiet(S)
      BY <1>0, <2>1, <3>1 DEF Drained, Quiet
    <3>3. Quiet(S)'
      BY <3>2, QuietKept
    <3>4. overlooked' = S
      BY <1>0, <2>1, <3>1 DEF ServerNext, Watch, serverVars, watchVars
    <3> QED BY <3>3, <3>4 DEF Drained, Quiet, Served
  <2>2. CASE emptied' /\ ~emptied
    <3>1. tasks' = 0 /\ overlooked' = {c \in Conns : session'[c] = "pending"}
      BY <1>0, <2>2 DEF ServerNext, Watch, serverVars, watchVars
    <3>2. Quiet({c \in Conns : session[c] = "pending"})'
      BY <3>1, <1>2, EmptyIsQuiet
    <3> QED BY <3>1, <3>2 DEF Drained, Quiet, Served
  <2>3. CASE ~emptied'
    BY <2>3 DEF Drained
  <2> QED BY <1>0, <1>1, <2>1, <2>2, <2>3
<1>4. Waited'
  <2>1. emptied => emptied'
    BY <1>0 DEF ServerNext, Watch, serverVars, watchVars
  <2>2. CASE mode' = mode /\ timed_out' = timed_out
    BY <1>0, <2>1, <2>2 DEF Waited
  <2>3. CASE return \/ time_out \/ drain \/ stop
    BY <2>1, <2>3 DEF return, time_out, drain, stop, Waited
  <2>4. CASE ~(return \/ time_out \/ drain \/ stop)
    <3>1. mode' = mode /\ timed_out' = timed_out
      BY <2>4 DEF ServerNext, serverVars, shutdownVars, acquire, accept_fails, continue, stop_loop,
         arrive, accept, handshake, handshake_fails, graceful_shutdown, close_idle, disconnect,
         upgrade, stream, request, answer, switch, track_future, session_ends, pump_ends,
         side_done, work, stop_work, Close
    <3> QED BY <3>1, <2>2
  <2> QED BY <2>3, <2>4
<1> QED BY <1>2, <1>3, <1>4

LEMMA TasksStart == ServerInit => TaskInv
<1> SUFFICES ASSUME ServerInit PROVE TaskInv
  OBVIOUS
<1>0. PlainTypeOK
  <2>1. /\ failed \in 0..MaxFailures /\ begun \in 0..MaxRequests
        /\ side \in Nat /\ tasks \in Int /\ permits \in Nat
    BY ServerAssumption DEF ServerInit
  <2>2. conn \in [Conns -> Stages]
    BY DEF ServerInit, Stages
  <2>3. timed_out \in BOOLEAN /\ emptied \in BOOLEAN
    BY DEF ServerInit
  <2> QED BY <2>1, <2>2, <2>3 DEF ServerInit, PlainTypeOK
<1>1. PumpsServed /\ Drained /\ Waited
  BY DEF ServerInit, PumpsServed, Drained, Waited
<1>2. ServedSet = {} /\ RunningSet = {} /\ PumpSet = {} /\ Alone = 2
  BY DEF ServerInit, ServedSet, RunningSet, PumpSet, Alone, LoopTask, WorkTask, Served
<1>3. TasksCounted
  BY <1>2, FS_EmptySet DEF TasksCounted, ServerInit
<1> QED BY <1>0, <1>1, <1>3 DEF TaskInv

(***************************************************************************)
(* The inductive invariant: permits and tasks are accounted for.           *)
(***************************************************************************)
THEOREM ServerInvariant == ServerSpec => []ServerInv
<1>1. ServerInit => ServerInv
  BY ServerStarts, TasksStart DEF ServerInv
<1>2. ServerInv /\ [ServerNext]_serverVars => ServerInv'
  <2> SUFFICES ASSUME ServerInv, [ServerNext]_serverVars PROVE ServerInv'
    OBVIOUS
  <2>1. PermitInv'
    BY ServerKeeps DEF ServerInv
  <2>2. TasksCounted' /\ StepTypeOK' /\ PumpsServed'
    BY CountKept, StepTypesKept, PumpsKept
  <2>3. PlainTypeOK' /\ Drained' /\ Waited'
    BY <2>2, WatchKeeps
  <2> QED BY <2>1, <2>2, <2>3 DEF ServerInv, TaskInv
<1> QED BY <1>1, <1>2, PTL DEF ServerSpec

(***************************************************************************)
(* The types of the process's state.  That permits stay within the         *)
(* semaphore's size and the task count above 0 follows from the counts.    *)
(***************************************************************************)
LEMMA ServerTypes ==
    ASSUME ServerInv
    PROVE  ServerTypeOK
<1>1. PlainTypeOK /\ PermitTypeOK /\ PermitsInUse /\ TasksCounted
  BY DEF ServerInv, TaskInv, PermitInv
<1>2. permits <= MaxConnections
  <2>1. permits + Cardinality(OpenSet) + InLoop = MaxConnections
    BY <1>1 DEF PermitsInUse, OpenSet, InLoop
  <2>2. InLoop \in Nat /\ permits \in Int /\ Cardinality(OpenSet) \in Nat /\ MaxConnections \in Nat
    BY <1>1, OpenFinite, ServerAssumption DEF InLoop, PermitTypeOK
  <2> HIDE DEF InLoop, OpenSet
  <2> QED BY ONLY <2>1, <2>2
<1>3. tasks \in Nat
  <2>1. ServedSet \in SUBSET Conns /\ RunningSet \in SUBSET Conns /\ PumpSet \in SUBSET Conns
    BY DEF ServedSet, RunningSet, PumpSet
  <2>2. IsFiniteSet(ServedSet) /\ IsFiniteSet(RunningSet) /\ IsFiniteSet(PumpSet)
    BY <2>1, ServerAssumption, FS_Subset
  <2>3. /\ Cardinality(ServedSet) \in Nat /\ Cardinality(RunningSet) \in Nat
        /\ Cardinality(PumpSet) \in Nat /\ Alone \in Nat
    BY <2>2, <1>1, FS_CardinalityType DEF Alone, LoopTask, WorkTask, PlainTypeOK
  <2>4. tasks = Cardinality(ServedSet) + Cardinality(RunningSet) + Cardinality(PumpSet) + Alone
    BY <1>1 DEF TasksCounted
  <2> HIDE DEF ServedSet, RunningSet, PumpSet, Alone
  <2> QED BY ONLY <2>3, <2>4
<1> QED BY <1>1, <1>2, <1>3, ServerAssumption DEF ServerTypeOK, PlainTypeOK, PermitTypeOK

(***************************************************************************)
(* When Shutdown::run() returns before its timeout, nothing that           *)
(* TaskTracker was told of still runs: no request, receipt stream, session *)
(* or route cleanup is cut short, for any number of clients, but for the   *)
(* sessions that were still being upgraded.                                *)
(***************************************************************************)
THEOREM ShutdownWaits == ServerSpec => []NothingCutShort
<1>1. ServerInv => NothingCutShort
  BY DEF ServerInv, TaskInv, Drained, Waited, NothingCutShort, Open
<1> QED BY <1>1, ServerInvariant, PTL

-----------------------------------------------------------------------------
(* Google access tokens *)

(***************************************************************************)
(* When a request for a token or with a token was sent, and how long the   *)
(* token it carries was valid then: longer than the request can take.      *)
(***************************************************************************)
Timely ==
    /\ \A i \in DOMAIN issued : issued[i].expires <= issued[i].until
    /\ \A s \in Sends : sends[s].stage \in {"fetching", "sending"} =>
           sends[s].since <= now /\ now <= sends[s].since + Timeout
    /\ \A s \in Sends : sends[s].stage = "sending" =>
           /\ sends[s].token \in DOMAIN issued
           /\ sends[s].since + Timeout < issued[sends[s].token].until

(***************************************************************************)
(* The lock: who is in its queue, and that a request for a token is made   *)
(* by its holder, for want of a cached token that would do.                *)
(***************************************************************************)
QueuedInStages ==
    \A s \in Sends : Queued(s) <=> sends[s].stage \in {"token", "fetching", "invalidate"}

FetcherHolds ==
    \A s \in Sends : sends[s].stage = "fetching" =>
        /\ Holds(s)
        /\ cached = NoToken \/ issued[cached].expires <= sends[s].since + Margin

(***************************************************************************)
(* A refusal belongs to a send that is dropping the token or has dropped   *)
(* it, or whose handler went away meanwhile, and the token is one that was *)
(* issued, so that no later one has its number.                            *)
(***************************************************************************)
RefusalsRemembered ==
    \A s \in Sends :
        /\ sends[s].stage = "invalidate" => sends[s].refused
        /\ sends[s].refused =>
               sends[s].stage \in {"invalidate", "done", "dropped"} /\ sends[s].token \in DOMAIN issued

CachedNewest == cached # NoToken => cached = Len(issued)

AccessInv ==
    /\ AccessTypeOK
    /\ Timely
    /\ QueuedInStages /\ FetcherHolds
    /\ RefusalsRemembered /\ RefusedForgotten
    /\ CachedNewest
    /\ GoneIsGone

LEMMA AccessInitInv == AccessInit => AccessInv
<1> SUFFICES ASSUME AccessInit PROVE AccessInv
  OBVIOUS
<1>1. sends \in [Sends -> Send] /\ \A s \in Sends : sends[s] = [stage |-> "idle", token |-> NoToken,
          since |-> 0, refused |-> FALSE, gone |-> FALSE]
  BY DEF AccessInit, Send
<1>2. AccessTypeOK
  <2>1. lock \in Seq(Sends) /\ IsInjective(lock) /\ issued \in Seq(Token) /\ DOMAIN issued = {}
    BY EmptySeq DEF AccessInit, IsInjective
  <2>2. now \in 0..MaxTime
    BY AccessAssumption DEF AccessInit
  <2> QED BY <1>1, <2>1, <2>2 DEF AccessInit, AccessTypeOK
<1>3. Timely /\ QueuedInStages /\ FetcherHolds /\ CachedNewest
  BY <1>1 DEF AccessInit, Timely, QueuedInStages, FetcherHolds, CachedNewest, Queued
<1>4. RefusalsRemembered /\ RefusedForgotten /\ GoneIsGone
  BY <1>1 DEF RefusalsRemembered, RefusedForgotten, GoneIsGone
<1> QED BY <1>2, <1>3, <1>4 DEF AccessInv

(***************************************************************************)
(* The queue of the lock when a send joins it at the end, when its holder  *)
(* leaves it, and when one of its members does.                            *)
(***************************************************************************)
LEMMA QueueJoin ==
    ASSUME NEW S, NEW q \in Seq(S), NEW s \in S, IsInjective(q), \A i \in DOMAIN q : q[i] # s
    PROVE  LET r == Append(q, s) IN
           /\ r \in Seq(S) /\ IsInjective(r) /\ r # <<>>
           /\ \A x \in S : (\E i \in DOMAIN r : r[i] = x) <=> x = s \/ \E i \in DOMAIN q : q[i] = x
           /\ q # <<>> => Head(r) = Head(q)
<1> DEFINE r == Append(q, s)
<1>1. /\ r \in Seq(S) /\ Len(r) = Len(q) + 1 /\ r[Len(r)] = s
      /\ \A i \in 1..Len(q) : r[i] = q[i]
  BY AppendProperties
<1>2. DOMAIN q = 1..Len(q) /\ DOMAIN r = 1..(Len(q) + 1) /\ Len(q) \in Nat
  BY <1>1, LenProperties
<1>3. IsInjective(r)
  BY <1>1, <1>2 DEF IsInjective
<1>4. ASSUME NEW x \in S
      PROVE  (\E i \in DOMAIN r : r[i] = x) <=> x = s \/ \E i \in DOMAIN q : q[i] = x
  <2>1. CASE x = s
    BY <1>1, <1>2, <2>1
  <2>2. CASE x # s
    BY <1>1, <1>2, <2>2
  <2> QED BY <2>1, <2>2
<1>5. q # <<>> => Head(r) = Head(q)
  BY <1>1, <1>2, HeadTailProperties, EmptySeq
<1>6. r # <<>>
  BY <1>1, <1>2, EmptySeq
<1> QED BY <1>1, <1>3, <1>4, <1>5, <1>6

LEMMA QueueRemove ==
    ASSUME NEW S, NEW q \in Seq(S), NEW k \in DOMAIN q, IsInjective(q)
    PROVE  LET r == RemoveAt(q, k) IN
           /\ r \in Seq(S) /\ IsInjective(r)
           /\ \A x \in S : (\E i \in DOMAIN r : r[i] = x) <=> x # q[k] /\ \E i \in DOMAIN q : q[i] = x
           /\ k # 1 => r # <<>> /\ Head(r) = Head(q)
<1> DEFINE a == SubSeq(q, 1, k - 1)
           b == SubSeq(q, k + 1, Len(q))
           r == RemoveAt(q, k)
<1>1. DOMAIN q = 1..Len(q) /\ Len(q) \in Nat /\ k \in 1..Len(q)
  BY LenProperties
<1>0. \A i \in 1..Len(q) : q[i] \in S
  BY <1>1, ElementOfSeq
<1>2. a \in Seq(S) /\ Len(a) = k - 1 /\ \A i \in 1..(k - 1) : a[i] = q[i]
  <2>1. k - 1 \in Int /\ 1 \in Int /\ \A i \in 1..(k - 1) : q[i] \in S
    BY <1>0, <1>1
  <2>2. /\ a \in Seq(S)
        /\ Len(a) = IF 1 <= k - 1 THEN k - 1 - 1 + 1 ELSE 0
        /\ \A i \in 1..(k - 1 - 1 + 1) : a[i] = q[1 + i - 1]
    BY <2>1, SubSeqProperties
  <2> HIDE DEF a
  <2> QED BY <1>1, <2>2
<1>3. b \in Seq(S) /\ Len(b) = Len(q) - k /\ \A i \in 1..(Len(q) - k) : b[i] = q[k + i]
  <2>1. k + 1 \in Int /\ Len(q) \in Int /\ \A i \in (k + 1)..Len(q) : q[i] \in S
    BY <1>0, <1>1
  <2>2. /\ b \in Seq(S)
        /\ Len(b) = IF k + 1 <= Len(q) THEN Len(q) - (k + 1) + 1 ELSE 0
        /\ \A i \in 1..(Len(q) - (k + 1) + 1) : b[i] = q[k + 1 + i - 1]
    BY <2>1, SubSeqProperties
  <2>3. Len(b) = Len(q) - k
    BY ONLY <1>1, <2>2
  <2>4. ASSUME NEW i \in 1..(Len(q) - k) PROVE b[i] = q[k + i]
    <3>1. i \in 1..(Len(q) - (k + 1) + 1) /\ k + 1 + i - 1 = k + i
      BY ONLY <1>1
    <3> QED BY ONLY <2>2, <3>1
  <2> QED BY <2>2, <2>3, <2>4
<1>4. r = a \o b
  BY DEF RemoveAt
<1>5. r \in Seq(S) /\ Len(r) = Len(q) - 1 /\ \A i \in 1..(Len(q) - 1) : r[i] = IF i < k THEN q[i] ELSE q[i + 1]
  <2> HIDE DEF a, b, r
  <2>1. Len(a \o b) = Len(a) + Len(b) /\ a \o b \in Seq(S)
        /\ \A i \in 1..(Len(a) + Len(b)) : (a \o b)[i] = IF i <= Len(a) THEN a[i] ELSE b[i - Len(a)]
    BY <1>2, <1>3, ConcatProperties
  <2>2. Len(r) = Len(q) - 1 /\ r \in Seq(S)
    BY ONLY <1>1, <1>2, <1>3, <1>4, <2>1
  <2>3. ASSUME NEW i \in 1..(Len(q) - 1) PROVE r[i] = IF i < k THEN q[i] ELSE q[i + 1]
    <3>1. CASE i < k
      BY ONLY <1>1, <1>2, <1>3, <1>4, <2>1, <3>1
    <3>2. CASE ~(i < k)
      <4>1. i \in 1..(Len(a) + Len(b)) /\ ~(i <= Len(a)) /\ i - Len(a) \in 1..(Len(q) - k)
            /\ k + (i - Len(a)) = i + 1
        BY ONLY <1>1, <1>2, <1>3, <3>2
      <4>2. r[i] = b[i - Len(a)]
        BY ONLY <1>4, <2>1, <4>1
      <4>3. b[i - Len(a)] = q[i + 1]
        BY ONLY <1>3, <4>1
      <4> QED BY <3>2, <4>2, <4>3
    <3> QED BY <3>1, <3>2
  <2> QED BY <2>2, <2>3
<1>6. DOMAIN r = 1..(Len(q) - 1)
  BY <1>5, LenProperties
<1> HIDE DEF r
<1>7. IsInjective(r)
  <2> SUFFICES ASSUME NEW i \in DOMAIN r, NEW j \in DOMAIN r, r[i] = r[j] PROVE i = j
    BY DEF IsInjective
  <2> DEFINE pos(n) == IF n < k THEN n ELSE n + 1
  <2>1. pos(i) \in DOMAIN q /\ pos(j) \in DOMAIN q /\ r[i] = q[pos(i)] /\ r[j] = q[pos(j)]
    BY <1>1, <1>5, <1>6
  <2>2. pos(i) = pos(j)
    BY <2>1, Zenon DEF IsInjective
  <2> QED BY <1>1, <1>6, <2>2
<1>8. ASSUME NEW x \in S
      PROVE  (\E i \in DOMAIN r : r[i] = x) <=> x # q[k] /\ \E i \in DOMAIN q : q[i] = x
  <2>1. ASSUME NEW i \in DOMAIN r, r[i] = x PROVE x # q[k] /\ \E j \in DOMAIN q : q[j] = x
    BY <1>1, <1>5, <1>6, <2>1 DEF IsInjective
  <2>2. ASSUME NEW i \in DOMAIN q, q[i] = x, x # q[k] PROVE \E j \in DOMAIN r : r[j] = x
    <3>1. CASE i < k
      BY <1>1, <1>5, <1>6, <2>2, <3>1
    <3>2. CASE i > k
      <4>1. i - 1 \in DOMAIN r /\ r[i - 1] = q[i]
        BY <1>1, <1>5, <1>6, <3>2
      <4> QED BY <4>1, <2>2
    <3> QED BY <1>1, <2>2, <3>1, <3>2
  <2> QED BY <2>1, <2>2
<1>9. k # 1 => r # <<>> /\ Head(r) = Head(q)
  BY <1>1, <1>5, HeadTailProperties, EmptySeq
<1> QED BY <1>5, <1>7, <1>8, <1>9 DEF r

LEMMA QueueLeave ==
    ASSUME NEW S, NEW q \in Seq(S), q # <<>>, IsInjective(q)
    PROVE  LET r == Tail(q) IN
           /\ r \in Seq(S) /\ IsInjective(r)
           /\ \A x \in S : (\E i \in DOMAIN r : r[i] = x) <=> x # Head(q) /\ \E i \in DOMAIN q : q[i] = x
<1> DEFINE r == Tail(q)
<1>1. /\ Len(q) \in Nat /\ Len(q) > 0 /\ DOMAIN q = 1..Len(q)
      /\ r \in Seq(S) /\ Len(r) = Len(q) - 1 /\ DOMAIN r = 1..(Len(q) - 1)
      /\ \A i \in 1..(Len(q) - 1) : r[i] = q[i + 1]
      /\ Head(q) = q[1]
  BY HeadTailProperties, EmptySeq, LenProperties
<1> HIDE DEF r
<1>2. IsInjective(r)
  BY <1>1 DEF IsInjective
<1>3. ASSUME NEW x \in S
      PROVE  (\E i \in DOMAIN r : r[i] = x) <=> x # Head(q) /\ \E i \in DOMAIN q : q[i] = x
  <2>1. ASSUME NEW i \in DOMAIN r, r[i] = x PROVE x # Head(q) /\ \E j \in DOMAIN q : q[j] = x
    BY <1>1, <2>1 DEF IsInjective
  <2>2. ASSUME NEW i \in DOMAIN q, q[i] = x, x # Head(q) PROVE \E j \in DOMAIN r : r[j] = x
    <3>1. i - 1 \in DOMAIN r /\ r[i - 1] = q[i]
      BY <1>1, <2>2
    <3> QED BY <3>1, <2>2
  <2> QED BY <2>1, <2>2
<1> QED BY <1>1, <1>2, <1>3 DEF r

(***************************************************************************)
(* The lock as each step leaves it.                                        *)
(***************************************************************************)
LockOK == lock \in Seq(Sends) /\ IsInjective(lock) /\ QueuedInStages

LEMMA JoinKeeps ==
    ASSUME AccessInv, NEW s \in Sends, lock' = Append(lock, s),
           sends[s].stage \notin {"token", "fetching", "invalidate"}
    PROVE  /\ lock' \in Seq(Sends) /\ IsInjective(lock') /\ lock' # <<>>
           /\ \A x \in Sends : Queued(x)' <=> x = s \/ Queued(x)
           /\ \A x \in Sends : Holds(x) => Holds(x)'
<1>1. lock \in Seq(Sends) /\ IsInjective(lock) /\ \A i \in DOMAIN lock : lock[i] # s
  BY DEF AccessInv, AccessTypeOK, QueuedInStages, Queued
<1>2. PICK q : q = lock
  OBVIOUS
<1>3. q \in Seq(Sends) /\ IsInjective(q) /\ \A i \in DOMAIN q : q[i] # s
  BY <1>1, <1>2
<1>4. /\ Append(q, s) \in Seq(Sends) /\ IsInjective(Append(q, s)) /\ Append(q, s) # <<>>
      /\ \A x \in Sends : (\E i \in DOMAIN Append(q, s) : Append(q, s)[i] = x) <=> x = s \/ \E i \in DOMAIN q : q[i] = x
      /\ q # <<>> => Head(Append(q, s)) = Head(q)
  BY <1>3, QueueJoin
<1> QED BY <1>2, <1>4, Zenon DEF Queued, Holds

LEMMA LeaveKeeps ==
    ASSUME AccessInv, NEW s \in Sends, Holds(s), lock' = Tail(lock)
    PROVE  /\ lock' \in Seq(Sends) /\ IsInjective(lock')
           /\ \A x \in Sends : Queued(x)' <=> x # s /\ Queued(x)
<1>1. lock \in Seq(Sends) /\ IsInjective(lock) /\ lock # <<>> /\ Head(lock) = s
  BY DEF AccessInv, AccessTypeOK, Holds
<1>2. PICK q : q = lock
  OBVIOUS
<1>3. /\ Tail(q) \in Seq(Sends) /\ IsInjective(Tail(q))
      /\ \A x \in Sends : (\E i \in DOMAIN Tail(q) : Tail(q)[i] = x) <=> x # Head(q) /\ \E i \in DOMAIN q : q[i] = x
  BY <1>1, <1>2, QueueLeave
<1> QED BY <1>1, <1>2, <1>3, Zenon DEF Queued

LEMMA RemoveKeeps ==
    ASSUME AccessInv, NEW s \in Sends, NEW k \in DOMAIN lock, lock[k] = s, lock' = RemoveAt(lock, k)
    PROVE  /\ lock' \in Seq(Sends) /\ IsInjective(lock')
           /\ \A x \in Sends : Queued(x)' <=> x # s /\ Queued(x)
           /\ \A x \in Sends : x # s /\ Holds(x) => Holds(x)'
<1>1. lock \in Seq(Sends) /\ IsInjective(lock)
  BY DEF AccessInv, AccessTypeOK
<1>2. PICK q : q = lock
  OBVIOUS
<1>3. PICK r : r = RemoveAt(q, k)
  OBVIOUS
<1>4. /\ r \in Seq(Sends) /\ IsInjective(r)
      /\ \A x \in Sends : (\E i \in DOMAIN r : r[i] = x) <=> x # q[k] /\ \E i \in DOMAIN q : q[i] = x
      /\ k # 1 => r # <<>> /\ Head(r) = Head(q)
  BY <1>1, <1>2, <1>3, QueueRemove
<1>5. q # <<>> => Head(q) = q[1]
  BY <1>1, <1>2, HeadTailProperties
<1> QED BY <1>2, <1>3, <1>4, <1>5, Zenon DEF Queued, Holds

LEMMA LockStep == ASSUME AccessInv, [AccessNext]_accessVars PROVE LockOK' /\ FetcherHolds'
<1> USE DEF LockOK
<1>1. /\ sends \in [Sends -> Send] /\ QueuedInStages /\ FetcherHolds /\ now \in Nat
      /\ lock \in Seq(Sends) /\ IsInjective(lock)
      /\ cached \in DOMAIN issued \cup {NoToken} /\ issued \in Seq(Token)
  BY AccessAssumption DEF AccessInv, AccessTypeOK
<1>2. ASSUME NEW s \in Sends, deliver(s) PROVE LockOK' /\ FetcherHolds'
  <2>1. CASE lock' = lock
    <3>1. sends[s].stage = "idle" /\ sends'[s].stage \in {"done", "token"} /\ UNCHANGED <<cached, issued>>
          /\ \A x \in Sends : x # s => sends'[x] = sends[x]
      BY <1>1, <1>2 DEF deliver, Ends, Send
    <3>2. sends'[s].stage = "done"
      <4>1. lock # Append(lock, s)
        BY <1>1, AppendProperties, LenProperties
      <4> QED BY <1>1, <1>2, <2>1, <4>1 DEF deliver, Ends, Send
    <3> QED BY <1>1, <2>1, <3>1, <3>2 DEF QueuedInStages, FetcherHolds, Queued, Holds
  <2>2. CASE lock' = Append(lock, s) /\ sends' = [sends EXCEPT ![s].stage = "token"]
    <3>1. sends[s].stage \notin {"token", "fetching", "invalidate"}
      BY <1>2 DEF deliver
    <3>2. /\ lock' \in Seq(Sends) /\ IsInjective(lock')
          /\ \A x \in Sends : Queued(x)' <=> x = s \/ Queued(x)
          /\ \A x \in Sends : Holds(x) => Holds(x)'
      BY <2>2, <3>1, JoinKeeps
    <3>3. QueuedInStages'
      BY <1>1, <2>2, <3>2 DEF QueuedInStages, Send
    <3>4. FetcherHolds'
      BY <1>1, <1>2, <2>2, <3>2 DEF FetcherHolds, deliver, Send
    <3> QED BY <3>2, <3>3, <3>4
  <2> QED BY <1>2, <2>1, <2>2 DEF deliver
<1>3. ASSUME NEW s \in Sends, token(s) \/ fetch_fails(s) \/ invalidate(s) \/ Fetched(s)
      PROVE LockOK' /\ FetcherHolds'
  <2>1. Holds(s) /\ lock' = Tail(lock)
    BY <1>1, <1>3 DEF token, fetch_fails, invalidate, Fetched, fetched, FetcherHolds
  <2>2. sends'[s].stage \in {"sending", "done"} /\ \A x \in Sends : x # s => sends'[x] = sends[x]
    <3>1. CASE token(s)
      BY <1>1, <3>1 DEF token, Send
    <3>3. CASE Fetched(s)
      BY <1>1, <3>3 DEF Fetched, fetched, Send
    <3>2. CASE fetch_fails(s) \/ invalidate(s)
      BY <1>1, <3>2 DEF fetch_fails, invalidate, Ends, Send
    <3> QED BY <1>3, <3>1, <3>2, <3>3
  <2>3. /\ lock' \in Seq(Sends) /\ IsInjective(lock')
        /\ \A x \in Sends : Queued(x)' <=> x # s /\ Queued(x)
    BY <2>1, LeaveKeeps
  <2>4. QueuedInStages'
    BY <1>1, <2>2, <2>3 DEF QueuedInStages
  <2>5. \A x \in Sends : sends'[x].stage # "fetching"
    <3>1. ASSUME NEW x \in Sends, x # s PROVE sends[x].stage # "fetching"
      BY <1>1, <2>1, <3>1 DEF FetcherHolds, Holds
    <3> QED BY <2>2, <3>1
  <2> QED BY <2>3, <2>4, <2>5 DEF FetcherHolds
<1>4. ASSUME NEW s \in Sends, fetch(s) PROVE LockOK' /\ FetcherHolds'
  <2>1. cached = NoToken \/ issued[cached].expires <= now + Margin
    <3>1. cached # NoToken => issued[cached].expires \in Nat
      <4>1. ASSUME cached # NoToken PROVE issued[cached] \in Token
        BY <1>1, <4>1, ElementOfSeq, LenProperties
      <4> QED BY <4>1 DEF Token
    <3> QED BY <1>1, <1>4, <3>1, AccessAssumption DEF fetch, Usable
  <2> QED BY <1>1, <1>4, <2>1 DEF fetch, QueuedInStages, FetcherHolds, Queued, Holds, Send
<1>5. ASSUME NEW s \in Sends, refused(s) PROVE LockOK' /\ FetcherHolds'
  <2>1. sends[s].stage \notin {"token", "fetching", "invalidate"} /\ lock' = Append(lock, s)
    BY <1>5 DEF refused
  <2>2. /\ lock' \in Seq(Sends) /\ IsInjective(lock')
        /\ \A x \in Sends : Queued(x)' <=> x = s \/ Queued(x)
        /\ \A x \in Sends : Holds(x) => Holds(x)'
    BY <2>1, JoinKeeps
  <2>3. QueuedInStages'
    BY <1>1, <1>5, <2>2 DEF QueuedInStages, refused, Send
  <2>4. FetcherHolds'
    BY <1>1, <1>5, <2>2 DEF FetcherHolds, refused, Send
  <2> QED BY <2>2, <2>3, <2>4
<1>6. ASSUME NEW s \in Sends, answered(s) \/ unanswered(s) PROVE LockOK' /\ FetcherHolds'
  <2>1. /\ sends[s].stage = "sending" /\ sends'[s].stage = "done" /\ UNCHANGED <<cached, lock, issued>>
        /\ \A x \in Sends : x # s => sends'[x] = sends[x]
    <3>1. CASE answered(s)
      BY <1>1, <3>1 DEF answered, Send
    <3>2. CASE unanswered(s)
      BY <1>1, <3>2 DEF unanswered, Ends, Send
    <3> QED BY <1>6, <3>1, <3>2
  <2> QED BY <1>1, <2>1 DEF QueuedInStages, FetcherHolds, Queued, Holds
<1>7. ASSUME NEW s \in Sends, hang_up(s) PROVE LockOK' /\ FetcherHolds'
  <2>1. /\ lock' \in Seq(Sends) /\ IsInjective(lock')
        /\ \A x \in Sends : Queued(x)' <=> x # s /\ Queued(x)
        /\ \A x \in Sends : x # s /\ Holds(x) => Holds(x)'
    <3>1. CASE ~Queued(s) /\ UNCHANGED lock
      BY <1>1, <3>1 DEF Queued, Holds
    <3>2. ASSUME NEW k \in DOMAIN lock, lock[k] = s, lock' = RemoveAt(lock, k)
          PROVE  /\ lock' \in Seq(Sends) /\ IsInjective(lock')
                 /\ \A x \in Sends : Queued(x)' <=> x # s /\ Queued(x)
                 /\ \A x \in Sends : x # s /\ Holds(x) => Holds(x)'
      BY <3>2, RemoveKeeps
    <3> QED BY <1>7, <3>1, <3>2 DEF hang_up
  <2>2. QueuedInStages'
    BY <1>1, <1>7, <2>1 DEF QueuedInStages, hang_up, Send
  <2>3. FetcherHolds'
    BY <1>1, <1>7, <2>1 DEF FetcherHolds, hang_up, Send
  <2> QED BY <2>1, <2>2, <2>3
<1>8. CASE (\E t \in DOMAIN issued : revoke(t)) \/ unregister_device \/ tick \/ UNCHANGED accessVars
  BY <1>1, <1>8 DEF revoke, unregister_device, tick, accessVars, QueuedInStages, FetcherHolds, Queued, Holds
<1> QED BY <1>2, <1>3, <1>4, <1>5, <1>6, <1>7, <1>8 DEF AccessNext

(***************************************************************************)
(* What a response does: a token is issued that no send has used yet.      *)
(***************************************************************************)
LEMMA FetchedIssues ==
    ASSUME AccessInv, NEW s \in Sends, Fetched(s)
    PROVE  /\ issued' \in Seq(Token) /\ Len(issued') = Len(issued) + 1 /\ Len(issued) \in Nat
           /\ DOMAIN issued = 1..Len(issued) /\ DOMAIN issued' = 1..(Len(issued) + 1)
           /\ \A i \in DOMAIN issued : issued'[i] = issued[i]
           /\ cached' = Len(issued) + 1
           /\ sends' = [sends EXCEPT ![s] = [@ EXCEPT !.stage = "sending", !.token = Len(issued) + 1,
                                                      !.since = now]]
           /\ \E l \in Lifetimes :
                 /\ issued'[Len(issued) + 1].requested = sends[s].since
                 /\ issued'[Len(issued) + 1].expires = sends[s].since + l
                 /\ sends[s].since + l <= issued'[Len(issued) + 1].until
           /\ UNCHANGED <<revoked, device, now>>
<1>1. PICK when \in sends[s].since..now, l \in Lifetimes : fetched(s, when, l)
  BY DEF Fetched
<1>2. issued \in Seq(Token) /\ sends[s] \in Send /\ now \in Nat /\ sends \in [Sends -> Send]
  BY AccessAssumption DEF AccessInv, AccessTypeOK
<1>3. sends[s].since \in Nat /\ l \in Nat /\ when \in Nat /\ when >= sends[s].since
  BY <1>1, <1>2, AccessAssumption DEF Send
<1> DEFINE t == [until |-> when + l, requested |-> sends[s].since, expires |-> sends[s].since + l]
<1>4. t \in Token /\ issued' = Append(issued, t) /\ sends[s].since + l <= t.until
  BY <1>1, <1>3 DEF fetched, Token
<1>5. PICK q : q = issued
  OBVIOUS
<1>6. PICK u : u = t
  OBVIOUS
<1>7. /\ Append(q, u) \in Seq(Token) /\ Len(Append(q, u)) = Len(q) + 1 /\ Append(q, u)[Len(q) + 1] = u
      /\ \A i \in 1..Len(q) : Append(q, u)[i] = q[i]
      /\ Len(q) \in Nat /\ DOMAIN q = 1..Len(q) /\ DOMAIN Append(q, u) = 1..(Len(q) + 1)
  <2>1. q \in Seq(Token) /\ u \in Token
    BY <1>2, <1>4, <1>5, <1>6
  <2>2. /\ Append(q, u) \in Seq(Token) /\ Len(Append(q, u)) = Len(q) + 1
        /\ Append(q, u)[Len(q) + 1] = u /\ \A i \in 1..Len(q) : Append(q, u)[i] = q[i]
    BY <2>1, AppendProperties
  <2> QED BY <2>1, <2>2, LenProperties
<1>8. issued' = Append(q, u)
  BY <1>4, <1>5, <1>6
<1>9. cached' = Len(issued) + 1 /\ UNCHANGED <<revoked, device, now>>
  BY <1>1, <1>5, <1>7, <1>8 DEF fetched
<1>10. sends' = [sends EXCEPT ![s] = [@ EXCEPT !.stage = "sending", !.token = Len(issued) + 1, !.since = now]]
  <2>1. Len(issued') = Len(issued) + 1
    BY <1>5, <1>7, <1>8
  <2> QED BY <1>1, <1>2, <2>1 DEF fetched, Send
<1>11. /\ issued'[Len(issued) + 1].requested = sends[s].since
       /\ issued'[Len(issued) + 1].expires = sends[s].since + l
       /\ sends[s].since + l <= issued'[Len(issued) + 1].until
  BY <1>3, <1>4, <1>5, <1>6, <1>7, <1>8
<1> QED BY <1>5, <1>7, <1>8, <1>9, <1>10, <1>11

(***************************************************************************)
(* A step of a send changes its record and no other.                       *)
(***************************************************************************)
LEMMA SendUpdate ==
    ASSUME sends \in [Sends -> Send], NEW s \in Sends, NEW r \in Send, sends' = [sends EXCEPT ![s] = r]
    PROVE  sends' \in [Sends -> Send] /\ sends'[s] = r /\ \A x \in Sends : x # s => sends'[x] = sends[x]
OBVIOUS

LEMMA SendRecord ==
    ASSUME NEW r \in Send, NEW t \in Nat \cup {NoToken}, NEW n \in Nat, NEW b \in BOOLEAN,
           NEW st \in {"idle", "token", "fetching", "sending", "invalidate", "done", "dropped"}
    PROVE  /\ [r EXCEPT !.stage = st] \in Send
           /\ [r EXCEPT !.stage = st, !.token = t, !.since = n] \in Send
           /\ [r EXCEPT !.stage = st, !.token = t, !.since = n, !.refused = b] \in Send
           /\ [r EXCEPT !.stage = st, !.token = t, !.since = n, !.gone = b] \in Send
           /\ [r EXCEPT !.stage = st, !.since = n, !.refused = b] \in Send
<1>1. [r EXCEPT !.stage = st] \in Send
  BY DEF Send
<1>2. [r EXCEPT !.stage = st, !.token = t, !.since = n] \in Send
  BY DEF Send
<1>3. [r EXCEPT !.stage = st, !.token = t, !.since = n, !.refused = b] \in Send
  BY <1>2 DEF Send
<1>4. [r EXCEPT !.stage = st, !.token = t, !.since = n, !.gone = b] \in Send
  BY <1>2 DEF Send
<1>5. [r EXCEPT !.stage = st, !.since = n, !.refused = b] \in Send
  BY DEF Send
<1> QED BY <1>1, <1>2, <1>3, <1>4, <1>5

LEMMA AccessTypeStep == ASSUME AccessInv, [AccessNext]_accessVars PROVE AccessTypeOK' /\ CachedNewest'
<1>1. /\ sends \in [Sends -> Send] /\ now \in Nat /\ now \in 0..MaxTime
      /\ cached \in DOMAIN issued \cup {NoToken} /\ issued \in Seq(Token) /\ CachedNewest
      /\ revoked \subseteq DOMAIN issued /\ device \in {"registered", "gone"}
  BY AccessAssumption DEF AccessInv, AccessTypeOK
<1>2. lock' \in Seq(Sends) /\ IsInjective(lock')
  BY LockStep DEF LockOK
<1>3. DOMAIN issued \subseteq Nat
  BY <1>1, LenProperties
<1>4. ASSUME NEW s \in Sends, deliver(s) \/ token(s) \/ fetch(s)
      PROVE  sends' \in [Sends -> Send] /\ UNCHANGED <<cached, issued, revoked, device, now>>
  <2>1. CASE deliver(s)
    <3>1. CASE sends' = [sends EXCEPT ![s].stage = "token"]
      BY <1>1, <2>1, <3>1 DEF deliver, Send
    <3>2. CASE Ends(s)
      <4>1. sends' = [sends EXCEPT ![s] = [sends[s] EXCEPT !.stage = "done", !.token = NoToken, !.since = 0]]
        BY <1>1, <3>2 DEF Ends, Send
      <4>2. [sends[s] EXCEPT !.stage = "done", !.token = NoToken, !.since = 0] \in Send
        BY <1>1, SendRecord
      <4> QED BY <1>1, <2>1, <4>1, <4>2, SendUpdate DEF deliver
    <3> QED BY <2>1, <3>1, <3>2 DEF deliver
  <2>2. CASE token(s)
    <3>1. sends' = [sends EXCEPT ![s] = [sends[s] EXCEPT !.stage = "sending", !.token = cached, !.since = now]]
      BY <2>2 DEF token, Send
    <3>2. [sends[s] EXCEPT !.stage = "sending", !.token = cached, !.since = now] \in Send
      BY <1>1, <1>3, <2>2, SendRecord DEF token, Usable
    <3> QED BY <1>1, <2>2, <3>1, <3>2, SendUpdate DEF token
  <2>3. CASE fetch(s)
    BY <1>1, <2>3 DEF fetch, Send
  <2> QED BY <1>4, <2>1, <2>2, <2>3
<1>5. ASSUME NEW s \in Sends, fetch_fails(s) \/ refused(s) \/ unanswered(s) \/ hang_up(s)
      PROVE  sends' \in [Sends -> Send] /\ UNCHANGED <<cached, issued, revoked, device, now>>
  <2>1. CASE fetch_fails(s) \/ unanswered(s)
    <3>1. sends' = [sends EXCEPT ![s] = [sends[s] EXCEPT !.stage = "done", !.token = NoToken, !.since = 0]]
      BY <2>1 DEF fetch_fails, unanswered, Ends, Send
    <3>2. [sends[s] EXCEPT !.stage = "done", !.token = NoToken, !.since = 0] \in Send
      BY <1>1, <1>3, AccessAssumption, SendRecord
    <3> QED BY <1>1, <2>1, <3>1, <3>2, SendUpdate DEF fetch_fails, unanswered, Ends
  <2>2. CASE refused(s)
    <3>1. sends' = [sends EXCEPT ![s] = [sends[s] EXCEPT !.stage = "invalidate", !.since = 0, !.refused = TRUE]]
      BY <2>2 DEF refused, Send
    <3>2. [sends[s] EXCEPT !.stage = "invalidate", !.since = 0, !.refused = TRUE] \in Send
      BY <1>1, <1>3, AccessAssumption, SendRecord
    <3> QED BY <1>1, <2>2, <3>1, <3>2, SendUpdate DEF refused
  <2>3. CASE hang_up(s)
    <3> DEFINE t == IF sends[s].refused THEN sends[s].token ELSE NoToken
    <3>1. sends' = [sends EXCEPT ![s] = [sends[s] EXCEPT !.stage = "dropped", !.since = 0, !.token = t]]
      BY <1>1, <2>3 DEF hang_up, Send
    <3>2. [sends[s] EXCEPT !.stage = "dropped", !.since = 0, !.token = t] \in Send
      <4>1. t \in Nat \cup {NoToken}
        <5>1. sends[s] \in Send
          BY <1>1
        <5> QED BY <5>1 DEF Send
      <4> HIDE DEF t
      <4>2. /\ [sends[s] EXCEPT !.stage = "dropped", !.token = t, !.since = 0] \in Send
            /\ sends[s] \in Send
        BY <1>1, <1>3, <4>1, SendRecord
      <4> QED BY <4>2 DEF Send
    <3> QED BY <1>1, <2>3, <3>1, <3>2, SendUpdate DEF hang_up
  <2> QED BY <1>5, <2>1, <2>2, <2>3
<1>6. ASSUME NEW s \in Sends, answered(s)
      PROVE  sends' \in [Sends -> Send] /\ UNCHANGED <<cached, issued, revoked, device, now>>
  <2>1. PICK g \in BOOLEAN : sends' = [sends EXCEPT ![s].stage = "done", ![s].token = NoToken,
                                                    ![s].since = 0, ![s].gone = g]
    BY <1>6, Zenon DEF answered
  <2>2. sends' = [sends EXCEPT ![s] = [sends[s] EXCEPT !.stage = "done", !.token = NoToken, !.since = 0, !.gone = g]]
    BY <1>1, <2>1 DEF Send
  <2>3. [sends[s] EXCEPT !.stage = "done", !.token = NoToken, !.since = 0, !.gone = g] \in Send
    BY <1>1, SendRecord
  <2> QED BY <1>1, <1>6, <2>2, <2>3, SendUpdate DEF answered
<1>7. ASSUME NEW s \in Sends, invalidate(s)
      PROVE  sends' \in [Sends -> Send] /\ cached' = NoToken /\ UNCHANGED <<issued, revoked, device, now>>
  BY <1>1, <1>7 DEF invalidate, Send
<1>8. ASSUME NEW s \in Sends, Fetched(s) PROVE AccessTypeOK' /\ CachedNewest'
  <2>1. /\ issued' \in Seq(Token) /\ Len(issued') = Len(issued) + 1 /\ Len(issued) \in Nat
        /\ DOMAIN issued = 1..Len(issued) /\ DOMAIN issued' = 1..(Len(issued) + 1)
        /\ cached' = Len(issued) + 1
        /\ sends' = [sends EXCEPT ![s] = [@ EXCEPT !.stage = "sending", !.token = Len(issued) + 1,
                                                   !.since = now]]
        /\ UNCHANGED <<revoked, device, now>>
    BY <1>8, FetchedIssues
  <2>2. sends' \in [Sends -> Send]
    <3>1. [sends[s] EXCEPT !.stage = "sending", !.token = Len(issued) + 1, !.since = now] \in Send
      <4>1. Len(issued) + 1 \in Nat \cup {NoToken} /\ sends[s] \in Send
        BY <1>1, <2>1
      <4> QED BY <1>1, <4>1, SendRecord
    <3> QED BY <1>1, <2>1, <3>1, SendUpdate
  <2>3. cached' \in DOMAIN issued' /\ revoked' \subseteq DOMAIN issued'
    BY <1>1, <2>1
  <2> QED BY <1>1, <1>2, <2>1, <2>2, <2>3 DEF AccessTypeOK, CachedNewest
<1>9. CASE (\E t \in DOMAIN issued : revoke(t)) \/ unregister_device \/ tick \/ UNCHANGED accessVars
  BY <1>1, <1>2, <1>9, AccessAssumption DEF revoke, unregister_device, tick, accessVars, AccessTypeOK,
     CachedNewest
<1>10. ASSUME sends' \in [Sends -> Send], UNCHANGED <<issued, revoked, device, now>>,
              cached' \in {cached, NoToken}
       PROVE  AccessTypeOK' /\ CachedNewest'
  BY <1>1, <1>2, <1>10 DEF AccessTypeOK, CachedNewest
<1> QED BY <1>4, <1>5, <1>6, <1>7, <1>8, <1>9, <1>10 DEF AccessNext

(***************************************************************************)
(* How a step of a send changes what matters of it.                        *)
(***************************************************************************)
LEMMA SendEffects ==
    ASSUME AccessInv, NEW s \in Sends
    PROVE  /\ Ends(s) => /\ sends'[s].stage = "done" /\ sends'[s].token = NoToken
                         /\ sends'[s].refused = sends[s].refused /\ sends'[s].gone = sends[s].gone
                         /\ \A x \in Sends : x # s => sends'[x] = sends[x]
           /\ hang_up(s) => /\ sends'[s].stage = "dropped" /\ sends'[s].refused = sends[s].refused
                            /\ sends[s].refused => sends'[s].token = sends[s].token
                            /\ sends'[s].gone = sends[s].gone
                            /\ \A x \in Sends : x # s => sends'[x] = sends[x]
           /\ refused(s) => /\ sends'[s].stage = "invalidate" /\ sends'[s].refused
                            /\ sends'[s].token = sends[s].token /\ sends'[s].gone = sends[s].gone
                            /\ \A x \in Sends : x # s => sends'[x] = sends[x]
           /\ answered(s) => /\ sends'[s].stage = "done" /\ sends'[s].token = NoToken
                             /\ sends'[s].refused = sends[s].refused
                             /\ \A x \in Sends : x # s => sends'[x] = sends[x]
<1>1. sends \in [Sends -> Send]
  BY DEF AccessInv, AccessTypeOK
<1>2. Ends(s) => /\ sends'[s].stage = "done" /\ sends'[s].token = NoToken
                 /\ sends'[s].refused = sends[s].refused /\ sends'[s].gone = sends[s].gone
                 /\ \A x \in Sends : x # s => sends'[x] = sends[x]
  BY <1>1 DEF Ends, Send
<1>3. hang_up(s) => /\ sends'[s].stage = "dropped" /\ sends'[s].refused = sends[s].refused
                    /\ sends[s].refused => sends'[s].token = sends[s].token
                    /\ sends'[s].gone = sends[s].gone
                    /\ \A x \in Sends : x # s => sends'[x] = sends[x]
  BY <1>1 DEF hang_up, Send
<1>4. refused(s) => /\ sends'[s].stage = "invalidate" /\ sends'[s].refused
                    /\ sends'[s].token = sends[s].token /\ sends'[s].gone = sends[s].gone
                    /\ \A x \in Sends : x # s => sends'[x] = sends[x]
  BY <1>1 DEF refused, Send
<1>5. answered(s) => /\ sends'[s].stage = "done" /\ sends'[s].token = NoToken
                     /\ sends'[s].refused = sends[s].refused
                     /\ \A x \in Sends : x # s => sends'[x] = sends[x]
  BY <1>1 DEF answered, Send
<1> QED BY <1>2, <1>3, <1>4, <1>5

(***************************************************************************)
(* A token is handed out only if it outlasts the request it is for: a      *)
(* cached one by the margin, a fresh one because its lifetime exceeds the  *)
(* time that the two requests can take.                                    *)
(***************************************************************************)
LEMMA TimelyStep == ASSUME AccessInv, [AccessNext]_accessVars PROVE Timely'
<1>1. /\ sends \in [Sends -> Send] /\ now \in Nat /\ issued \in Seq(Token)
      /\ cached \in DOMAIN issued \cup {NoToken} /\ Timely
  BY AccessAssumption DEF AccessInv, AccessTypeOK
<1>2. ASSUME NEW i \in DOMAIN issued
      PROVE  issued[i].expires \in Nat /\ issued[i].until \in Nat /\ issued[i].expires <= issued[i].until
  <2>1. issued[i] \in Token
    BY <1>1, ElementOfSeq, LenProperties
  <2> QED BY <1>1, <2>1 DEF Token, Timely
<1>3. Timeout \in Nat /\ Margin \in Nat /\ Timeout <= Margin
  BY AccessAssumption
<1>4. ASSUME NEW s \in Sends, token(s) PROVE Timely'
  <2>1. /\ cached \in DOMAIN issued /\ issued[cached].expires > now + Margin
        /\ UNCHANGED <<issued, now>>
    BY <1>1, <1>4 DEF token, Usable
  <2>2. sends'[s].stage = "sending" /\ sends'[s].token = cached /\ sends'[s].since = now
        /\ \A x \in Sends : x # s => sends'[x] = sends[x]
    BY <1>1, <1>4 DEF token, Send
  <2>3. now + Timeout < issued[cached].until
    BY <1>1, <1>2, <1>3, <2>1
  <2> QED BY <1>1, <1>3, <2>1, <2>2, <2>3 DEF Timely
<1>5. ASSUME NEW s \in Sends, fetch(s) PROVE Timely'
  <2>1. sends'[s].stage = "fetching" /\ sends'[s].since = now /\ UNCHANGED <<issued, now>>
        /\ \A x \in Sends : x # s => sends'[x] = sends[x]
    BY <1>1, <1>5 DEF fetch, Send
  <2> QED BY <1>1, <1>3, <2>1 DEF Timely
<1>6. ASSUME NEW s \in Sends, Fetched(s) PROVE Timely'
  <2>1. /\ DOMAIN issued = 1..Len(issued) /\ DOMAIN issued' = 1..(Len(issued) + 1)
        /\ \A i \in DOMAIN issued : issued'[i] = issued[i]
        /\ sends' = [sends EXCEPT ![s] = [@ EXCEPT !.stage = "sending", !.token = Len(issued) + 1,
                                                   !.since = now]]
        /\ Len(issued) \in Nat /\ now' = now
    BY <1>6, FetchedIssues
  <2>2. PICK l \in Lifetimes :
            /\ issued'[Len(issued) + 1].expires = sends[s].since + l
            /\ sends[s].since + l <= issued'[Len(issued) + 1].until
    BY <1>6, FetchedIssues
  <2>3. issued' \in Seq(Token)
    BY <1>6, FetchedIssues
  <2>4. issued'[Len(issued) + 1] \in Token
    BY <2>1, <2>3, ElementOfSeq, LenProperties
  <2>5. sends[s].since \in Nat /\ now <= sends[s].since + Timeout /\ l \in Nat /\ l > 2 * Timeout
    BY <1>1, <1>6, AccessAssumption DEF Fetched, fetched, Timely, Send
  <2>6. now + Timeout < issued'[Len(issued) + 1].until
    <3> DEFINE until == issued'[Len(issued) + 1].until
               since == sends[s].since
    <3>1. until \in Nat /\ since + l <= until
      BY <2>2, <2>4 DEF Token
    <3>2. now \in Nat /\ since \in Nat /\ now <= since + Timeout /\ l \in Nat /\ l > 2 * Timeout
      BY <1>1, <2>5
    <3> HIDE DEF until, since
    <3>3. now + Timeout < until
      BY <1>3, <3>1, <3>2
    <3> QED BY <3>3 DEF until
  <2>7. sends'[s].stage = "sending" /\ sends'[s].token = Len(issued) + 1 /\ sends'[s].since = now
        /\ \A x \in Sends : x # s => sends'[x] = sends[x]
    BY <1>1, <2>1 DEF Send
  <2>8. \A i \in DOMAIN issued' : issued'[i].expires <= issued'[i].until
    BY <1>1, <2>1, <2>2 DEF Timely
  <2>9. ASSUME NEW x \in Sends, sends'[x].stage = "sending"
        PROVE  /\ sends'[x].token \in DOMAIN issued'
               /\ sends'[x].since + Timeout < issued'[sends'[x].token].until
    BY <1>1, <2>1, <2>6, <2>7, <2>9 DEF Timely
  <2>10. ASSUME NEW x \in Sends, sends'[x].stage \in {"fetching", "sending"}
         PROVE  sends'[x].since <= now' /\ now' <= sends'[x].since + Timeout
    BY <1>1, <1>3, <2>1, <2>7, <2>10 DEF Timely
  <2> QED BY <2>8, <2>9, <2>10 DEF Timely
<1>7. ASSUME NEW s \in Sends, deliver(s) \/ fetch_fails(s) \/ refused(s) \/ answered(s) \/ unanswered(s)
                              \/ invalidate(s) \/ hang_up(s)
      PROVE  Timely'
  <2>1. UNCHANGED <<issued, now>>
    BY <1>7 DEF deliver, fetch_fails, refused, answered, unanswered, invalidate, hang_up
  <2>2. sends'[s].stage \in {"token", "invalidate", "done", "dropped"} /\ \A x \in Sends : x # s => sends'[x] = sends[x]
    <3>1. CASE Ends(s) \/ refused(s) \/ answered(s) \/ hang_up(s)
      BY <3>1, SendEffects
    <3>2. CASE deliver(s) /\ sends' = [sends EXCEPT ![s].stage = "token"]
      BY <1>1, <3>2 DEF Send
    <3>3. CASE invalidate(s)
      BY <1>1, <3>3 DEF invalidate, Send
    <3> QED BY <1>7, <3>1, <3>2, <3>3 DEF deliver, fetch_fails, unanswered
  <2> QED BY <1>1, <2>1, <2>2 DEF Timely
<1>8. CASE (\E t \in DOMAIN issued : revoke(t)) \/ unregister_device \/ UNCHANGED accessVars
  BY <1>1, <1>8 DEF revoke, unregister_device, accessVars, Timely
<1>9. CASE tick
  BY <1>1, <1>3, <1>9 DEF tick, Timely, Send
<1> QED BY <1>4, <1>5, <1>6, <1>7, <1>8, <1>9 DEF AccessNext

(***************************************************************************)
(* A refused token leaves the cache before deliver() returns, and its      *)
(* number is not given out again.                                          *)
(***************************************************************************)
LEMMA RefusalsStep ==
    ASSUME AccessInv, [AccessNext]_accessVars PROVE RefusalsRemembered' /\ RefusedForgotten'
<1> USE DEF RefusalsRemembered, RefusedForgotten
<1>1. /\ sends \in [Sends -> Send] /\ issued \in Seq(Token) /\ RefusalsRemembered /\ RefusedForgotten /\ Timely
      /\ DOMAIN issued \subseteq Nat
  BY LenProperties DEF AccessInv, AccessTypeOK
<1>2. ASSUME NEW s \in Sends, Ends(s) \/ answered(s), UNCHANGED <<cached, issued>>,
             sends[s].stage \notin {"invalidate", "done", "dropped"}
      PROVE  RefusalsRemembered' /\ RefusedForgotten'
  <2>1. sends'[s].stage = "done" /\ ~sends'[s].refused /\ \A x \in Sends : x # s => sends'[x] = sends[x]
    BY <1>1, <1>2, SendEffects
  <2> QED BY <1>1, <1>2, <2>1
<1>3. ASSUME NEW s \in Sends, refused(s) PROVE RefusalsRemembered' /\ RefusedForgotten'
  <2>1. /\ sends'[s].stage = "invalidate" /\ sends'[s].token = sends[s].token
        /\ sends'[s].refused
        /\ \A x \in Sends : x # s => sends'[x] = sends[x]
    BY <1>3, SendEffects
  <2>2. sends[s].token \in DOMAIN issued /\ UNCHANGED <<issued, cached>>
    BY <1>1, <1>3 DEF refused, Timely
  <2> QED BY <1>1, <2>1, <2>2
<1>4. ASSUME NEW s \in Sends, invalidate(s) PROVE RefusalsRemembered' /\ RefusedForgotten'
  <2>1. /\ sends'[s].stage = "done" /\ sends'[s].token = sends[s].token
        /\ sends'[s].refused = sends[s].refused
        /\ \A x \in Sends : x # s => sends'[x] = sends[x]
        /\ cached' = NoToken /\ UNCHANGED issued
    BY <1>1, <1>4 DEF invalidate, Send
  <2>2. NoToken \notin DOMAIN issued
    BY <1>1, AccessAssumption
  <2> QED BY <1>1, <1>4, <2>1, <2>2 DEF invalidate
<1>5. ASSUME NEW s \in Sends, Fetched(s) PROVE RefusalsRemembered' /\ RefusedForgotten'
  <2>1. /\ DOMAIN issued = 1..Len(issued) /\ DOMAIN issued' = 1..(Len(issued) + 1)
        /\ sends' = [sends EXCEPT ![s] = [@ EXCEPT !.stage = "sending", !.token = Len(issued) + 1,
                                                   !.since = now]]
        /\ Len(issued) \in Nat /\ cached' = Len(issued) + 1
    BY <1>5, FetchedIssues
  <2>2. /\ sends[s].stage = "fetching" /\ sends'[s].stage = "sending"
        /\ sends'[s].refused = sends[s].refused
        /\ \A x \in Sends : x # s => sends'[x] = sends[x]
    BY <1>1, <1>5, <2>1 DEF Send, Fetched, fetched
  <2> QED BY <1>1, <2>1, <2>2
<1>6. ASSUME NEW s \in Sends, token(s) \/ fetch(s) \/ (deliver(s) /\ sends' = [sends EXCEPT ![s].stage = "token"])
      PROVE  RefusalsRemembered' /\ RefusedForgotten'
  <2>1. /\ sends[s].stage \in {"idle", "token"} /\ sends'[s].stage \in {"token", "fetching", "sending"}
        /\ sends'[s].refused = sends[s].refused
        /\ \A x \in Sends : x # s => sends'[x] = sends[x]
        /\ UNCHANGED <<cached, issued>>
    <3>1. CASE token(s)
      BY <1>1, <3>1 DEF token, Send
    <3>2. CASE fetch(s)
      BY <1>1, <3>2 DEF fetch, Send
    <3>3. CASE deliver(s) /\ sends' = [sends EXCEPT ![s].stage = "token"]
      BY <1>1, <3>3 DEF deliver, Send
    <3> QED BY <1>6, <3>1, <3>2, <3>3
  <2> QED BY <1>1, <2>1
<1>7. CASE (\E t \in DOMAIN issued : revoke(t)) \/ unregister_device \/ tick \/ UNCHANGED accessVars
  BY <1>1, <1>7 DEF revoke, unregister_device, tick, accessVars
<1>8. ASSUME NEW s \in Sends, deliver(s) \/ fetch_fails(s) \/ unanswered(s)
      PROVE  RefusalsRemembered' /\ RefusedForgotten'
  BY <1>2, <1>6, <1>8 DEF deliver, fetch_fails, unanswered
<1>9. ASSUME NEW s \in Sends, answered(s) PROVE RefusalsRemembered' /\ RefusedForgotten'
  BY <1>2, <1>9 DEF answered
<1>10. ASSUME NEW s \in Sends, hang_up(s) PROVE RefusalsRemembered' /\ RefusedForgotten'
  <2>1. UNCHANGED <<cached, issued>>
    BY <1>10 DEF hang_up
  <2> QED BY <1>1, <1>10, <2>1, SendEffects
<1> QED BY <1>3, <1>4, <1>5, <1>6, <1>7, <1>8, <1>9, <1>10 DEF AccessNext

(***************************************************************************)
(* Of what FCM answers for a device it knows, classify() takes nothing for *)
(* a token that is gone.                                                   *)
(***************************************************************************)
LEMMA RegisteredNotGone == \A a \in ForRegistered : a.status = 200 \/ classify(a) # "TokenGone"
BY DEF ForRegistered, Transient, Answer, classify

LEMMA GoneStep == ASSUME AccessInv, [AccessNext]_accessVars PROVE GoneIsGone'
<1> USE DEF GoneIsGone
<1>1. sends \in [Sends -> Send] /\ device \in {"registered", "gone"} /\ GoneIsGone
  BY DEF AccessInv, AccessTypeOK
<1>2. ASSUME NEW s \in Sends, answered(s) PROVE GoneIsGone'
  <2>1. CASE device = "gone"
    BY <1>2, <2>1 DEF answered
  <2>2. CASE device = "registered"
    <3>1. PICK a \in ForRegistered :
              sends' = [sends EXCEPT ![s].stage = "done", ![s].token = NoToken, ![s].since = 0,
                                     ![s].gone = a.status # 200 /\ classify(a) = "TokenGone"]
      BY <1>2, <2>2 DEF answered
    <3>2. PICK g : g = (a.status # 200 /\ classify(a) = "TokenGone")
      OBVIOUS
    <3>3. g = FALSE
      BY <3>2, RegisteredNotGone, Zenon
    <3>4. sends' = [sends EXCEPT ![s].stage = "done", ![s].token = NoToken, ![s].since = 0, ![s].gone = FALSE]
      BY <3>1, <3>2, <3>3, Zenon
    <3>5. \A x \in Sends : sends'[x].gone => sends[x].gone
      BY <1>1, <3>4 DEF Send
    <3> QED BY <1>1, <1>2, <2>2, <3>5 DEF answered
  <2> QED BY <1>1, <2>1, <2>2
<1>3. ASSUME NEW s \in Sends, \/ token(s) \/ fetch(s) \/ Fetched(s) \/ deliver(s) \/ fetch_fails(s)
                              \/ refused(s) \/ unanswered(s) \/ invalidate(s) \/ hang_up(s)
      PROVE  GoneIsGone'
  <2>1. sends'[s].gone = sends[s].gone /\ \A x \in Sends : x # s => sends'[x] = sends[x]
    <3>1. CASE Ends(s) \/ refused(s) \/ hang_up(s)
      BY <3>1, SendEffects
    <3>2. CASE token(s)
      BY <1>1, <3>2 DEF token, Send
    <3>3. CASE fetch(s)
      BY <1>1, <3>3 DEF fetch, Send
    <3>4. CASE invalidate(s) \/ (deliver(s) /\ sends' = [sends EXCEPT ![s].stage = "token"])
      BY <1>1, <3>4 DEF invalidate, Send
    <3>5. CASE Fetched(s)
      <4>1. sends' = [sends EXCEPT ![s] = [@ EXCEPT !.stage = "sending", !.token = Len(issued) + 1,
                                                    !.since = now]]
        BY <3>5, FetchedIssues
      <4> QED BY <1>1, <4>1 DEF Send
    <3> QED BY <1>3, <3>1, <3>2, <3>3, <3>4, <3>5 DEF deliver, fetch_fails, unanswered
  <2>2. UNCHANGED device
    BY <1>3 DEF token, fetch, Fetched, fetched, deliver, fetch_fails, refused, unanswered, invalidate, hang_up
  <2>3. \A x \in Sends : sends'[x].gone = sends[x].gone
    BY <2>1, Zenon
  <2> QED BY <1>1, <2>2, <2>3, Zenon
<1>4. CASE (\E t \in DOMAIN issued : revoke(t)) \/ unregister_device \/ tick \/ UNCHANGED accessVars
  BY <1>1, <1>4 DEF revoke, unregister_device, tick, accessVars
<1> QED BY <1>2, <1>3, <1>4 DEF AccessNext

LEMMA AccessStep == AccessInv /\ [AccessNext]_accessVars => AccessInv'
BY AccessTypeStep, TimelyStep, LockStep, RefusalsStep, GoneStep DEF AccessInv, LockOK

(***************************************************************************)
(* The cache of tokens keeps its types, its lock included: a send is in    *)
(* the queue for it once, and only while it waits for the lock or has it.  *)
(***************************************************************************)
THEOREM AccessInvariant == PartsSpec => []AccessInv
<1>1. PartsInit => AccessInv
  BY AccessInitInv DEF PartsInit
<1>2. AccessInv /\ [PartsNext]_partsVars => AccessInv'
  BY PartsSteps, AccessStep
<1> QED BY <1>1, <1>2, PTL DEF PartsSpec

(***************************************************************************)
(* However many sends there are, and whatever the margin, the timeout and  *)
(* the lifetimes within AccessAssumption: once deliver() has returned to a *)
(* send that FCM refused, invalidate() of webpush-gcp-auth has dropped the *)
(* token, and no later send is given it.  Handlers that are dropped before *)
(* that do not bring it back; as long as there are only such, it stays.    *)
(***************************************************************************)
THEOREM RefusedTokenForgotten == PartsSpec => []RefusedForgotten
<1>1. AccessInv => RefusedForgotten
  BY DEF AccessInv
<1> QED BY <1>1, AccessInvariant, PTL

-----------------------------------------------------------------------------
(* The provider tokens of APNs *)

ProviderTypeOK ==
    /\ jwt \in DOMAIN signed \cup {NoJwt}
    /\ push \in [Pushes -> Push]
    /\ signed \in Seq(Nat)
    /\ keyRevoked \in BOOLEAN
    /\ phone \in {"known", "unknown"}
    /\ instant \in 0..MaxInstant

(***************************************************************************)
(* A token was within its lifetime when it was handed out, and since then  *)
(* no more time has passed than a request can take.                        *)
(***************************************************************************)
InLifetime ==
    /\ \A p \in Pushes : push[p].stage \in {"sending", "refused"} => instant <= push[p].since + SendTimeout
    /\ \A p \in Pushes : push[p].stage = "sending" =>
           /\ push[p].token \in DOMAIN signed
           /\ push[p].since <= signed[push[p].token] + TokenLifetime

SignedNewest == jwt # NoJwt => jwt = Len(signed)

DroppedAtEnd == \A p \in Pushes : push[p].dropped => push[p].stage = "done"

ProviderInv ==
    /\ ProviderTypeOK
    /\ InLifetime
    /\ SignedNewest
    /\ DroppedAtEnd
    /\ UnknownIsGone

LEMMA ProviderInitInv == ProviderInit => ProviderInv
<1> SUFFICES ASSUME ProviderInit PROVE ProviderInv
  OBVIOUS
<1>1. push \in [Pushes -> Push] /\ \A p \in Pushes : push[p] = [stage |-> "idle", token |-> NoJwt,
          since |-> 0, dropped |-> FALSE, gone |-> FALSE]
  BY DEF ProviderInit, Push
<1>2. signed \in Seq(Nat) /\ DOMAIN signed = {} /\ jwt = NoJwt
  BY EmptySeq DEF ProviderInit
<1>3. instant \in 0..MaxInstant
  BY ProviderAssumption DEF ProviderInit
<1>4. keyRevoked \in BOOLEAN /\ phone \in {"known", "unknown"}
  BY Zenon DEF ProviderInit
<1>5. ProviderTypeOK
  BY <1>1, <1>2, <1>3, <1>4 DEF ProviderTypeOK
<1>6. InLifetime /\ SignedNewest /\ DroppedAtEnd /\ UnknownIsGone
  BY <1>1, <1>2 DEF InLifetime, SignedNewest, DroppedAtEnd, UnknownIsGone
<1> QED BY <1>5, <1>6 DEF ProviderInv

(***************************************************************************)
(* send() with a request: the token is the cached one or a new one, and    *)
(* either way within its lifetime.                                         *)
(***************************************************************************)
LEMMA SendSigns ==
    ASSUME ProviderInv,
           signed' = (IF Reusable THEN signed ELSE Append(signed, instant)),
           jwt' = (IF Reusable THEN jwt ELSE Len(signed'))
    PROVE  /\ signed' \in Seq(Nat) /\ jwt' = Len(signed') /\ jwt' \in DOMAIN signed' /\ jwt' \in Nat
           /\ DOMAIN signed \subseteq DOMAIN signed'
           /\ \A i \in DOMAIN signed : signed'[i] = signed[i] /\ signed[i] \in Nat
           /\ instant <= signed'[jwt'] + TokenLifetime
           /\ ~Reusable => /\ Len(signed) \in Nat /\ Len(signed') = Len(signed) + 1
                           /\ signed'[Len(signed) + 1] = instant
<1>1. /\ signed \in Seq(Nat) /\ instant \in Nat /\ SignedNewest /\ jwt \in DOMAIN signed \cup {NoJwt}
      /\ Len(signed) \in Nat /\ DOMAIN signed = 1..Len(signed)
  BY ProviderAssumption, LenProperties DEF ProviderInv, ProviderTypeOK
<1>2. \A i \in DOMAIN signed : signed[i] \in Nat
  BY <1>1, ElementOfSeq
<1>3. CASE Reusable
  BY <1>1, <1>2, <1>3, ProviderAssumption DEF Reusable, SignedNewest
<1>4. CASE ~Reusable
  <2>1. PICK q : q = signed
    OBVIOUS
  <2>2. PICK n : n = instant
    OBVIOUS
  <2>3. /\ Append(q, n) \in Seq(Nat) /\ Len(Append(q, n)) = Len(q) + 1
        /\ Append(q, n)[Len(q) + 1] = n /\ \A i \in 1..Len(q) : Append(q, n)[i] = q[i]
    BY <1>1, <2>1, <2>2, AppendProperties
  <2>4. DOMAIN Append(q, n) = 1..(Len(q) + 1)
    BY <2>3, LenProperties
  <2>5. signed' = Append(q, n) /\ jwt' = Len(q) + 1
    BY <1>4, <2>1, <2>2, <2>3
  <2> QED BY <1>1, <1>2, <1>4, <2>1, <2>2, <2>3, <2>4, <2>5, ProviderAssumption
<1> QED BY <1>3, <1>4

LEMMA KnownNotGone == \A r \in ForKnown : r.status = 200 \/ error_of(r) # "TokenGone"
BY DEF ForKnown, Busy, Reply, error_of

(***************************************************************************)
(* The steps that end a push, which is reported gone only by a reply.      *)
(***************************************************************************)
LEMMA PushEnds ==
    ASSUME push \in [Pushes -> Push], NEW p \in Pushes, NEW d \in BOOLEAN, NEW g \in BOOLEAN,
           push' = [push EXCEPT ![p] = [EndOf(p) EXCEPT !.dropped = d, !.gone = g]]
    PROVE  /\ push' \in [Pushes -> Push]
           /\ push'[p].stage = "done" /\ push'[p].dropped = d /\ push'[p].gone = g
           /\ \A x \in Pushes : x # p => push'[x] = push[x]
<1>1. push[p] \in Push
  OBVIOUS
<1>2. EndOf(p) \in Push /\ EndOf(p).stage = "done"
  BY ONLY <1>1 DEF Push, EndOf
<1>3. PICK r \in Push : r = EndOf(p)
  BY <1>2
<1>4. PICK e : e = [r EXCEPT !.dropped = d, !.gone = g]
  OBVIOUS
<1>5. e \in Push /\ e.stage = "done" /\ e.dropped = d /\ e.gone = g
  BY <1>2, <1>3, <1>4 DEF Push
<1>6. push' = [push EXCEPT ![p] = e]
  BY <1>3, <1>4
<1> QED BY <1>5, <1>6

LEMMA EndOfSame ==
    ASSUME push \in [Pushes -> Push], NEW p \in Pushes
    PROVE  /\ EndOf(p) = [EndOf(p) EXCEPT !.dropped = push[p].dropped, !.gone = push[p].gone]
           /\ \A d \in BOOLEAN : [EndOf(p) EXCEPT !.dropped = d] =
                                 [EndOf(p) EXCEPT !.dropped = d, !.gone = push[p].gone]
           /\ \A g \in BOOLEAN : [EndOf(p) EXCEPT !.gone = g] =
                                 [EndOf(p) EXCEPT !.dropped = push[p].dropped, !.gone = g]
           /\ push[p].dropped \in BOOLEAN /\ push[p].gone \in BOOLEAN
<1>1. push[p] \in Push
  OBVIOUS
<1>2. push[p].dropped \in BOOLEAN /\ push[p].gone \in BOOLEAN
  BY <1>1 DEF Push
<1>3. EndOf(p) = [EndOf(p) EXCEPT !.dropped = push[p].dropped, !.gone = push[p].gone]
  BY <1>1 DEF EndOf, Push
<1>4. ASSUME NEW d \in BOOLEAN
      PROVE  [EndOf(p) EXCEPT !.dropped = d] = [EndOf(p) EXCEPT !.dropped = d, !.gone = push[p].gone]
  BY <1>1 DEF EndOf, Push
<1>5. ASSUME NEW g \in BOOLEAN
      PROVE  [EndOf(p) EXCEPT !.gone = g] = [EndOf(p) EXCEPT !.dropped = push[p].dropped, !.gone = g]
  BY <1>1 DEF EndOf, Push
<1> QED BY <1>2, <1>3, <1>4, <1>5

LEMMA ProviderStep == ProviderInv /\ [ProviderNext]_providerVars => ProviderInv'
<1> SUFFICES ASSUME ProviderInv, [ProviderNext]_providerVars PROVE ProviderInv'
  OBVIOUS
<1>1. /\ push \in [Pushes -> Push] /\ signed \in Seq(Nat) /\ instant \in Nat /\ instant \in 0..MaxInstant
      /\ jwt \in DOMAIN signed \cup {NoJwt} /\ keyRevoked \in BOOLEAN /\ phone \in {"known", "unknown"}
      /\ InLifetime /\ SignedNewest /\ DroppedAtEnd /\ UnknownIsGone
  BY ProviderAssumption DEF ProviderInv, ProviderTypeOK
<1>2. ASSUME NEW p \in Pushes, NEW d \in BOOLEAN, NEW g \in BOOLEAN,
             push' = [push EXCEPT ![p] = [EndOf(p) EXCEPT !.dropped = d, !.gone = g]],
             g => push[p].gone \/ phone = "unknown",
             jwt' \in {jwt, NoJwt}, UNCHANGED <<signed, keyRevoked, phone, instant>>
      PROVE  ProviderInv'
  <2>1. /\ push' \in [Pushes -> Push]
        /\ push'[p].stage = "done" /\ push'[p].dropped = d /\ push'[p].gone = g
        /\ \A x \in Pushes : x # p => push'[x] = push[x]
    BY <1>1, <1>2, PushEnds
  <2>2. ProviderTypeOK' /\ SignedNewest'
    BY <1>1, <1>2, <2>1 DEF ProviderTypeOK, SignedNewest
  <2>3. InLifetime' /\ DroppedAtEnd'
    BY <1>1, <1>2, <2>1 DEF InLifetime, DroppedAtEnd
  <2>4. UnknownIsGone'
    BY <1>1, <1>2, <2>1, Zenon DEF UnknownIsGone
  <2> QED BY <2>2, <2>3, <2>4 DEF ProviderInv
<1>3. ASSUME NEW p \in Pushes, push' = [push EXCEPT ![p] = EndOf(p)],
             UNCHANGED <<jwt, signed, keyRevoked, phone, instant>>
      PROVE  ProviderInv'
  BY <1>1, <1>2, <1>3, EndOfSame
<1>4. ASSUME NEW p \in Pushes, send(p) PROVE ProviderInv'
  <2>1. CASE push' = [push EXCEPT ![p] = EndOf(p)] /\ UNCHANGED <<jwt, signed>>
    BY <1>3, <1>4, <2>1 DEF send
  <2>2. CASE /\ signed' = (IF Reusable THEN signed ELSE Append(signed, instant))
             /\ jwt' = (IF Reusable THEN jwt ELSE Len(signed'))
             /\ push' = [push EXCEPT ![p].stage = "sending", ![p].token = jwt', ![p].since = instant]
    <3>1. /\ signed' \in Seq(Nat) /\ jwt' = Len(signed') /\ jwt' \in DOMAIN signed' /\ jwt' \in Nat
          /\ DOMAIN signed \subseteq DOMAIN signed'
          /\ \A i \in DOMAIN signed : signed'[i] = signed[i]
          /\ instant <= signed'[jwt'] + TokenLifetime
      BY <2>2, SendSigns
    <3>2. UNCHANGED <<keyRevoked, phone, instant>> /\ push[p].stage = "idle"
      BY <1>4 DEF send
    <3>3. push' \in [Pushes -> Push]
      <4>1. PICK t \in Nat : t = jwt'
        BY <3>1
      <4>2. push' = [push EXCEPT ![p] = [push[p] EXCEPT !.stage = "sending", !.token = t, !.since = instant]]
        BY <1>1, <2>2, <4>1 DEF Push
      <4>3. [push[p] EXCEPT !.stage = "sending", !.token = t, !.since = instant] \in Push
        BY <1>1 DEF Push
      <4> QED BY <1>1, <4>2, <4>3
    <3>4. /\ push'[p].stage = "sending" /\ push'[p].token = jwt' /\ push'[p].since = instant
          /\ push'[p].dropped = push[p].dropped /\ push'[p].gone = push[p].gone
          /\ \A x \in Pushes : x # p => push'[x] = push[x]
      <4>1. PICK t : t = jwt'
        OBVIOUS
      <4>2. push' = [push EXCEPT ![p].stage = "sending", ![p].token = t, ![p].since = instant]
        BY <2>2, <4>1
      <4> QED BY <1>1, <4>1, <4>2 DEF Push
    <3>5. ProviderTypeOK' /\ SignedNewest'
      BY <1>1, <3>1, <3>2, <3>3 DEF ProviderTypeOK, SignedNewest
    <3>6. InLifetime'
      <4>1. ASSUME NEW x \in Pushes, push'[x].stage \in {"sending", "refused"}
            PROVE  instant' <= push'[x].since + SendTimeout
        BY <1>1, <3>2, <3>4, <4>1, ProviderAssumption DEF InLifetime
      <4>2. ASSUME NEW x \in Pushes, push'[x].stage = "sending"
            PROVE  push'[x].token \in DOMAIN signed' /\ push'[x].since <= signed'[push'[x].token] + TokenLifetime
        <5>1. CASE x = p
          BY <3>1, <3>4, <5>1
        <5>2. CASE x # p
          <6>1. push[x].token \in DOMAIN signed /\ push[x].since <= signed[push[x].token] + TokenLifetime
            BY <1>1, <3>4, <4>2, <5>2 DEF InLifetime
          <6> QED BY <3>1, <3>4, <5>2, <6>1
        <5> QED BY <5>1, <5>2
      <4> QED BY <4>1, <4>2 DEF InLifetime
    <3>7. DroppedAtEnd' /\ UnknownIsGone'
      BY <1>1, <3>2, <3>4 DEF DroppedAtEnd, UnknownIsGone
    <3> QED BY <3>5, <3>6, <3>7 DEF ProviderInv
  <2> QED BY <1>4, <2>1, <2>2 DEF send
<1>5. ASSUME NEW p \in Pushes, reply(p) PROVE ProviderInv'
  <2>1. PICK r \in (IF phone = "known" THEN ForKnown ELSE ForUnknown) :
            push' = [push EXCEPT ![p] = [EndOf(p) EXCEPT
                        !.gone = r.status # 200 /\ error_of(r) = "TokenGone"]]
    BY <1>5 DEF reply
  <2>2. PICK g \in BOOLEAN : g = (r.status # 200 /\ error_of(r) = "TokenGone")
    BY Zenon
  <2>3. g => phone = "unknown"
    BY <1>1, <2>1, <2>2, KnownNotGone
  <2>4. push' = [push EXCEPT ![p] = [EndOf(p) EXCEPT !.gone = g]]
    BY <2>1, <2>2, Zenon
  <2>5. push' = [push EXCEPT ![p] = [EndOf(p) EXCEPT !.dropped = push[p].dropped, !.gone = g]]
        /\ push[p].dropped \in BOOLEAN
    BY <1>1, <2>4, EndOfSame
  <2>6. UNCHANGED <<jwt, signed, keyRevoked, phone, instant>>
    BY <1>5 DEF reply
  <2> QED BY <1>2, <2>3, <2>5, <2>6
<1>6. ASSUME NEW p \in Pushes, forbidden(p) PROVE ProviderInv'
  <2>1. UNCHANGED <<jwt, signed, keyRevoked, phone, instant>> /\ push[p].stage = "sending"
    BY <1>6 DEF forbidden
  <2>2. /\ push' \in [Pushes -> Push] /\ push'[p].stage = "refused" /\ push'[p].since = push[p].since
        /\ push'[p].dropped = push[p].dropped /\ push'[p].gone = push[p].gone
        /\ \A x \in Pushes : x # p => push'[x] = push[x]
    BY <1>1, <1>6 DEF forbidden, Push
  <2>3. ProviderTypeOK' /\ SignedNewest'
    BY <1>1, <2>1, <2>2 DEF ProviderTypeOK, SignedNewest
  <2>4. InLifetime' /\ DroppedAtEnd'
    BY <1>1, <2>1, <2>2 DEF InLifetime, DroppedAtEnd
  <2>5. UnknownIsGone'
    BY <1>1, <2>1, <2>2, Zenon DEF UnknownIsGone
  <2> QED BY <2>3, <2>4, <2>5 DEF ProviderInv
<1>7. ASSUME NEW p \in Pushes, drop_jwt(p) PROVE ProviderInv'
  <2>1. push' = [push EXCEPT ![p] = [EndOf(p) EXCEPT !.dropped = TRUE, !.gone = push[p].gone]]
        /\ push[p].gone \in BOOLEAN
    BY <1>1, <1>7, EndOfSame DEF drop_jwt
  <2>2. jwt' = NoJwt /\ UNCHANGED <<signed, keyRevoked, phone, instant>>
    BY <1>7 DEF drop_jwt
  <2> QED BY <1>2, <2>1, <2>2
<1>8. ASSUME NEW p \in Pushes, send_fails(p) PROVE ProviderInv'
  BY <1>3, <1>8 DEF send_fails
<1>9. CASE change_key \/ remove_app \/ UNCHANGED providerVars
  <2>1. UNCHANGED <<jwt, push, signed, instant>> /\ keyRevoked' \in BOOLEAN /\ phone' \in {phone, "unknown"}
    BY <1>1, <1>9 DEF change_key, remove_app, providerVars
  <2> QED BY <1>1, <2>1 DEF ProviderInv, ProviderTypeOK, InLifetime, SignedNewest, DroppedAtEnd, UnknownIsGone
<1>10. CASE pass
  <2>1. /\ instant' = instant + 1 /\ instant < MaxInstant /\ UNCHANGED <<jwt, push, signed, keyRevoked, phone>>
        /\ \A p \in Pushes : push[p].stage \in {"sending", "refused"} => instant < push[p].since + SendTimeout
    BY <1>10 DEF pass
  <2>2. \A p \in Pushes : push[p].since \in Nat
    BY <1>1 DEF Push
  <2> QED BY <1>1, <2>1, <2>2, ProviderAssumption DEF ProviderInv, ProviderTypeOK, InLifetime, SignedNewest,
             DroppedAtEnd, UnknownIsGone
<1> QED BY <1>4, <1>5, <1>6, <1>7, <1>8, <1>9, <1>10 DEF ProviderNext

THEOREM ProviderInvariant == PartsSpec => []ProviderInv
<1>1. PartsInit => ProviderInv
  BY ProviderInitInv DEF PartsInit
<1>2. ProviderInv /\ [PartsNext]_partsVars => ProviderInv'
  BY PartsSteps, ProviderStep
<1> QED BY <1>1, <1>2, PTL DEF PartsSpec

-----------------------------------------------------------------------------
(* Both bridges *)

(***************************************************************************)
(* A credential that a bridge hands out lasts for as long as the request   *)
(* it is for: an access token of token() because the margin is no shorter  *)
(* than the timeout, a provider token of jwt() because its lifetime and    *)
(* the timeout are within Apple's window.                                  *)
(***************************************************************************)
THEOREM CredentialsOutlastRequests == PartsSpec => []CredentialsLast
<1>1. AccessInv => NeverLapses
  <2> SUFFICES ASSUME AccessInv, NEW s \in Sends, sends[s].stage = "sending"
               PROVE  now < issued[sends[s].token].until
    BY DEF NeverLapses
  <2>1. /\ now <= sends[s].since + Timeout /\ sends[s].token \in DOMAIN issued
        /\ sends[s].since + Timeout < issued[sends[s].token].until
    BY DEF AccessInv, Timely
  <2>2. issued[sends[s].token] \in Token
    BY <2>1, ElementOfSeq, LenProperties DEF AccessInv, AccessTypeOK
  <2>3. sends[s].since \in Nat /\ now \in Nat
    BY AccessAssumption DEF AccessInv, AccessTypeOK, Send
  <2> QED BY <2>1, <2>2, <2>3, AccessAssumption DEF Token
<1>2. ProviderInv => WithinWindow
  <2> SUFFICES ASSUME ProviderInv, NEW p \in Pushes, push[p].stage = "sending"
               PROVE  instant <= signed[push[p].token] + MaxAge
    BY DEF WithinWindow
  <2>1. /\ instant <= push[p].since + SendTimeout /\ push[p].token \in DOMAIN signed
        /\ push[p].since <= signed[push[p].token] + TokenLifetime
    BY DEF ProviderInv, InLifetime
  <2>2. signed[push[p].token] \in Nat
    BY <2>1, ElementOfSeq, LenProperties DEF ProviderInv, ProviderTypeOK
  <2>3. push[p].since \in Nat /\ instant \in Nat
    BY ProviderAssumption DEF ProviderInv, ProviderTypeOK, Push
  <2> QED BY <2>1, <2>2, <2>3, ProviderAssumption
<1> QED BY <1>1, <1>2, AccessInvariant, ProviderInvariant, PTL DEF CredentialsLast

(***************************************************************************)
(* A bridge never costs a user agent its registration while the platform   *)
(* still knows the device, whatever else it answers.                       *)
(***************************************************************************)
THEOREM DevicesDeletedWhenGone == PartsSpec => []OnlyGoneDeleted
<1>1. AccessInv => GoneIsGone
  BY DEF AccessInv
<1>2. ProviderInv => UnknownIsGone
  BY DEF ProviderInv
<1> QED BY <1>1, <1>2, AccessInvariant, ProviderInvariant, PTL DEF OnlyGoneDeleted

-----------------------------------------------------------------------------
(* Credentials: what an implementation may rely on, whatever its clock and *)
(* the lifetimes of its credentials.                                       *)

(***************************************************************************)
(* A credential that was dropped has been paid for by a refusal which no   *)
(* early credential has used up yet; EarlyRefused alone does not say so,   *)
(* and a state that satisfies it could mint one more.                      *)
(***************************************************************************)
Unspent == IF newest # Unset /\ current = Unset THEN 1 ELSE 0

CredentialInv ==
    /\ newest \in Nat \cup {Unset}
    /\ current \in {Unset, newest}
    /\ early \in Nat /\ refusals \in Nat
    /\ early + Unspent <= refusals

LEMMA MintKeeps ==
    ASSUME Times \subseteq Nat, Unset \notin Nat, CredentialInv,
           NEW when \in Times, NEW due \in Times, Mint(when, due)
    PROVE  CredentialInv'
<1>1. CASE current = Unset
  BY <1>1 DEF CredentialInv, Unspent, Mint
<1>2. CASE current # Unset
  <2>1. current = newest /\ newest \in Nat /\ newest <= when
    BY <1>2 DEF CredentialInv, Mint
  <2> QED BY <1>2, <2>1 DEF CredentialInv, Unspent, Mint
<1> QED BY <1>1, <1>2

LEMMA DropKeeps ==
    ASSUME Unset \notin Nat, CredentialInv, Drop
    PROVE  CredentialInv'
BY DEF CredentialInv, Unspent, Drop

(***************************************************************************)
(* A cache of credentials, such as TokenSource of webpush-gcp-auth or the  *)
(* provider token of webpush-apns, that implements Credential asks for at  *)
(* most one credential early for each user who was refused.                *)
(***************************************************************************)
THEOREM RefusalsPay ==
    ASSUME Times \subseteq Nat, Unset \notin Nat
    PROVE  CredentialSpec => []EarlyRefused
<1>1. CredentialInit => CredentialInv
  BY DEF CredentialInit, CredentialInv, Unspent
<1>2. CredentialInv /\ [CredentialNext]_credentialVars => CredentialInv'
  <2> SUFFICES ASSUME CredentialInv, [CredentialNext]_credentialVars PROVE CredentialInv'
    OBVIOUS
  <2>1. CASE UNCHANGED credentialVars
    BY <2>1 DEF CredentialInv, Unspent, credentialVars
  <2>2. CASE CredentialNext
    BY <2>2, MintKeeps, DropKeeps DEF CredentialNext
  <2> QED BY <2>1, <2>2
<1>3. CredentialInv => EarlyRefused
  BY DEF CredentialInv, Unspent, EarlyRefused
<1> QED BY <1>1, <1>2, <1>3, PTL DEF CredentialSpec

-----------------------------------------------------------------------------
(* The caches as credentials *)

(***************************************************************************)
(* What the cache of access tokens is as a Credential.                     *)
(***************************************************************************)
AccessCurrent == IF cached = NoToken THEN NoToken ELSE issued[cached].expires

AccessNewest == IF issued = <<>> THEN NoToken ELSE Last(issued).expires

LEMMA LongestLifetime ==
    Max(Lifetimes) \in Nat /\ \A l \in Lifetimes : l \in Nat /\ l <= Max(Lifetimes)
<1>1. PICK longest \in Lifetimes : \A l \in Lifetimes : longest >= l
  BY AccessAssumption
<1>2. Max(Lifetimes) \in Lifetimes /\ \A l \in Lifetimes : Max(Lifetimes) >= l
  BY <1>1 DEF Max
<1> QED BY <1>2, AccessAssumption

LEMMA EarlyFinite == ASSUME AccessInv PROVE IsFiniteSet(Early) /\ Early \subseteq 2..Len(issued)
<1>1. Len(issued) \in Nat
  BY LenProperties DEF AccessInv, AccessTypeOK
<1>2. Early \subseteq 2..Len(issued)
  BY DEF Early
<1>3. IsFiniteSet(2..Len(issued))
  BY <1>1, FS_Interval
<1> QED BY <1>2, <1>3, FS_Subset

(***************************************************************************)
(* A response mints a credential: for want of a cached one that would do,  *)
(* and early if the one before would have, had it not been dropped.        *)
(***************************************************************************)
LEMMA FetchedMints ==
    ASSUME AccessInv, NEW s \in Sends, Fetched(s)
    PROVE  Cache!CredentialNext
<1>1. /\ sends \in [Sends -> Send] /\ now \in 0..MaxTime /\ issued \in Seq(Token)
      /\ cached \in DOMAIN issued \cup {NoToken} /\ Timely /\ FetcherHolds /\ RefusalsRemembered
  BY AccessAssumption DEF AccessInv, AccessTypeOK
<1>2. /\ issued' \in Seq(Token) /\ Len(issued') = Len(issued) + 1 /\ Len(issued) \in Nat
      /\ DOMAIN issued = 1..Len(issued) /\ DOMAIN issued' = 1..(Len(issued) + 1)
      /\ \A i \in DOMAIN issued : issued'[i] = issued[i]
      /\ cached' = Len(issued) + 1
      /\ sends' = [sends EXCEPT ![s] = [@ EXCEPT !.stage = "sending", !.token = Len(issued) + 1,
                                                 !.since = now]]
  BY FetchedIssues
<1>3. PICK l \in Lifetimes :
          /\ issued'[Len(issued) + 1].requested = sends[s].since
          /\ issued'[Len(issued) + 1].expires = sends[s].since + l
  BY FetchedIssues
<1>4. sends[s].stage = "fetching" /\ sends[s].since \in Nat /\ sends[s].since <= now
  BY <1>1 DEF Fetched, fetched, Timely, Send
<1> DEFINE when == sends[s].since + Margin
           due == sends[s].since + l
           n == Len(issued)
<1>5. when \in 0..(MaxTime + Margin + Max(Lifetimes)) /\ due \in 0..(MaxTime + Margin + Max(Lifetimes))
  <2>1. l \in Nat /\ l <= Max(Lifetimes) /\ Max(Lifetimes) \in Nat
    BY LongestLifetime
  <2> QED BY <1>1, <1>4, <2>1, AccessAssumption
<1>6. AccessCurrent = NoToken \/ AccessCurrent <= when
  BY <1>1, <1>4 DEF FetcherHolds, AccessCurrent
<1>7. AccessCurrent' = due
  <2>1. cached' # NoToken
    BY <1>2, AccessAssumption
  <2> QED BY <1>2, <1>3, <2>1 DEF AccessCurrent
<1>8. issued' # <<>> /\ Last(issued') = issued'[n + 1]
  BY <1>2, EmptySeq DEF Last
<1>9. AccessNewest' = due
  BY <1>3, <1>8 DEF AccessNewest
<1>10. AccessNewest # NoToken <=> n # 0
  <2>1. CASE issued = <<>>
    BY <1>2, <2>1 DEF AccessNewest
  <2>2. CASE issued # <<>>
    <3>1. n \in 1..n /\ n # 0
      BY <1>1, <1>2, <2>2, EmptySeq
    <3>2. issued[n] \in Token
      BY <1>1, <3>1, ElementOfSeq
    <3> QED BY <2>2, <3>1, <3>2, AccessAssumption DEF AccessNewest, Last, Token
  <2> QED BY <2>1, <2>2
<1>11. n # 0 => AccessNewest = issued[n].expires
  BY <1>1, EmptySeq DEF AccessNewest, Last
<1>12. Cardinality(Early)' = IF AccessNewest # NoToken /\ AccessNewest > when THEN Cardinality(Early) + 1
                             ELSE Cardinality(Early)
  <2>1. ASSUME NEW i \in 2..n PROVE i \in Early' <=> i \in Early
    <3>1. i \in DOMAIN issued /\ i - 1 \in DOMAIN issued /\ i \in 2..Len(issued')
      BY <1>2
    <3> QED BY <1>2, <3>1 DEF Early
  <2>2. n # 0 => (n + 1 \in Early' <=> AccessNewest > when)
    <3> SUFFICES ASSUME n # 0 PROVE n + 1 \in Early' <=> AccessNewest > when
      OBVIOUS
    <3>1. n + 1 \in 2..Len(issued') /\ n + 1 - 1 = n /\ n \in DOMAIN issued
      BY <1>2
    <3> QED BY <1>2, <1>3, <1>11, <3>1 DEF Early
  <2>3. Early' \subseteq 2..(n + 1) /\ Early \subseteq 2..n
    BY <1>2 DEF Early
  <2>4. CASE n # 0 /\ AccessNewest > when
    <3>1. Early' = Early \cup {n + 1} /\ n + 1 \notin Early
      BY <1>2, <2>1, <2>2, <2>3, <2>4
    <3>2. IsFiniteSet(Early)
      BY EarlyFinite
    <3>3. Cardinality(Early \cup {n + 1}) = Cardinality(Early) + 1
      BY <3>1, <3>2, FS_AddElement
    <3> QED BY <1>10, <2>4, <3>1, <3>3
  <2>5. CASE ~(n # 0 /\ AccessNewest > when)
    <3>1. n + 1 \notin Early'
      BY <1>2, <2>2, <2>3, <2>5
    <3>2. Early' \subseteq 2..n
      BY <1>2, <2>3, <3>1
    <3>3. Early' = Early
      BY <2>1, <2>3, <3>2
    <3> QED BY <1>10, <2>5, <3>3
  <2> QED BY <2>4, <2>5
<1>13. Invalidations' = Invalidations
  <2>1. sends'[s].stage = "sending" /\ \A x \in Sends : x # s => sends'[x] = sends[x]
    BY <1>1, <1>2 DEF Send
  <2> QED BY <1>4, <2>1 DEF Invalidations
<1>14. Cache!Mint(when, due)
  BY <1>6, <1>7, <1>9, <1>12, <1>13 DEF Cache!Mint, AccessCurrent, AccessNewest
<1> QED BY <1>5, <1>14 DEF Cache!CredentialNext

(***************************************************************************)
(* invalidate() drops it, after one refusal.                               *)
(***************************************************************************)
LEMMA InvalidateDrops ==
    ASSUME AccessInv, NEW s \in Sends, invalidate(s)
    PROVE  Cache!CredentialNext
<1>1. sends \in [Sends -> Send] /\ RefusalsRemembered
  BY DEF AccessInv, AccessTypeOK
<1>2. /\ sends[s].stage = "invalidate" /\ sends'[s].stage = "done" /\ sends'[s].refused = sends[s].refused
      /\ \A x \in Sends : x # s => sends'[x] = sends[x]
      /\ cached' = NoToken /\ UNCHANGED issued
  BY <1>1 DEF invalidate, Send
<1>3. sends[s].refused
  BY <1>1, <1>2 DEF RefusalsRemembered
<1>4. Invalidations' = Invalidations \cup {s} /\ s \notin Invalidations
  BY <1>2, <1>3 DEF Invalidations
<1>5. IsFiniteSet(Invalidations)
  <2>1. Invalidations \subseteq Sends /\ IsFiniteSet(Sends)
    BY AccessAssumption DEF Invalidations
  <2> QED BY <2>1, FS_Subset
<1>6. Cardinality(Invalidations \cup {s}) = Cardinality(Invalidations) + 1
  BY <1>4, <1>5, FS_AddElement
<1>7. Cardinality(Invalidations') = Cardinality(Invalidations) + 1
  BY <1>4, <1>6
<1>8. UNCHANGED <<AccessNewest, Early>> /\ AccessCurrent' = NoToken
  BY <1>2 DEF AccessNewest, Early, AccessCurrent
<1>9. Cache!Drop
  BY <1>7, <1>8 DEF Cache!Drop, AccessNewest, AccessCurrent
<1> QED BY <1>9 DEF Cache!CredentialNext

(***************************************************************************)
(* Every other step leaves the credential as it is.                        *)
(***************************************************************************)
LEMMA AccessImplements ==
    ASSUME AccessInv, [AccessNext]_accessVars
    PROVE  [Cache!CredentialNext]_(Cache!credentialVars)
<1>1. sends \in [Sends -> Send] /\ RefusalsRemembered
  BY DEF AccessInv, AccessTypeOK
<1>2. ASSUME UNCHANGED <<cached, issued>>, \A x \in Sends : x \in Invalidations' <=> x \in Invalidations
      PROVE  UNCHANGED Cache!credentialVars
  <2>1. UNCHANGED <<AccessCurrent, AccessNewest, Early>>
    BY <1>2 DEF AccessCurrent, AccessNewest, Early
  <2>2. Invalidations' = Invalidations
    BY <1>2 DEF Invalidations
  <2> QED BY <2>1, <2>2 DEF Cache!credentialVars, AccessCurrent, AccessNewest
<1>3. ASSUME NEW s \in Sends, Ends(s) \/ hang_up(s) \/ answered(s) \/ refused(s), UNCHANGED <<cached, issued>>,
             sends[s].stage # "done", ~hang_up(s) => sends[s].stage \notin {"invalidate", "dropped"}
      PROVE  UNCHANGED Cache!credentialVars
  <2>1. /\ (sends'[s].stage = "done" /\ ~sends'[s].refused) \/ sends'[s].stage \in {"invalidate", "dropped"}
        /\ \A x \in Sends : x # s => sends'[x] = sends[x]
    BY <1>1, <1>3, SendEffects DEF RefusalsRemembered
  <2>2. \A x \in Sends : x \in Invalidations' <=> x \in Invalidations
    BY <1>3, <2>1 DEF Invalidations
  <2> QED BY <1>2, <1>3, <2>2
<1>4. ASSUME NEW s \in Sends, token(s) \/ fetch(s) \/ (deliver(s) /\ sends' = [sends EXCEPT ![s].stage = "token"])
      PROVE  UNCHANGED Cache!credentialVars
  <2>1. /\ sends[s].stage \in {"idle", "token"} /\ sends'[s].stage \in {"token", "fetching", "sending"}
        /\ \A x \in Sends : x # s => sends'[x] = sends[x]
        /\ UNCHANGED <<cached, issued>>
    <3>1. CASE token(s)
      BY <1>1, <3>1 DEF token, Send
    <3>2. CASE fetch(s)
      BY <1>1, <3>2 DEF fetch, Send
    <3>3. CASE deliver(s) /\ sends' = [sends EXCEPT ![s].stage = "token"]
      BY <1>1, <3>3 DEF deliver, Send
    <3> QED BY <1>4, <3>1, <3>2, <3>3
  <2>2. \A x \in Sends : x \in Invalidations' <=> x \in Invalidations
    BY <2>1 DEF Invalidations
  <2> QED BY <1>2, <2>1, <2>2
<1>5. CASE (\E t \in DOMAIN issued : revoke(t)) \/ unregister_device \/ tick \/ UNCHANGED accessVars
  <2>1. UNCHANGED <<cached, issued, sends>>
    BY <1>5 DEF revoke, unregister_device, tick, accessVars
  <2>2. \A x \in Sends : x \in Invalidations' <=> x \in Invalidations
    BY <2>1 DEF Invalidations
  <2> QED BY <1>2, <2>1, <2>2
<1>6. ASSUME NEW s \in Sends, deliver(s) \/ fetch_fails(s) \/ unanswered(s)
      PROVE  UNCHANGED Cache!credentialVars
  BY <1>3, <1>4, <1>6 DEF deliver, fetch_fails, unanswered
<1>7. ASSUME NEW s \in Sends, answered(s) \/ hang_up(s) \/ refused(s) PROVE UNCHANGED Cache!credentialVars
  BY <1>3, <1>7 DEF answered, hang_up, refused
<1> QED BY <1>4, <1>5, <1>6, <1>7, FetchedMints, InvalidateDrops DEF AccessNext

LEMMA AccessStartsUnset == AccessInit => Cache!CredentialInit
<1> SUFFICES ASSUME AccessInit PROVE Cache!CredentialInit
  OBVIOUS
<1>1. Early = {} /\ Invalidations = {}
  BY DEF AccessInit, Early, Invalidations
<1>2. Cardinality(Early) = 0 /\ Cardinality(Invalidations) = 0
  BY <1>1, FS_EmptySet
<1> QED BY <1>2 DEF AccessInit, Cache!CredentialInit

(***************************************************************************)
(* The same of the cache of provider tokens.                               *)
(***************************************************************************)
JwtCurrent == IF jwt = NoJwt THEN NoJwt ELSE signed[jwt] + TokenLifetime

JwtNewest == IF signed = <<>> THEN NoJwt ELSE Last(signed) + TokenLifetime

Dropped == {p \in Pushes : push[p].dropped}

LEMMA SendMints ==
    ASSUME ProviderInv, NEW p \in Pushes, push[p].stage = "idle", ~Reusable,
           signed' = Append(signed, instant), jwt' = Len(signed'),
           push' = [push EXCEPT ![p].stage = "sending", ![p].token = jwt', ![p].since = instant]
    PROVE  JwtCache!CredentialNext
<1>1. /\ push \in [Pushes -> Push] /\ instant \in Nat /\ instant \in 0..MaxInstant /\ signed \in Seq(Nat)
      /\ jwt \in DOMAIN signed \cup {NoJwt} /\ SignedNewest /\ DroppedAtEnd
      /\ Len(signed) \in Nat /\ DOMAIN signed = 1..Len(signed)
  BY ProviderAssumption, LenProperties DEF ProviderInv, ProviderTypeOK
<1> DEFINE n == Len(signed)
           due == instant + TokenLifetime
<1>2. /\ signed' \in Seq(Nat) /\ Len(signed') = n + 1 /\ signed'[n + 1] = instant
      /\ \A i \in DOMAIN signed : signed'[i] = signed[i] /\ signed[i] \in Nat
      /\ jwt' = n + 1
  BY SendSigns
<1>3. instant \in 0..(MaxInstant + TokenLifetime) /\ due \in 0..(MaxInstant + TokenLifetime)
  BY <1>1, ProviderAssumption
<1>4. JwtCurrent = NoJwt \/ JwtCurrent <= instant
  BY <1>1, <1>2, ProviderAssumption DEF Reusable, JwtCurrent
<1>5. JwtCurrent' = due
  BY <1>1, <1>2, ProviderAssumption DEF JwtCurrent
<1>6. JwtNewest' = due
  <2>1. signed' # <<>> /\ Last(signed') = signed'[n + 1]
    BY <1>1, <1>2, EmptySeq DEF Last
  <2> QED BY <1>2, <2>1 DEF JwtNewest
<1>7. n # 0 => n \in DOMAIN signed /\ JwtNewest = signed[n] + TokenLifetime /\ JwtNewest \in Nat
  BY <1>1, <1>2, EmptySeq, ProviderAssumption DEF JwtNewest, Last
<1>8. JwtNewest # NoJwt <=> n # 0
  BY <1>1, <1>7, EmptySeq, ProviderAssumption DEF JwtNewest
<1>9. Cardinality(EarlySigned)' = IF JwtNewest # NoJwt /\ JwtNewest > instant THEN Cardinality(EarlySigned) + 1
                                  ELSE Cardinality(EarlySigned)
  <2>1. ASSUME NEW i \in 2..n PROVE i \in EarlySigned' <=> i \in EarlySigned
    <3>1. i \in DOMAIN signed /\ i - 1 \in DOMAIN signed /\ i \in 2..Len(signed')
      BY <1>1, <1>2
    <3> QED BY <1>2, <3>1 DEF EarlySigned
  <2>2. n # 0 => (n + 1 \in EarlySigned' <=> JwtNewest > instant)
    <3> SUFFICES ASSUME n # 0 PROVE n + 1 \in EarlySigned' <=> JwtNewest > instant
      OBVIOUS
    <3>1. n + 1 \in 2..Len(signed') /\ n + 1 - 1 = n /\ n \in DOMAIN signed
      BY <1>1, <1>2
    <3> QED BY <1>2, <1>7, <3>1 DEF EarlySigned
  <2>3. EarlySigned' \subseteq 2..(n + 1) /\ EarlySigned \subseteq 2..n
    BY <1>2 DEF EarlySigned
  <2>4. CASE n # 0 /\ JwtNewest > instant
    <3>1. EarlySigned' = EarlySigned \cup {n + 1} /\ n + 1 \notin EarlySigned
      BY <1>1, <2>1, <2>2, <2>3, <2>4
    <3>2. IsFiniteSet(EarlySigned)
      <4>1. IsFiniteSet(2..n)
        <5>1. 2 \in Int /\ n \in Int
          BY <1>1
        <5> QED BY <5>1, FS_Interval
      <4> QED BY <2>3, <4>1, FS_Subset
    <3>3. Cardinality(EarlySigned \cup {n + 1}) = Cardinality(EarlySigned) + 1
      BY <3>1, <3>2, FS_AddElement
    <3> QED BY <1>8, <2>4, <3>1, <3>3
  <2>5. CASE ~(n # 0 /\ JwtNewest > instant)
    <3>1. n + 1 \notin EarlySigned'
      BY <1>1, <2>2, <2>3, <2>5
    <3>2. EarlySigned' \subseteq 2..n
      BY <1>1, <2>3, <3>1
    <3>3. EarlySigned' = EarlySigned
      BY <2>1, <2>3, <3>2
    <3> QED BY <1>8, <2>5, <3>3
  <2> QED BY <2>4, <2>5
<1>10. Dropped' = Dropped
  <2>1. push'[p].dropped = push[p].dropped /\ \A x \in Pushes : x # p => push'[x] = push[x]
    <3>1. PICK t : t = jwt'
      OBVIOUS
    <3>2. push' = [push EXCEPT ![p].stage = "sending", ![p].token = t, ![p].since = instant]
      BY <3>1
    <3> QED BY <1>1, <3>2 DEF Push
  <2>2. \A x \in Pushes : push'[x].dropped <=> push[x].dropped
    BY <2>1, Zenon
  <2> QED BY <2>2 DEF Dropped
<1>11. JwtCache!Mint(instant, due)
  BY <1>4, <1>5, <1>6, <1>9, <1>10 DEF JwtCache!Mint, JwtCurrent, JwtNewest, Dropped
<1> QED BY <1>3, <1>11 DEF JwtCache!CredentialNext

LEMMA JwtDrops ==
    ASSUME ProviderInv, NEW p \in Pushes, drop_jwt(p)
    PROVE  JwtCache!CredentialNext
<1>1. push \in [Pushes -> Push] /\ DroppedAtEnd
  BY DEF ProviderInv, ProviderTypeOK
<1>2. push' = [push EXCEPT ![p] = [EndOf(p) EXCEPT !.dropped = TRUE, !.gone = push[p].gone]]
      /\ push[p].gone \in BOOLEAN
  BY <1>1, EndOfSame DEF drop_jwt
<1>3. push'[p].dropped /\ \A x \in Pushes : x # p => push'[x] = push[x]
  BY <1>1, <1>2, PushEnds
<1>4. ~push[p].dropped
  BY <1>1 DEF drop_jwt, DroppedAtEnd
<1>5. Dropped' = Dropped \cup {p} /\ p \notin Dropped
  BY <1>3, <1>4 DEF Dropped
<1>6. IsFiniteSet(Dropped)
  <2>1. Dropped \subseteq Pushes /\ IsFiniteSet(Pushes)
    BY ProviderAssumption DEF Dropped
  <2> QED BY <2>1, FS_Subset
<1>7. Cardinality(Dropped \cup {p}) = Cardinality(Dropped) + 1
  BY <1>5, <1>6, FS_AddElement
<1>8. Cardinality(Dropped') = Cardinality(Dropped) + 1
  BY <1>5, <1>7
<1>9. UNCHANGED <<JwtNewest, EarlySigned>> /\ JwtCurrent' = NoJwt
  BY DEF drop_jwt, JwtNewest, EarlySigned, JwtCurrent
<1>10. JwtCache!Drop
  BY <1>8, <1>9 DEF JwtCache!Drop, JwtNewest, JwtCurrent, Dropped
<1> QED BY <1>10 DEF JwtCache!CredentialNext

LEMMA ProviderImplements ==
    ASSUME ProviderInv, [ProviderNext]_providerVars
    PROVE  [JwtCache!CredentialNext]_(JwtCache!credentialVars)
<1>1. push \in [Pushes -> Push] /\ phone \in {"known", "unknown"}
  BY DEF ProviderInv, ProviderTypeOK
<1>2. ASSUME UNCHANGED <<jwt, signed>>, \A x \in Pushes : push'[x].dropped <=> push[x].dropped
      PROVE  UNCHANGED JwtCache!credentialVars
  <2>1. UNCHANGED <<JwtCurrent, JwtNewest, EarlySigned>>
    BY <1>2 DEF JwtCurrent, JwtNewest, EarlySigned
  <2>2. Dropped' = Dropped
    BY <1>2 DEF Dropped
  <2> QED BY <2>1, <2>2 DEF JwtCache!credentialVars, JwtCurrent, JwtNewest, Dropped
<1>3. ASSUME NEW p \in Pushes, NEW g \in BOOLEAN,
             push' = [push EXCEPT ![p] = [EndOf(p) EXCEPT !.dropped = push[p].dropped, !.gone = g]],
             UNCHANGED <<jwt, signed>>
      PROVE  UNCHANGED JwtCache!credentialVars
  <2>1. push[p].dropped \in BOOLEAN
    BY <1>1, EndOfSame
  <2>2. push'[p].dropped = push[p].dropped /\ \A x \in Pushes : x # p => push'[x] = push[x]
    BY <1>1, <1>3, <2>1, PushEnds
  <2>3. \A x \in Pushes : push'[x].dropped <=> push[x].dropped
    BY <2>2, Zenon
  <2> QED BY <1>2, <1>3, <2>3
<1>4. ASSUME NEW p \in Pushes, push' = [push EXCEPT ![p] = EndOf(p)], UNCHANGED <<jwt, signed>>
      PROVE  UNCHANGED JwtCache!credentialVars
  BY <1>1, <1>3, <1>4, EndOfSame
<1>5. ASSUME NEW p \in Pushes, send(p) PROVE [JwtCache!CredentialNext]_(JwtCache!credentialVars)
  <2>1. CASE push' = [push EXCEPT ![p] = EndOf(p)] /\ UNCHANGED <<jwt, signed>>
    BY <1>4, <2>1
  <2>2. CASE /\ signed' = (IF Reusable THEN signed ELSE Append(signed, instant))
             /\ jwt' = (IF Reusable THEN jwt ELSE Len(signed'))
             /\ push' = [push EXCEPT ![p].stage = "sending", ![p].token = jwt', ![p].since = instant]
    <3>1. CASE Reusable
      <4>1. push' = [push EXCEPT ![p].stage = "sending", ![p].token = jwt, ![p].since = instant]
            /\ UNCHANGED <<jwt, signed>>
        BY <2>2, <3>1
      <4>2. push'[p].dropped = push[p].dropped /\ \A x \in Pushes : x # p => push'[x] = push[x]
        BY <1>1, <4>1 DEF Push
      <4>3. \A x \in Pushes : push'[x].dropped <=> push[x].dropped
        BY <4>2, Zenon
      <4> QED BY <1>2, <4>1, <4>3
    <3>2. CASE ~Reusable
      BY <1>5, <2>2, <3>2, SendMints DEF send
    <3> QED BY <3>1, <3>2
  <2> QED BY <1>5, <2>1, <2>2 DEF send
<1>6. ASSUME NEW p \in Pushes, reply(p) PROVE UNCHANGED JwtCache!credentialVars
  <2>1. PICK g \in BOOLEAN : push' = [push EXCEPT ![p] = [EndOf(p) EXCEPT !.gone = g]]
    BY <1>6, Zenon DEF reply
  <2>2. push' = [push EXCEPT ![p] = [EndOf(p) EXCEPT !.dropped = push[p].dropped, !.gone = g]]
    BY <1>1, <2>1, EndOfSame
  <2>3. UNCHANGED <<jwt, signed>>
    BY <1>6 DEF reply
  <2> QED BY <1>3, <2>2, <2>3
<1>7. ASSUME NEW p \in Pushes, forbidden(p) PROVE UNCHANGED JwtCache!credentialVars
  <2>1. /\ push'[p].dropped = push[p].dropped /\ UNCHANGED <<jwt, signed>>
        /\ \A x \in Pushes : x # p => push'[x] = push[x]
    BY <1>1, <1>7 DEF forbidden, Push
  <2>2. \A x \in Pushes : push'[x].dropped <=> push[x].dropped
    BY <2>1, Zenon
  <2> QED BY <1>2, <2>1, <2>2
<1>8. ASSUME NEW p \in Pushes, send_fails(p) PROVE UNCHANGED JwtCache!credentialVars
  BY <1>4, <1>8 DEF send_fails
<1>9. CASE change_key \/ remove_app \/ pass \/ UNCHANGED providerVars
  <2>1. UNCHANGED <<jwt, signed, push>>
    BY <1>9 DEF change_key, remove_app, pass, providerVars
  <2> QED BY <1>2, <2>1
<1> QED BY <1>5, <1>6, <1>7, <1>8, <1>9, JwtDrops DEF ProviderNext

LEMMA ProviderStartsUnset == ProviderInit => JwtCache!CredentialInit
<1> SUFFICES ASSUME ProviderInit PROVE JwtCache!CredentialInit
  OBVIOUS
<1>1. EarlySigned = {} /\ Dropped = {}
  BY DEF ProviderInit, EarlySigned, Dropped
<1>2. Cardinality(EarlySigned) = 0 /\ Cardinality(Dropped) = 0
  BY <1>1, FS_EmptySet
<1> QED BY <1>2 DEF ProviderInit, JwtCache!CredentialInit, Dropped

(***************************************************************************)
(* Both caches implement Credential, for any number of concurrent sends    *)
(* and pushes, dropped handlers and failed requests: a credential is       *)
(* replaced when it is due, or after a refusal that dropped it.            *)
(***************************************************************************)
THEOREM CachesAreCredentials == PartsSpec => CredentialsShared
<1>1. PartsInit => Cache!CredentialInit /\ JwtCache!CredentialInit
  BY AccessStartsUnset, ProviderStartsUnset DEF PartsInit
<1>2. AccessInv /\ ProviderInv /\ [PartsNext]_partsVars =>
          [Cache!CredentialNext]_(Cache!credentialVars) /\ [JwtCache!CredentialNext]_(JwtCache!credentialVars)
  BY PartsSteps, AccessImplements, ProviderImplements
<1> QED BY <1>1, <1>2, AccessInvariant, ProviderInvariant, PTL
        DEF PartsSpec, CredentialsShared, SharesRefresh, ReusesJwt, Cache!CredentialSpec, JwtCache!CredentialSpec

-----------------------------------------------------------------------------
(* Push requests *)

(***************************************************************************)
(* What the handler has established when it is about to make each of its   *)
(* calls: every step relies on all the checks before it.                   *)
(***************************************************************************)
Validated == {"link", "authorize", "agent", "rsub", "insert", "bridge"}

Authorized == {"agent", "rsub", "insert", "bridge"}

PushInv ==
    /\ step \in {"receive", "resolve", "done"} \cup Validated
    /\ step # "receive" => req \in Requests
    /\ step # "done" => reached = "nowhere" /\ ~deleted /\ status = 0
    /\ step \notin {"insert", "done"} => rsub \in {"none", "linked"}
    /\ step = "resolve" \/ step \in Validated => ~(req.size > MaxPayload) /\ req.is_id
    /\ step \in {"receive", "resolve"} => rsub = "none"
    /\ step \in Validated =>
           /\ req.subscribed /\ HeadersValid(req)
           /\ ttl = Smaller(single(req.ttl), Smaller(TtlCeiling, MaxTtl))
    /\ step = "link" => NamesRsub(req) /\ rsub = "none"
    /\ step \in {"authorize"} \cup Authorized =>
           /\ ~(NamesRsub(req) /\ req.link = "unknown")
           /\ rsub = "linked" => req.respond_async
    /\ step \in Authorized => check_vapid(req) = 0 /\ ~SameKey(req)
    /\ step \in {"rsub", "insert"} => req.agent = "session"
    /\ step = "rsub" => req.respond_async
    /\ step = "insert" => rsub \in {"none", "linked", "created"} /\ (rsub # "none" <=> req.respond_async)
    /\ step = "bridge" => req.agent = "bridged"
    /\ RestrictionHolds
    /\ PushDecided

LEMMA PushInitInv == PushInit => PushInv
BY DEF PushInit, PushInv, Validated, Authorized, RestrictionHolds, PushDecided, AnsweredInOrder,
   RefusedLeavesNothing, TtlKept

(***************************************************************************)
(* check_vapid() refuses what the table of endpoint.rs says it refuses,    *)
(* with the statuses it says.                                              *)
(***************************************************************************)
Unproven(r) == r.restricted # NoKey /\ r.auth.scheme \in {"absent", "other"}

Untrusted(r) ==
    \/ r.auth.scheme = "unreadable"
    \/ r.auth.scheme = "vapid" /\ ~(ParamsValid(r.auth) /\ verify(r.auth))
    \/ r.auth.scheme = "vapid" /\ r.restricted \notin {NoKey, r.auth.key}

LEMMA VapidTable ==
    ASSUME NEW r \in Requests
    PROVE  \/ check_vapid(r) = 401 /\ Unproven(r) /\ ~Untrusted(r)
           \/ check_vapid(r) = 403 /\ Untrusted(r) /\ ~Unproven(r)
           \/ check_vapid(r) = 0 /\ ~Unproven(r) /\ ~Untrusted(r)
<1> USE DEF check_vapid, Unproven, Untrusted
<1>1. CASE r.auth.scheme = "vapid"
  <2>1. Credentials(r) = "some" /\ Credentials(r) # Junk
    BY <1>1, PushAssumption DEF Credentials
  <2> QED BY <1>1, <2>1
<1>2. CASE r.auth.scheme = "unreadable"
  <2>1. Credentials(r) = Junk /\ Credentials(r) # "none"
    BY <1>2, PushAssumption DEF Credentials
  <2> QED BY <1>2, <2>1
<1>3. CASE r.auth.scheme \in {"absent", "other"}
  <2>1. Credentials(r) = "none" /\ Credentials(r) # Junk
    BY <1>3, PushAssumption DEF Credentials
  <2> QED BY <1>3, <2>1
<1> QED BY <1>1, <1>2, <1>3, PushAssumption

LEMMA AuthorizedHolds ==
    ASSUME NEW r \in Requests, check_vapid(r) = 0
    PROVE  /\ r.restricted # NoKey => r.auth.scheme = "vapid" /\ r.auth.signed_by = r.restricted
           /\ r.auth.scheme = "vapid" => r.auth.aud /\ r.auth.exp \in Now..(Now + MaxExpAhead)
<1>1. ~Unproven(r) /\ ~Untrusted(r)
  BY VapidTable
<1>2. ASSUME r.auth.scheme = "vapid"
      PROVE  /\ r.auth.signed_by = r.auth.key /\ r.auth.aud /\ r.restricted \in {NoKey, r.auth.key}
             /\ r.auth.exp \in Nat /\ Now <= r.auth.exp /\ r.auth.exp - Now <= MaxExpAhead
  BY <1>1, <1>2, PushAssumption DEF Untrusted, verify
<1>3. r.auth.scheme = "vapid" => r.auth.exp \in Now..(Now + MaxExpAhead)
  BY <1>2, PushAssumption
<1>4. r.restricted # NoKey => r.auth.scheme = "vapid"
  BY <1>1, PushAssumption DEF Unproven, Untrusted
<1> QED BY <1>2, <1>3, <1>4

(***************************************************************************)
(* The TTL of a valid request is a number, and parse_ttl() with the limits *)
(* is the smallest of the three.                                           *)
(***************************************************************************)
LEMMA TtlNumber == ASSUME NEW r \in Requests, TtlValid(r) PROVE single(r.ttl) \in Nat
<1>1. r.ttl \in Seq(Nat \cup {Junk}) /\ r.ttl # <<>>
  BY PushAssumption DEF TtlValid
<1>2. Len(r.ttl) \in Nat /\ Len(r.ttl) # 0
  BY <1>1, EmptySeq, LenProperties
<1>3. r.ttl[1] \in Nat \cup {Junk}
  BY <1>1, <1>2, ElementOfSeq
<1> QED BY <1>3 DEF TtlValid, single

LEMMA TtlClamped ==
    ASSUME NEW n \in Nat
    PROVE  Smaller(parse_ttl(n), MaxTtl) = Smaller(n, Smaller(TtlCeiling, MaxTtl))
<1>1. MaxTtl \in Nat /\ TtlCeiling \in Nat /\ U64Limit \in Nat /\ TtlCeiling <= U64Limit
  BY PushAssumption
<1> QED BY <1>1 DEF Smaller, parse_ttl

(***************************************************************************)
(* An answer before the message went anywhere keeps the invariant if it is *)
(* the documented one.                                                     *)
(***************************************************************************)
LEMMA AnswerKeeps ==
    ASSUME NEW c, status' = c, step' = "done", req' \in Requests, reached' = "nowhere",
           c \in {400, 401, 403, 404, 410, 413, 429, 502} => rsub' # "created" /\ (deleted' => c = 410),
           c \in (IF req'.size > MaxPayload THEN {413} ELSE Documented' \cup {500})
    PROVE  PushInv'
<1>1. RestrictionHolds' /\ TtlKept'
  BY DEF RestrictionHolds, TtlKept
<1>2. AnsweredInOrder'
  BY DEF AnsweredInOrder
<1>3. RefusedLeavesNothing'
  BY DEF RefusedLeavesNothing
<1> QED BY <1>1, <1>2, <1>3 DEF PushInv, PushDecided, Validated, Authorized

LEMMA PushStep == PushInv /\ [PushNext]_pushVars => PushInv'
<1> SUFFICES ASSUME PushInv, [PushNext]_pushVars PROVE PushInv'
  OBVIOUS
<1> USE DEF Validated, Authorized
<1>1. ASSUME NEW r \in Requests, step = "receive", receive(r) PROVE PushInv'
  <2>1. req' = r /\ UNCHANGED <<rsub, ttl, reached, deleted>>
        /\ reached = "nowhere" /\ ~deleted /\ status = 0 /\ rsub \in {"none", "linked"}
    BY <1>1 DEF receive, PushInv
  <2>2. CASE r.size > MaxPayload
    <3>1. status' = 413 /\ step' = "done"
      BY <1>1, <2>2 DEF receive, answers
    <3> QED BY <1>1, <2>1, <2>2, <3>1, AnswerKeeps
  <2>3. CASE ~(r.size > MaxPayload) /\ ~r.is_id
    <3>1. status' = 404 /\ step' = "done"
      BY <1>1, <2>3 DEF receive, answers
    <3>2. Documented' = {404}
      BY <2>1, <2>3 DEF Documented
    <3> QED BY <1>1, <2>1, <2>3, <3>1, <3>2, AnswerKeeps
  <2>4. CASE ~(r.size > MaxPayload) /\ r.is_id
    <3>1. status' = 0 /\ step' = "resolve"
      BY <1>1, <2>1, <2>4 DEF receive, proceeds
    <3>2. rsub = "none"
      BY <1>1 DEF PushInv
    <3> QED BY <1>1, <2>1, <2>4, <3>1, <3>2 DEF PushInv, RestrictionHolds, PushDecided, AnsweredInOrder,
               RefusedLeavesNothing, TtlKept
  <2> QED BY <2>2, <2>3, <2>4
<1>2. ASSUME step \in {"resolve", "link", "authorize", "agent", "rsub", "insert", "bridge"}
      PROVE  /\ req \in Requests /\ reached = "nowhere" /\ ~deleted /\ status = 0
             /\ ~(req.size > MaxPayload) /\ req.is_id
  BY <1>2 DEF PushInv
<1>3. CASE resolve
  <2>1. /\ step = "resolve" /\ UNCHANGED <<req, rsub, reached, deleted>> /\ rsub = "none"
        /\ req \in Requests /\ reached = "nowhere" /\ ~deleted /\ status = 0
        /\ ~(req.size > MaxPayload) /\ req.is_id
    BY <1>2, <1>3 DEF resolve, PushInv
  <2>2. CASE ~req.subscribed
    <3>1. status' = 404 /\ step' = "done"
      BY <1>3, <2>2 DEF resolve, answers
    <3>2. Documented' = {404}
      BY <2>1, <2>2 DEF Documented
    <3> QED BY <2>1, <3>1, <3>2, AnswerKeeps
  <2>3. CASE req.subscribed /\ ~HeadersValid(req)
    <3>1. status' = 400 /\ step' = "done"
      BY <1>3, <2>3 DEF resolve, answers
    <3>2. Documented = {400} /\ req' = req
      BY <2>1, <2>3 DEF Documented
    <3>3. Documented' = Documented
      BY <3>2 DEF Documented
    <3> QED BY <2>1, <3>1, <3>2, <3>3, AnswerKeeps
  <2>4. CASE req.subscribed /\ HeadersValid(req)
    <3>1. /\ step' = IF NamesRsub(req) THEN "link" ELSE "authorize"
          /\ status' = 0 /\ ttl' = Smaller(parse_ttl(single(req.ttl)), MaxTtl)
      BY <1>3, <2>1, <2>4 DEF resolve, proceeds
    <3>2. ttl' = Smaller(single(req.ttl), Smaller(TtlCeiling, MaxTtl))
      <4>1. single(req.ttl) \in Nat
        BY <2>1, <2>4, TtlNumber DEF HeadersValid
      <4> QED BY <3>1, <4>1, TtlClamped
    <3>3. RestrictionHolds' /\ PushDecided'
      BY <2>1, <3>1 DEF RestrictionHolds, PushDecided, AnsweredInOrder, RefusedLeavesNothing, TtlKept
    <3> QED BY <2>1, <2>4, <3>1, <3>2, <3>3 DEF PushInv
  <2> QED BY <2>2, <2>3, <2>4
<1>4. CASE check_link
  <2>1. /\ step = "link" /\ UNCHANGED <<req, ttl, reached, deleted>> /\ rsub = "none" /\ NamesRsub(req)
        /\ req \in Requests /\ reached = "nowhere" /\ ~deleted /\ status = 0
        /\ ~(req.size > MaxPayload) /\ req.is_id /\ req.subscribed /\ HeadersValid(req)
        /\ ttl = Smaller(single(req.ttl), Smaller(TtlCeiling, MaxTtl))
    BY <1>2, <1>4 DEF check_link, PushInv
  <2>2. CASE req.link = "unknown"
    <3>1. status' = 400 /\ step' = "done" /\ rsub' = rsub
      BY <1>4, <2>2 DEF check_link, answers
    <3>2. Documented' = {400}
      BY <2>1, <2>2 DEF Documented
    <3> QED BY <2>1, <3>1, <3>2, AnswerKeeps
  <2>3. CASE req.link # "unknown"
    <3>1. status' = 0 /\ step' = "authorize" /\ rsub' = "linked"
      BY <1>4, <2>1, <2>3 DEF check_link, proceeds
    <3>2. RestrictionHolds' /\ PushDecided'
      BY <2>1, <3>1 DEF RestrictionHolds, PushDecided, AnsweredInOrder, RefusedLeavesNothing, TtlKept
    <3>3. req.respond_async
      BY <2>1 DEF NamesRsub
    <3> QED BY <2>1, <2>3, <3>1, <3>2, <3>3 DEF PushInv
  <2> QED BY <2>2, <2>3
<1>5. CASE authorize
  <2>1. /\ step = "authorize" /\ UNCHANGED <<req, rsub, ttl, reached, deleted>> /\ rsub \in {"none", "linked"}
        /\ req \in Requests /\ reached = "nowhere" /\ ~deleted /\ status = 0
        /\ ~(req.size > MaxPayload) /\ req.is_id /\ req.subscribed /\ HeadersValid(req)
        /\ ~(NamesRsub(req) /\ req.link = "unknown")
        /\ rsub = "linked" => req.respond_async
        /\ ttl = Smaller(single(req.ttl), Smaller(TtlCeiling, MaxTtl))
    BY <1>2, <1>5 DEF authorize, PushInv
  <2>2. \/ check_vapid(req) = 401 /\ Unproven(req) /\ ~Untrusted(req)
        \/ check_vapid(req) = 403 /\ Untrusted(req) /\ ~Unproven(req)
        \/ check_vapid(req) = 0 /\ ~Unproven(req) /\ ~Untrusted(req)
    BY <2>1, VapidTable
  <2>3. CASE check_vapid(req) # 0
    <3>1. status' = check_vapid(req) /\ step' = "done"
      BY <1>5, <2>3 DEF authorize, answers
    <3>2. Documented' = {check_vapid(req)}
      BY <2>1, <2>2, <2>3 DEF Documented, Unproven, Untrusted
    <3> QED BY <2>1, <2>2, <2>3, <3>1, <3>2, AnswerKeeps
  <2>4. CASE check_vapid(req) = 0 /\ SameKey(req)
    <3>1. status' = 400 /\ step' = "done"
      BY <1>5, <2>4 DEF authorize, answers
    <3>2. Documented' = {400}
      BY <2>1, <2>2, <2>4 DEF Documented, Unproven, Untrusted
    <3> QED BY <2>1, <3>1, <3>2, AnswerKeeps
  <2>5. CASE check_vapid(req) = 0 /\ ~SameKey(req)
    <3>1. status' = 0 /\ step' = "agent"
      BY <1>5, <2>1, <2>5 DEF authorize, proceeds
    <3>2. RestrictionHolds' /\ PushDecided'
      BY <2>1, <3>1 DEF RestrictionHolds, PushDecided, AnsweredInOrder, RefusedLeavesNothing, TtlKept
    <3> QED BY <2>1, <2>5, <3>1, <3>2 DEF PushInv
  <2> QED BY <2>3, <2>4, <2>5
\* From here on the request is authorized, and only its user agent is left to tell.
<1>6. ASSUME step \in Authorized
      PROVE  /\ Documented = IF req.agent = "missing" THEN {404}
                             ELSE IF req.agent = "bridged" THEN {201, 410, 413, 429, 502}
                             ELSE IF req.respond_async THEN {202} ELSE {201}
             /\ req.subscribed /\ HeadersValid(req) /\ ~(NamesRsub(req) /\ req.link = "unknown")
             /\ rsub = "linked" => req.respond_async
             /\ check_vapid(req) = 0 /\ ~SameKey(req)
             /\ ttl = Smaller(single(req.ttl), Smaller(TtlCeiling, MaxTtl))
             /\ req.restricted # NoKey => req.auth.scheme = "vapid" /\ req.auth.signed_by = req.restricted
             /\ req.auth.scheme = "vapid" => req.auth.aud /\ req.auth.exp \in Now..(Now + MaxExpAhead)
  <2>1. /\ req \in Requests /\ check_vapid(req) = 0 /\ ~SameKey(req) /\ req.is_id
        /\ req.subscribed /\ HeadersValid(req) /\ ~(NamesRsub(req) /\ req.link = "unknown")
        /\ rsub = "linked" => req.respond_async
        /\ ttl = Smaller(single(req.ttl), Smaller(TtlCeiling, MaxTtl))
    BY <1>6 DEF PushInv
  <2>2. ~Unproven(req) /\ ~Untrusted(req)
    BY <2>1, VapidTable
  <2>3. /\ req.restricted # NoKey => req.auth.scheme = "vapid" /\ req.auth.signed_by = req.restricted
        /\ req.auth.scheme = "vapid" => req.auth.aud /\ req.auth.exp \in Now..(Now + MaxExpAhead)
    BY <2>1, AuthorizedHolds
  <2> QED BY <2>1, <2>2, <2>3 DEF Documented, Unproven, Untrusted
<1>7. CASE find_agent
  <2>1. /\ step = "agent" /\ UNCHANGED <<req, rsub, ttl, reached, deleted>> /\ rsub \in {"none", "linked"}
        /\ req \in Requests /\ reached = "nowhere" /\ ~deleted /\ status = 0
        /\ ~(req.size > MaxPayload) /\ req.is_id /\ req.agent \in {"session", "bridged", "missing"}
    BY <1>2, <1>7, PushAssumption DEF find_agent, PushInv
  <2>2. CASE req.agent = "missing"
    <3>1. status' = 404 /\ step' = "done"
      BY <1>7, <2>2 DEF find_agent, answers
    <3>2. Documented' = Documented
      BY <2>1 DEF Documented
    <3> QED BY <1>6, <2>1, <2>2, <3>1, <3>2, AnswerKeeps
  <2>3. CASE req.agent # "missing"
    <3>1. status' = 0
      BY <1>7, <2>1, <2>3 DEF find_agent, proceeds
    <3>2. step' = IF req.agent = "bridged" THEN "bridge"
                  ELSE IF req.respond_async /\ rsub = "none" THEN "rsub" ELSE "insert"
      BY <1>7, <2>1, <2>3 DEF find_agent, proceeds
    <3>3. RestrictionHolds' /\ PushDecided'
      BY <2>1, <3>1, <3>2 DEF RestrictionHolds, PushDecided, AnsweredInOrder, RefusedLeavesNothing, TtlKept
    <3> QED BY <1>6, <2>1, <2>3, <3>1, <3>2, <3>3 DEF PushInv
  <2> QED BY <2>2, <2>3
<1>8. CASE create_rsub
  <2>1. /\ step = "rsub" /\ step' = "insert" /\ rsub' = "created"
        /\ UNCHANGED <<status, req, ttl, reached, deleted>>
        /\ req.agent = "session" /\ req.respond_async
    BY <1>8 DEF create_rsub, proceeds, PushInv
  <2>2. RestrictionHolds' /\ PushDecided'
    BY <1>2, <2>1 DEF RestrictionHolds, PushDecided, AnsweredInOrder, RefusedLeavesNothing, TtlKept
  <2> QED BY <1>2, <1>6, <2>1, <2>2 DEF PushInv
<1>9. ASSUME NEW c, step \in Authorized, status' = c, step' = "done", c \in {201, 202}, c \in Documented,
             UNCHANGED <<req, rsub, ttl, deleted>>
      PROVE  PushInv'
  <2>1. AnsweredInOrder'
    <3>1. Documented' = Documented
      BY <1>9 DEF Documented
    <3> QED BY <1>2, <1>9, <3>1 DEF AnsweredInOrder
  <2>2. TtlKept' /\ RefusedLeavesNothing'
    BY <1>6, <1>9 DEF TtlKept, RefusedLeavesNothing
  <2>3. RestrictionHolds'
    BY <1>6, <1>9 DEF RestrictionHolds
  <2> QED BY <1>2, <1>9, <2>1, <2>2, <2>3 DEF PushInv, PushDecided
<1>10. CASE insert
  <2>1. /\ step = "insert" /\ step' = "done" /\ status' = IF rsub = "none" THEN 201 ELSE 202
        /\ UNCHANGED <<req, rsub, ttl, deleted>>
        /\ req.agent = "session" /\ (rsub # "none" <=> req.respond_async)
    BY <1>10 DEF insert, answers, PushInv
  <2> QED BY <1>6, <1>9, <2>1
<1>11. CASE bridge
  <2>1. /\ step = "bridge" /\ step' = "done" /\ UNCHANGED <<req, rsub, ttl>> /\ req.agent = "bridged"
        /\ rsub \in {"none", "linked"}
    BY <1>11 DEF bridge, answers, bridge_error, PushInv
  <2>2. Documented = {201, 410, 413, 429, 502} /\ Documented' = Documented
    BY <1>6, <2>1 DEF Documented
  <2>3. CASE status' = 201 /\ reached' = "platform" /\ UNCHANGED deleted
    BY <1>9, <2>1, <2>2, <2>3
  <2>4. CASE status' = 502 /\ UNCHANGED <<reached, deleted>>
    BY <1>2, <2>1, <2>2, <2>4, AnswerKeeps
  <2>5. ASSUME NEW e \in BridgeErrors, bridge_error(e), UNCHANGED reached PROVE PushInv'
    <3>1. status' \in {410, 413, 429, 502} /\ (deleted' => status' = 410)
      <4>1. CASE e = "TokenGone"
        BY <2>5, <4>1 DEF bridge_error, answers
      <4>2. CASE e # "TokenGone"
        <5>1. status' \in {413, 429, 502}
          BY <2>5, <4>2 DEF bridge_error, answers
        <5>2. deleted' = FALSE
          BY <2>5, <4>2 DEF bridge_error
        <5> QED BY <5>1, <5>2
      <4> QED BY <4>1, <4>2
    <3>2. PICK c : c = status'
      OBVIOUS
    <3> QED BY <1>2, <2>1, <2>2, <2>5, <3>1, <3>2, AnswerKeeps
  <2> QED BY <1>11, <2>3, <2>4, <2>5 DEF bridge, answers
<1>12. CASE store_fails
  <2>1. /\ step \in {"resolve", "link", "agent", "rsub", "insert"} /\ status' = 500 /\ step' = "done"
        /\ UNCHANGED <<req, rsub, ttl, reached, deleted>>
    BY <1>12 DEF store_fails, answers
  <2> QED BY <1>2, <2>1, AnswerKeeps
<1>13. CASE UNCHANGED pushVars
  <2>1. Documented' = Documented
    BY <1>13 DEF pushVars, Documented
  <2> QED BY <1>13, <2>1 DEF pushVars, PushInv, RestrictionHolds, PushDecided, AnsweredInOrder,
             RefusedLeavesNothing, TtlKept
<1> QED BY <1>1, <1>3, <1>4, <1>5, <1>7, <1>8, <1>10, <1>11, <1>12, <1>13 DEF PushNext

LEMMA PushInvariant == PartsSpec => []PushInv
<1>1. PartsInit => PushInv
  BY PushInitInv DEF PartsInit
<1>2. PushInv /\ [PartsNext]_partsVars => PushInv'
  BY PartsSteps, PushStep
<1> QED BY <1>1, <1>2, PTL DEF PartsSpec

(***************************************************************************)
(* push() for every request: nothing reaches the store or a platform on a  *)
(* restricted subscription without a current token, for this origin and    *)
(* signed with the restricting key.                                        *)
(***************************************************************************)
THEOREM RestrictionEnforced == PartsSpec => []RestrictionHolds
<1>1. PushInv => RestrictionHolds
  BY DEF PushInv
<1> QED BY <1>1, PushInvariant, PTL

(***************************************************************************)
(* push() for every request: its answer is the first line of the table at  *)
(* the top of endpoint.rs that applies, a refusal leaves no message and no *)
(* receipt subscription, and an accepted message keeps its TTL up to the   *)
(* limits, whatever number it was.                                         *)
(***************************************************************************)
THEOREM PushesDecided == PartsSpec => []PushDecided
<1>1. PushInv => PushDecided
  BY DEF PushInv
<1> QED BY <1>1, PushInvariant, PTL

-----------------------------------------------------------------------------
(* The clocks of a session: how long expire_after has to be for active     *)
(* sessions to be safe from the expiry loop, and how long a silent client  *)
(* keeps its session.                                                      *)

\* What relates the clocks in each stage.  While serving, the next tick is at
\* most one Ping after a moment at which the client had been heard within
\* Ping + PongTimeout, and at which last_seen was recent enough not to need a
\* refresh; `touched` runs ahead of last_seen by no more than MaxSetup.
ClocksInv ==
    /\ ActivityTypeOK
    /\ last_seen <= clock
    /\ heard <= clock
    /\ stage \in {"known", "hello"} => clock <= heard + MaxSetup
    /\ stage = "known" => stored
    /\ stage = "hello" /\ stored /\ ~orphaned => heard <= last_seen
    /\ stage = "serving" =>
          /\ clock <= next_tick
          /\ next_tick <= clock + Ping
          /\ next_tick <= heard + 2 * Ping + PongTimeout
          /\ touched <= clock
    /\ stage = "serving" /\ stored /\ ~orphaned =>
          /\ touched <= last_seen + MaxSetup
          /\ next_tick <= last_seen + TouchInterval + Ping + MaxSetup

\* The same with the expiry loop taken into account: it finds the user agent of
\* a session too fresh to delete.
ActiveInv == ClocksInv /\ ActiveKept

\* The clocks are related as stated in the initial state.
LEMMA ClocksInit == ActivityInit => ClocksInv
  <1> SUFFICES ASSUME ActivityInit PROVE ClocksInv
    OBVIOUS
  <1>1. exists \in BOOLEAN /\ stored \in BOOLEAN /\ orphaned \in BOOLEAN
    BY Zenon DEF ActivityInit
  <1>2. clock = 0 /\ last_seen = 0 /\ heard = 0 /\ touched = 0 /\ next_tick = 0 /\ stage = "away"
    BY Zenon DEF ActivityInit
  <1>3. QED
    BY <1>1, <1>2 DEF ClocksInv, ActivityTypeOK

\* No step breaks it as long as a user agent that a session holds exists, which
\* only matters to a touch: a user agent that is gone is not refreshed.
LEMMA ClocksStep ==
    ASSUME ClocksInv, ActiveKept, [ActivityNext]_activityVars
    PROVE  ClocksInv'
  <1> USE ActivityAssumption DEF ClocksInv, ActivityTypeOK
  <1>1. CASE hello
    <2>1. exists' \in BOOLEAN /\ stored' \in BOOLEAN /\ orphaned' \in BOOLEAN
      BY <1>1, Zenon DEF hello
    <2>2. CASE exists
      BY <1>1, <2>1, <2>2 DEF hello
    <2>3. CASE ~exists
      BY <1>1, <2>1, <2>3 DEF hello
    <2>4. QED
      BY <2>2, <2>3
  <1>2. CASE serve
    BY <1>2 DEF serve
  <1>3. CASE frame
    BY <1>3 DEF frame
  <1>12. CASE touch
    <2>1. exists' \in BOOLEAN /\ stored' \in BOOLEAN /\ orphaned' \in BOOLEAN
      BY <1>12, Zenon DEF touch
    <2>2. CASE exists
      BY <1>12, <2>1, <2>2 DEF touch
    <2>3. CASE ~exists
      BY <1>12, <2>1, <2>3 DEF touch
    <2>4. QED
      BY <2>2, <2>3
  <1>4. CASE register_channel
    <2>1. exists' \in BOOLEAN /\ stored' \in BOOLEAN /\ orphaned' \in BOOLEAN /\ stage' = "serving"
      BY <1>4, Zenon DEF register_channel
    <2>2. CASE stored
      BY <1>4, <2>1, <2>2 DEF register_channel
    <2>3. CASE ~stored
      <3>1. /\ last_seen' = clock /\ heard' = clock /\ clock' = clock
            /\ touched' = touched /\ next_tick' = next_tick /\ stage = "serving"
        BY <1>4, <2>3, Zenon DEF register_channel
      <3>2. QED
        BY <2>1, <3>1
    <2>4. QED
      BY <2>2, <2>3
  <1>5. CASE ping
    <2>1. CASE stored /\ clock - touched > TouchInterval
      BY <1>5, <2>1 DEF ping, ActiveKept
    <2>2. CASE ~(stored /\ clock - touched > TouchInterval)
      BY <1>5, <2>2 DEF ping
    <2>3. QED
      BY <2>1, <2>2
  <1>6. CASE idle
    BY <1>6 DEF idle
  <1>7. CASE leave_session
    BY <1>7 DEF leave_session
  <1>8. CASE expire
    BY <1>8 DEF expire
  <1>9. CASE pass_time
    BY <1>9 DEF pass_time
  <1>10. CASE UNCHANGED activityVars
    BY <1>10 DEF activityVars
  <1>11. QED
    BY <1>1, <1>2, <1>3, <1>4, <1>5, <1>6, <1>7, <1>8, <1>9, <1>10, <1>12 DEF ActivityNext

\* If expire_after is at least TOUCH_INTERVAL + ping_interval + the time from the
\* first frame to the loop, the expiry loop never deletes the user agent of a
\* session that has stored it, or that found it when it touched it.
THEOREM ActiveSessionsKept ==
    ASSUME ExpireAfter >= TouchInterval + Ping + MaxSetup
    PROVE  ActivitySpec => []ActiveKept
  <1>1. ActivityInit => ActiveInv
    BY ClocksInit DEF ActiveInv, ActiveKept, ActivityInit
  <1>2. ActiveInv /\ [ActivityNext]_activityVars => ActiveInv'
    <2> SUFFICES ASSUME ClocksInv, ActiveKept, [ActivityNext]_activityVars
                 PROVE  ActiveKept'
      BY ClocksStep DEF ActiveInv
    <2>1. CASE hello \/ touch
      BY <2>1 DEF hello, touch, ActiveKept, ClocksInv, ActivityTypeOK
    <2>2. CASE serve \/ frame \/ ping \/ pass_time \/ UNCHANGED activityVars
      BY <2>2 DEF serve, frame, ping, pass_time, activityVars, ActiveKept
    <2>3. CASE register_channel
      BY <2>3 DEF register_channel, ActiveKept, ClocksInv, ActivityTypeOK
    <2>4. CASE idle \/ leave_session
      BY <2>4 DEF idle, leave_session, ActiveKept
    <2>5. CASE expire
      <3>1. CASE stage = "hello" /\ stored /\ ~orphaned
        BY <2>5, <3>1, ActivityAssumption DEF expire, ClocksInv, ActivityTypeOK
      <3>2. CASE stage = "serving" /\ stored /\ ~orphaned
        BY <2>5, <3>2, ActivityAssumption DEF expire, ClocksInv, ActivityTypeOK
      <3>3. CASE stage \in {"away", "known"} \/ ~stored \/ orphaned
        BY <2>5, <3>3 DEF expire, ActiveKept
      <3>4. QED
        BY <3>1, <3>2, <3>3 DEF ClocksInv, ActivityTypeOK
    <2>6. QED
      BY <2>1, <2>2, <2>3, <2>4, <2>5 DEF ActivityNext
  <1>3. ActiveInv => ActiveKept
    BY DEF ActiveInv
  <1>4. QED
    BY <1>1, <1>2, <1>3, PTL DEF ActivitySpec

\* What bounds a client's silence: the next tick is due before it is too long.
SilentInv ==
    /\ ActivityTypeOK
    /\ heard <= clock
    /\ stage = "serving" =>
          clock <= next_tick /\ next_tick <= heard + 2 * Ping + PongTimeout

LEMMA SilenceBounded == ActivitySpec => []SilentInv
  <1> USE ActivityAssumption
  <1>1. ActivityInit => SilentInv
    BY ClocksInit DEF SilentInv, ClocksInv, ActivityInit
  <1>2. SilentInv /\ [ActivityNext]_activityVars => SilentInv'
    <2> SUFFICES ASSUME SilentInv, [ActivityNext]_activityVars
                 PROVE  SilentInv'
      OBVIOUS
    <2> USE DEF SilentInv, ActivityTypeOK
    <2>1. CASE hello \/ touch
      <3>1. exists' \in BOOLEAN /\ stored' \in BOOLEAN /\ orphaned' \in BOOLEAN
        BY <2>1, Zenon DEF hello, touch
      <3>2. /\ last_seen' \in Nat /\ heard' \in Nat /\ heard' <= clock /\ clock' = clock
            /\ touched' = touched /\ next_tick' = next_tick
        BY <2>1 DEF hello, touch
      <3>4. stage' = "known" \/ stage' = "hello"
        BY <2>1 DEF hello, touch
      <3>3. QED
        BY <3>1, <3>2, <3>4
    <2>2. CASE serve
      BY <2>2 DEF serve
    <2>3. CASE frame
      BY <2>3 DEF frame
    <2>4. CASE register_channel
      <3>1. exists' \in BOOLEAN /\ stored' \in BOOLEAN /\ orphaned' \in BOOLEAN
        BY <2>4, Zenon DEF register_channel
      <3>2. /\ last_seen' \in {last_seen, clock} /\ heard' = clock /\ clock' = clock
            /\ touched' = touched /\ next_tick' = next_tick
            /\ stage' = "serving" /\ stage = "serving"
        BY <2>4 DEF register_channel
      <3>3. QED
        BY <3>1, <3>2
    <2>5. CASE ping
      BY <2>5 DEF ping
    <2>6. CASE idle \/ leave_session \/ expire
      BY <2>6 DEF idle, leave_session, expire
    <2>7. CASE pass_time
      BY <2>7 DEF pass_time
    <2>8. CASE UNCHANGED activityVars
      BY <2>8 DEF activityVars
    <2>9. QED
      BY <2>1, <2>2, <2>3, <2>4, <2>5, <2>6, <2>7, <2>8 DEF ActivityNext
  <1>3. QED
    BY <1>1, <1>2, PTL DEF ActivitySpec

\* A client that falls silent loses its session within two ping intervals and
\* the pong timeout.
THEOREM SilentSessionsClosed == ActivitySpec => []SilentClosed
  <1>1. SilentInv => SilentClosed
    BY ActivityAssumption DEF SilentInv, SilentClosed, ActivityTypeOK
  <1>2. QED
    BY <1>1, SilenceBounded, PTL

-----------------------------------------------------------------------------
(* Types *)

LEMMA PartsRunParts == PartsSpec => ServerSpec /\ ActivitySpec
<1>1. PartsInit => ServerInit /\ ActivityInit
  BY DEF PartsInit
<1>2. [PartsNext]_partsVars => [ServerNext]_serverVars /\ [ActivityNext]_activityVars
  BY PartsSteps
<1> QED BY <1>1, <1>2, PTL DEF PartsSpec, ServerSpec, ActivitySpec

(***************************************************************************)
(* The permits of serve() and its tasks are counted right, the clocks of   *)
(* a session are times, and the lock of the token cache has no send twice  *)
(* in its queue.                                                           *)
(***************************************************************************)
THEOREM PartsTypesKept == PartsSpec => []PartsTypeOK
<1>1. ServerInv => ServerTypeOK
  BY ServerTypes
<1>2. SilentInv => ActivityTypeOK
  BY DEF SilentInv
<1>3. AccessInv => AccessTypeOK
  BY DEF AccessInv
<1> QED BY <1>1, <1>2, <1>3, PartsRunParts, ServerInvariant, SilenceBounded, AccessInvariant, PTL DEF PartsTypeOK

-----------------------------------------------------------------------------
(* The rows of Bigtable *)

StoredRow(i) == <<Table[i].key, {<<c.qualifier, c.value>> : c \in Range(Table[i].cells)}>>

(***************************************************************************)
(* What read() holds of the row that is being sent: the cells before this  *)
(* one, the octets of this one that have arrived, and the names that a     *)
(* chunk may leave out.                                                    *)
(***************************************************************************)
Partial ==
    /\ at.cell \in 1..Len(Cells)
    /\ at.sent = 0 \/ at.sent < Len(Cell.value)
    /\ value = SubSeq(Cell.value, 1, at.sent)
    /\ row = {<<Cells[j].qualifier, Cells[j].value>> : j \in 1..(at.cell - 1)}
    /\ at.cell # 1 \/ at.sent # 0 => key = Table[at.row].key
    /\ at.sent # 0 => qualifier = Cell.qualifier

ChunkInv ==
    /\ at \in [row : 1..(Len(Table) + 1), cell : Nat, sent : Nat]
    /\ rows = [i \in 1..(at.row - 1) |-> StoredRow(i)]
    /\ Sending => Partial

LEMMA TableRows ==
    /\ Len(Table) \in Nat
    /\ DOMAIN Table = 1..Len(Table)
    /\ \A i \in 1..Len(Table) :
          /\ Table[i].key # NoName
          /\ Len(Table[i].cells) \in Nat \ {0}
          /\ DOMAIN Table[i].cells = 1..Len(Table[i].cells)
          /\ \A c \in 1..Len(Table[i].cells) :
                /\ Table[i].cells[c].qualifier # NoName
                /\ Table[i].cells[c].value \in Seq(Nat)
                /\ Len(Table[i].cells[c].value) \in Nat
                /\ \A d \in 1..Len(Table[i].cells) :
                      Table[i].cells[c].qualifier = Table[i].cells[d].qualifier => c = d
<1>1. Table \in Seq(Range(Table))
  BY ChunkAssumption
<1>2. Len(Table) \in Nat /\ DOMAIN Table = 1..Len(Table)
  BY <1>1, LenProperties
<1>3. ASSUME NEW i \in 1..Len(Table)
      PROVE  /\ Table[i].key # NoName
             /\ Table[i].cells \in Seq(Range(Table[i].cells)) /\ Table[i].cells # <<>>
             /\ \A c \in DOMAIN Table[i].cells :
                   /\ Table[i].cells[c].qualifier # NoName
                   /\ Table[i].cells[c].value \in Seq(Nat)
                   /\ \A d \in DOMAIN Table[i].cells :
                      Table[i].cells[c].qualifier = Table[i].cells[d].qualifier => c = d
  BY <1>2, ChunkAssumption
<1>4. ASSUME NEW i \in 1..Len(Table)
      PROVE  /\ Len(Table[i].cells) \in Nat \ {0}
             /\ DOMAIN Table[i].cells = 1..Len(Table[i].cells)
  BY <1>3, LenProperties, EmptySeq
<1>5. ASSUME NEW i \in 1..Len(Table), NEW c \in 1..Len(Table[i].cells)
      PROVE  Len(Table[i].cells[c].value) \in Nat
  BY <1>3, <1>4, LenProperties
<1> QED BY <1>2, <1>3, <1>4, <1>5

(***************************************************************************)
(* Where the next chunk comes from.                                        *)
(***************************************************************************)
LEMMA Position ==
    ASSUME ChunkInv, Sending
    PROVE  /\ at.row \in 1..Len(Table) /\ at.cell \in 1..Len(Cells) /\ at.sent \in Nat
           /\ Len(Cells) \in Nat \ {0} /\ Len(Cell.value) \in Nat
           /\ Cells = Table[at.row].cells /\ Cell = Cells[at.cell]
           /\ Cell.value \in Seq(Nat) /\ Cell.qualifier # NoName
           /\ Table[at.row].key # NoName
           /\ DOMAIN Cells = 1..Len(Cells)
           /\ \A c, d \in 1..Len(Cells) : Cells[c].qualifier = Cells[d].qualifier => c = d
<1>1. at.row \in 1..Len(Table) /\ at.sent \in Nat /\ at.cell \in 1..Len(Cells)
  BY TableRows DEF ChunkInv, Sending, Partial
<1> QED BY <1>1, TableRows DEF Cells, Cell

LEMMA ChunkInitInv == ChunkInit => ChunkInv
<1> SUFFICES ASSUME ChunkInit PROVE ChunkInv
  OBVIOUS
<1>1. at \in [row : 1..(Len(Table) + 1), cell : Nat, sent : Nat]
  BY TableRows DEF ChunkInit
<1>2. rows = [i \in 1..(at.row - 1) |-> StoredRow(i)]
  <2>1. at.row - 1 = 0 /\ rows = <<>>
    BY DEF ChunkInit
  <2>2. 1..0 = {}
    OBVIOUS
  <2> QED BY <2>1, <2>2
<1>3. ASSUME Sending PROVE Partial
  <2>1. at.row = 1 /\ at.cell = 1 /\ at.sent = 0 /\ 1 \in 1..Len(Table)
    BY <1>3, TableRows DEF ChunkInit, Sending
  <2>2. 1 \in 1..Len(Cells)
    BY <2>1, TableRows DEF Cells
  <2>3. SubSeq(Cell.value, 1, 0) = <<>>
    BY SubSeqEmpty
  <2>4. {<<Cells[j].qualifier, Cells[j].value>> : j \in 1..(at.cell - 1)} = {}
    BY <2>1
  <2> QED BY <2>1, <2>2, <2>3, <2>4 DEF ChunkInit, Partial
<1> QED BY <1>1, <1>2, <1>3 DEF ChunkInv

LEMMA ResetKeeps == ASSUME ChunkInv, reset_row PROVE ChunkInv'
<1>1. at.row \in 1..Len(Table) /\ at' = [at EXCEPT !.cell = 1, !.sent = 0] /\ rows' = rows
      /\ value' = <<>> /\ row' = {}
  BY Position DEF reset_row
<1>2. at' \in [row : 1..(Len(Table) + 1), cell : Nat, sent : Nat]
      /\ at'.row = at.row /\ at'.cell = 1 /\ at'.sent = 0
  BY <1>1 DEF ChunkInv
<1>3. (rows = [i \in 1..(at.row - 1) |-> StoredRow(i)])'
  BY <1>1, <1>2 DEF ChunkInv, StoredRow
<1>4. Partial'
  <2>1. at'.cell \in 1..Len(Table[at'.row].cells)
    BY <1>1, <1>2, TableRows
  <2>2. SubSeq(Table[at'.row].cells[at'.cell].value, 1, 0) = <<>>
    BY SubSeqEmpty
  <2>3. {<<Table[at'.row].cells[j].qualifier, Table[at'.row].cells[j].value>> :
             j \in 1..(at'.cell - 1)} = {}
    BY <1>2
  <2> QED BY <1>1, <1>2, <2>1, <2>2, <2>3 DEF Partial, Cells, Cell
<1> QED BY <1>2, <1>3, <1>4 DEF ChunkInv

(***************************************************************************)
(* What a chunk leaves out.                                                *)
(***************************************************************************)
LEMMA ChunkFields ==
    ASSUME NEW n, NEW chunk \in Chunks(n)
    PROVE  /\ chunk.row_key # Table[at.row].key =>
                 chunk.row_key = NoName /\ ~(at.cell = 1 /\ at.sent = 0)
           /\ chunk.qualifier # Cell.qualifier => chunk.qualifier = NoName /\ at.sent # 0
           /\ chunk.value = SubSeq(Cell.value, at.sent + 1, at.sent + n)
           /\ chunk.value_size = IF at.sent + n = Len(Cell.value) THEN 0 ELSE Len(Cell.value)
           /\ chunk.commit = (at.sent + n = Len(Cell.value) /\ at.cell = Len(Cells))
<1>1. /\ chunk.row_key \in {Table[at.row].key}
                             \cup (IF at.cell = 1 /\ at.sent = 0 THEN {} ELSE {NoName})
      /\ chunk.qualifier \in {Cell.qualifier} \cup (IF at.sent = 0 THEN {} ELSE {NoName})
      /\ chunk.value \in {SubSeq(Cell.value, at.sent + 1, at.sent + n)}
      /\ chunk.value_size \in {IF at.sent + n = Len(Cell.value) THEN 0 ELSE Len(Cell.value)}
      /\ chunk.commit \in {at.sent + n = Len(Cell.value) /\ at.cell = Len(Cells)}
  BY DEF Chunks
<1> QED BY <1>1

LEMMA JoinParts ==
    ASSUME NEW v \in Seq(Nat), NEW k \in 0..Len(v), NEW n \in k..Len(v)
    PROVE  SubSeq(v, 1, k) \o SubSeq(v, k + 1, n) = SubSeq(v, 1, n)
<1>1. 1 \in 1..(Len(v) + 1) /\ k \in (1 - 1)..Len(v)
  BY LenProperties
<1> QED BY <1>1, ConcatAdjacentSubSeq

(***************************************************************************)
(* A chunk that is not the last of its cell.                               *)
(***************************************************************************)
LEMMA PartArrives ==
    ASSUME ChunkInv, NEW n \in Nat, chunk_arrives(n), at.sent + n < Len(Cell.value)
    PROVE  ChunkInv'
<1>1. PICK chunk \in Chunks(n) : merge(chunk)
  BY DEF chunk_arrives
<1>2. Sending /\ Partial
  BY DEF chunk_arrives, ChunkInv
<1>3. /\ chunk.row_key # Table[at.row].key =>
            chunk.row_key = NoName /\ ~(at.cell = 1 /\ at.sent = 0)
      /\ chunk.qualifier # Cell.qualifier => chunk.qualifier = NoName /\ at.sent # 0
      /\ chunk.value = SubSeq(Cell.value, at.sent + 1, at.sent + n)
      /\ chunk.value_size = Len(Cell.value) /\ chunk.commit = FALSE
  <2>1. at.sent \in Nat /\ Len(Cell.value) \in Nat
    BY <1>2, Position
  <2>2. at.sent + n # Len(Cell.value)
    BY <2>1
  <2> QED BY <2>2, ChunkFields
<1>4. chunk.value_size # 0
  BY <1>2, <1>3, Position
<1>5. key' = Table[at.row].key /\ qualifier' = Cell.qualifier /\ row' = row /\ rows' = rows
      /\ value' = value \o chunk.value
  BY <1>1, <1>2, <1>3, <1>4, Position DEF merge, Partial
<1>6. at' = [at EXCEPT !.sent = @ + n]
  BY DEF chunk_arrives, Advance
<1>7. /\ at' \in [row : 1..(Len(Table) + 1), cell : Nat, sent : Nat]
      /\ at'.row = at.row /\ at'.cell = at.cell /\ at'.sent = at.sent + n
  BY <1>6 DEF ChunkInv
<1>8. value' = SubSeq(Cell.value, 1, at.sent + n)
  <2>1. at.sent \in 0..Len(Cell.value) /\ at.sent + n \in at.sent..Len(Cell.value)
    BY <1>2, Position DEF Partial
  <2>2. PICK v : v = Cell.value
    OBVIOUS
  <2>3. SubSeq(Cell.value, 1, at.sent) \o SubSeq(Cell.value, at.sent + 1, at.sent + n)
            = SubSeq(Cell.value, 1, at.sent + n)
    BY <2>1, <2>2, <1>2, Position, JoinParts
  <2> QED BY <2>3, <1>2, <1>3, <1>5 DEF Partial
<1>9. Cells' = Cells /\ Cell' = Cell
  BY <1>7 DEF Cells, Cell
<1>10. (rows = [i \in 1..(at.row - 1) |-> StoredRow(i)])'
  BY <1>5, <1>7 DEF ChunkInv, StoredRow
<1>11. Partial'
  BY <1>2, <1>5, <1>7, <1>8, <1>9 DEF Partial
<1> QED BY <1>7, <1>10, <1>11 DEF ChunkInv

(***************************************************************************)
(* The last chunk of a cell makes it one of the row.                       *)
(***************************************************************************)
LEMMA CellComplete ==
    ASSUME ChunkInv, NEW n \in Nat, chunk_arrives(n), ~(at.sent + n < Len(Cell.value)),
           NEW chunk \in Chunks(n), merge(chunk)
    PROVE  /\ key' = Table[at.row].key /\ value' = <<>>
           /\ LET cells == {<<Cells[j].qualifier, Cells[j].value>> : j \in 1..at.cell}
              IN  IF at.cell = Len(Cells)
                  THEN row' = {} /\ rows' = Append(rows, <<Table[at.row].key, cells>>)
                  ELSE row' = cells /\ rows' = rows
<1>1. Sending /\ Partial
  BY DEF chunk_arrives, ChunkInv
<1>2. at.sent + n = Len(Cell.value)
  <2>1. at.sent + n <= Len(Cell.value)
    BY DEF chunk_arrives
  <2>2. at.sent \in Nat /\ Len(Cell.value) \in Nat
    BY <1>1, Position
  <2> QED BY <2>1, <2>2
<1>3. /\ chunk.row_key # Table[at.row].key =>
            chunk.row_key = NoName /\ ~(at.cell = 1 /\ at.sent = 0)
      /\ chunk.qualifier # Cell.qualifier => chunk.qualifier = NoName /\ at.sent # 0
      /\ chunk.value = SubSeq(Cell.value, at.sent + 1, at.sent + n)
      /\ chunk.value_size = 0 /\ chunk.commit = (at.cell = Len(Cells))
  BY <1>1, <1>2, Position, ChunkFields
<1>4. key' = Table[at.row].key /\ qualifier' = Cell.qualifier
  BY <1>1, <1>3, Position DEF merge, Partial
<1>5. value \o chunk.value = Cell.value
  <2>1. at.sent \in 0..Len(Cell.value) /\ at.sent + n \in at.sent..Len(Cell.value)
    BY <1>1, <1>2, Position DEF Partial
  <2>2. PICK v : v = Cell.value
    OBVIOUS
  <2>3. SubSeq(Cell.value, 1, at.sent) \o SubSeq(Cell.value, at.sent + 1, at.sent + n)
            = SubSeq(Cell.value, 1, at.sent + n)
    BY <2>1, <2>2, <1>1, Position, JoinParts
  <2>4. SubSeq(Cell.value, 1, Len(Cell.value)) = Cell.value
    BY <1>1, Position, SubSeqFull
  <2> QED BY <2>3, <2>4, <1>1, <1>2, <1>3 DEF Partial
<1>6. Insert(row, Cell.qualifier, Cell.value)
          = {<<Cells[j].qualifier, Cells[j].value>> : j \in 1..at.cell}
  <2>1. at.cell \in 1..Len(Cells) /\ Cell = Cells[at.cell] /\ Len(Cells) \in Nat
    BY <1>1, Position
  <2>2. \A j \in 1..(at.cell - 1) : Cells[j].qualifier # Cell.qualifier
    BY <1>1, <2>1, Position
  <2>3. {c \in row : c[1] # Cell.qualifier} = row
    BY <1>1, <2>2 DEF Partial
  <2>4. 1..at.cell = (1..(at.cell - 1)) \cup {at.cell}
    BY <2>1
  <2> QED BY <1>1, <2>1, <2>3, <2>4 DEF Insert, Partial
<1>7. Insert(row, qualifier', value \o chunk.value)
          = {<<Cells[j].qualifier, Cells[j].value>> : j \in 1..at.cell}
  BY <1>4, <1>5, <1>6
<1>8. /\ value' = <<>>
      /\ row' = IF chunk.commit THEN {} ELSE Insert(row, qualifier', value \o chunk.value)
      /\ rows' = IF chunk.commit
                 THEN Append(rows, <<key', Insert(row, qualifier', value \o chunk.value)>>)
                 ELSE rows
  BY <1>3 DEF merge
<1> QED BY <1>3, <1>4, <1>7, <1>8

LEMMA NextCell ==
    ASSUME ChunkInv, NEW n \in Nat, chunk_arrives(n), ~(at.sent + n < Len(Cell.value)),
           at.cell # Len(Cells)
    PROVE  ChunkInv'
<1>1. PICK chunk \in Chunks(n) : merge(chunk)
  BY DEF chunk_arrives
<1>2. Sending /\ Partial
  BY DEF chunk_arrives, ChunkInv
<1>3. /\ key' = Table[at.row].key /\ value' = <<>> /\ rows' = rows
      /\ row' = {<<Cells[j].qualifier, Cells[j].value>> : j \in 1..at.cell}
  BY <1>1, CellComplete
<1>4. at' = [at EXCEPT !.cell = @ + 1, !.sent = 0]
  BY <1>2, Position DEF chunk_arrives, Advance
<1>5. /\ at' \in [row : 1..(Len(Table) + 1), cell : Nat, sent : Nat]
      /\ at'.row = at.row /\ at'.cell = at.cell + 1 /\ at'.sent = 0
  <2>1. at.cell + 1 \in Nat
    BY <1>2, Position
  <2> QED BY <1>4, <2>1 DEF ChunkInv
<1>6. Cells' = Cells
  BY <1>5 DEF Cells
<1>7. at'.cell \in 1..Len(Cells) /\ at'.cell - 1 = at.cell
  BY <1>2, <1>5, Position
<1>8. SubSeq(Cell'.value, 1, 0) = <<>>
  BY SubSeqEmpty
<1>9. (rows = [i \in 1..(at.row - 1) |-> StoredRow(i)])'
  BY <1>3, <1>5 DEF ChunkInv, StoredRow
<1>10. row' = {<<Cells'[j].qualifier, Cells'[j].value>> : j \in 1..(at'.cell - 1)}
  BY <1>3, <1>6, <1>7
<1>11. Partial'
  BY <1>3, <1>5, <1>6, <1>7, <1>8, <1>10 DEF Partial
<1> QED BY <1>5, <1>9, <1>11 DEF ChunkInv

LEMMA AppendNext ==
    ASSUME NEW m \in Nat, NEW g
    PROVE  Append([i \in 1..m |-> g[i]], g[m + 1]) = [i \in 1..(m + 1) |-> g[i]]
<1> DEFINE s == [i \in 1..m |-> g[i]]
           t == [i \in 1..(m + 1) |-> g[i]]
           S == {g[i] : i \in 1..(m + 1)}
<1>1. s \in Seq(S) /\ Len(s) = m /\ t \in Seq(S) /\ Len(t) = m + 1
  OBVIOUS
<1>2. g[m + 1] \in S
  OBVIOUS
<1>3. /\ Append(s, g[m + 1]) \in Seq(S) /\ Len(Append(s, g[m + 1])) = m + 1
      /\ \A i \in 1..m : Append(s, g[m + 1])[i] = g[i]
      /\ Append(s, g[m + 1])[m + 1] = g[m + 1]
  BY <1>1, <1>2, AppendProperties
<1> QED BY <1>1, <1>3, SeqEqual

LEMMA NextRow ==
    ASSUME ChunkInv, NEW n \in Nat, chunk_arrives(n), ~(at.sent + n < Len(Cell.value)),
           at.cell = Len(Cells)
    PROVE  ChunkInv'
<1>1. PICK chunk \in Chunks(n) : merge(chunk)
  BY DEF chunk_arrives
<1>2. Sending /\ Partial
  BY DEF chunk_arrives, ChunkInv
<1>3. /\ value' = <<>> /\ row' = {}
      /\ rows' = Append(rows, <<Table[at.row].key,
                    {<<Cells[j].qualifier, Cells[j].value>> : j \in 1..Len(Cells)}>>)
  BY <1>1, CellComplete
<1>4. at' = [row |-> at.row + 1, cell |-> 1, sent |-> 0]
  BY <1>2, Position DEF chunk_arrives, Advance
<1>5. /\ at' \in [row : 1..(Len(Table) + 1), cell : Nat, sent : Nat]
      /\ at'.row = at.row + 1 /\ at'.cell = 1 /\ at'.sent = 0
  BY <1>2, <1>4, Position, TableRows
<1>6. rows' = Append(rows, StoredRow(at.row))
  <2>1. Range(Cells) = {Cells[j] : j \in 1..Len(Cells)}
    BY <1>2, Position DEF Range
  <2>2. {<<c.qualifier, c.value>> : c \in Range(Cells)}
            = {<<Cells[j].qualifier, Cells[j].value>> : j \in 1..Len(Cells)}
    BY <2>1
  <2> QED BY <1>2, <1>3, <2>2, Position DEF StoredRow
<1>7. (rows = [i \in 1..(at.row - 1) |-> StoredRow(i)])'
  <2>1. PICK r : r = at.row
    OBVIOUS
  <2>2. r \in 1..Len(Table) /\ at'.row = r + 1 /\ Len(Table) \in Nat
    BY <2>1, <1>2, <1>5, Position, TableRows
  <2>3. at.row - 1 \in Nat /\ (at.row - 1) + 1 = at.row /\ at'.row - 1 = at.row
    BY <2>1, <2>2
  <2>4. PICK g : g = [i \in Nat |-> StoredRow(i)]
    OBVIOUS
  <2>5. Append([i \in 1..(at.row - 1) |-> g[i]], g[at.row]) = [i \in 1..at.row |-> g[i]]
    BY <2>3, AppendNext
  <2>6. \A m \in Nat : [i \in 1..m |-> g[i]] = [i \in 1..m |-> StoredRow(i)]
    BY <2>4
  <2>7. g[at.row] = StoredRow(at.row) /\ at.row \in Nat
    BY <2>3, <2>4, <1>2, Position
  <2>8. rows' = [i \in 1..at.row |-> StoredRow(i)]
    BY <1>6, <2>3, <2>5, <2>6, <2>7 DEF ChunkInv
  <2> QED BY <2>3, <2>8 DEF StoredRow
<1>8. ASSUME Sending' PROVE Partial'
  <2>1. at'.row \in 1..Len(Table)
    BY <1>5, <1>8, TableRows DEF Sending
  <2>2. at'.cell \in 1..Len(Table[at'.row].cells)
    BY <1>5, <2>1, TableRows
  <2>3. SubSeq(Table[at'.row].cells[at'.cell].value, 1, 0) = <<>>
    BY SubSeqEmpty
  <2>4. {<<Table[at'.row].cells[j].qualifier, Table[at'.row].cells[j].value>> :
             j \in 1..(at'.cell - 1)} = {}
    BY <1>5
  <2> QED BY <1>3, <1>5, <2>2, <2>3, <2>4 DEF Partial, Cells, Cell
<1> QED BY <1>5, <1>7, <1>8 DEF ChunkInv

LEMMA ChunkStep == ChunkInv /\ [ChunkNext]_chunkVars => ChunkInv'
<1> SUFFICES ASSUME ChunkInv, [ChunkNext]_chunkVars PROVE ChunkInv'
  OBVIOUS
<1>1. ASSUME Sending, NEW n \in 0..Len(Cell.value), chunk_arrives(n) PROVE ChunkInv'
  <2>1. n \in Nat
    BY <1>1, Position
  <2> QED BY <1>1, <2>1, PartArrives, NextCell, NextRow
<1>2. CASE reset_row
  BY <1>2, ResetKeeps
<1>3. CASE UNCHANGED chunkVars
  BY <1>3 DEF chunkVars, ChunkInv, Sending, Partial, Cells, Cell, StoredRow
<1> QED BY <1>1, <1>2, <1>3 DEF ChunkNext

(***************************************************************************)
(* Whatever the rows, however long their values, and however Bigtable cuts *)
(* them into chunks or takes a row back: read() of bigtable.rs returns     *)
(* each row with the cells that are stored, and no other.                  *)
(***************************************************************************)
THEOREM RowsReadAsStored == PartsSpec => []RowsAsStored
<1>1. PartsInit => ChunkInv
  BY ChunkInitInv DEF PartsInit
<1>2. ChunkInv /\ [PartsNext]_partsVars => ChunkInv'
  BY PartsSteps, ChunkStep
<1>3. ChunkInv => RowsAsStored
  BY DEF ChunkInv, RowsAsStored, StoredRow
<1> QED BY <1>1, <1>2, <1>3, PTL DEF PartsSpec

-----------------------------------------------------------------------------
(***************************************************************************)
(* ContentEncoding: what a reader makes of a body, for any message, any    *)
(* number of records and any padding.  A body is the sealed records, one   *)
(* after the other; the provers have no induction over sequences, so that  *)
(* what FlattenSeq puts together is found by the least number of pieces    *)
(* for which it would not hold (LeastNumber).                              *)
(***************************************************************************)

\* A set of numbers has a least one.
LEMMA LeastNumber ==
    ASSUME NEW S \in SUBSET Nat, S # {}
    PROVE  \E n \in S : \A k \in S : n <= k
<1>1. PICK first \in S : TRUE
  OBVIOUS
<1>2. PICK range : range = 0..first
  OBVIOUS
<1> DEFINE Below(n) == {k \in range : k < n}
           Families == {Below(n) : n \in S}
<1>3. IsFiniteSet(range)
  BY <1>1, <1>2, FS_Interval
<1>4. IsWellFoundedOn(StrictSubsetOrdering(range), FiniteSubsetsOf(range))
  BY <1>3, FS_StrictSubsetOrderingWellFounded
<1>5. FiniteSubsetsOf(range) = SUBSET range
  BY <1>3, FS_FiniteSubsetsOfFinite
<1>6. Families \subseteq FiniteSubsetsOf(range) /\ Families # {}
  <2>1. \A n \in S : Below(n) \in SUBSET range
    OBVIOUS
  <2> HIDE DEF Below
  <2> QED
    BY <1>5, <2>1
<1>7. PICK F \in Families : \A G \in Families : <<G, F>> \notin StrictSubsetOrdering(range)
  <2> HIDE DEF Families
  <2> QED
    BY <1>4, <1>6, WFMin
<1>8. PICK n \in S : F = Below(n)
  BY <1>7
<1>9. PICK least \in S : least <= n /\ least <= first
  BY <1>1
<1>10. ASSUME NEW k \in S, k < least
       PROVE  FALSE
  <2>1. Below(k) \subseteq Below(n) /\ k \in Below(n) /\ k \notin Below(k)
    BY <1>1, <1>2, <1>9, <1>10
  <2>2. <<Below(k), Below(n)>> \in StrictSubsetOrdering(range)
    <3>1. PICK a \in SUBSET range, b \in SUBSET range : a = Below(k) /\ b = Below(n)
      OBVIOUS
    <3> HIDE DEF Below
    <3> QED
      BY <2>1, <3>1 DEF StrictSubsetOrdering
  <2> QED
    BY <1>7, <1>8, <2>2
<1> QED
  BY <1>9, <1>10

\* The pieces that a sequence of sequences is put together from, one more each time.
Joined(s, n, f) ==
    f = [i \in 1..n |-> IF i = 1 THEN s[i] ELSE f[i - 1] \o s[i]]

LEMMA JoinedExists ==
    ASSUME NEW T, NEW k \in Nat, NEW s \in [1..k -> Seq(T)]
    PROVE  \A n \in 0..k : \E f : Joined(s, n, f)
<1> DEFINE Bad == {n \in 0..k : ~\E f : Joined(s, n, f)}
<1> SUFFICES ASSUME Bad # {}
             PROVE  FALSE
  OBVIOUS
<1>1. PICK n \in Bad : \A j \in Bad : n <= j
  <2>1. Bad \in SUBSET Nat
    OBVIOUS
  <2> HIDE DEF Bad
  <2> QED
    BY <2>1, LeastNumber
<1>2. n \in 0..k /\ ~\E f : Joined(s, n, f)
  OBVIOUS
<1>3. CASE n = 0
  <2>1. PICK f : f = [i \in 1..0 |-> i]
    OBVIOUS
  <2>2. 1..0 = {}
    OBVIOUS
  <2>3. f = [i \in 1..0 |-> IF i = 1 THEN s[i] ELSE f[i - 1] \o s[i]]
    BY <2>1, <2>2
  <2> QED
    BY <1>2, <1>3, <2>3 DEF Joined
<1>4. CASE n # 0
  <2>1. PICK p \in Nat : n = p + 1
    BY <1>2, <1>4
  <2>2. p \in 0..k /\ ~(n <= p)
    BY <1>2, <2>1
  <2>3. PICK f : Joined(s, p, f)
    BY <1>1, <2>2
  <2>4. PICK g : g = [i \in 1..n |-> IF i = 1 THEN s[1] ELSE IF i = n THEN f[p] \o s[n] ELSE f[i]]
    OBVIOUS
  <2>5. \A i \in 1..p : f[i] = IF i = 1 THEN s[i] ELSE f[i - 1] \o s[i]
    BY <2>3 DEF Joined
  <2>6. \A i \in 1..p : i \in 1..n /\ i # n /\ g[i] = f[i]
    <3>1. \A i \in 1..p : i \in 1..n /\ i # n
      BY <1>2, <2>1
    <3>2. f[1] = s[1] \/ 1 \notin 1..p
      BY <2>5
    <3> QED
      BY <2>4, <3>1, <3>2
  <2>7. ASSUME NEW i \in 1..n
        PROVE  g[i] = IF i = 1 THEN s[i] ELSE g[i - 1] \o s[i]
    <3>1. CASE i = 1
      BY <2>4, <3>1
    <3>2. CASE i # 1 /\ i = n
      <4>1. p \in 1..p /\ i - 1 = p
        BY <1>2, <2>1, <3>2
      <4>2. g[n] = f[p] \o s[n] /\ g[p] = f[p]
        BY <2>4, <2>6, <3>2, <4>1
      <4> QED
        BY <3>2, <4>1, <4>2
    <3>3. CASE i # 1 /\ i # n
      <4>1. i \in 1..p /\ i - 1 \in 1..p
        BY <1>2, <2>1, <3>3
      <4>2. g[i] = f[i] /\ f[i] = f[i - 1] \o s[i] /\ g[i - 1] = f[i - 1]
        BY <2>5, <2>6, <3>3, <4>1
      <4> QED
        BY <3>3, <4>2
    <3> QED
      BY <3>1, <3>2, <3>3
  <2>8. PICK h : h = [i \in 1..n |-> IF i = 1 THEN s[i] ELSE g[i - 1] \o s[i]]
    OBVIOUS
  <2>9. g = h
    BY <2>4, <2>7, <2>8
  <2> QED
    BY <1>2, <2>8, <2>9 DEF Joined
<1> QED
  BY <1>3, <1>4

LEMMA FlattenJoins ==
    ASSUME NEW T, NEW k \in Nat \ {0}, NEW s \in [1..k -> Seq(T)]
    PROVE  \E f : Joined(s, k, f) /\ FlattenSeq(s) = f[k]
<1>1. Len(s) = k
  OBVIOUS
<1>2. PICK f : f = CHOOSE g : g = [i \in 1..Len(s) |-> IF i = 1 THEN s[i] ELSE g[i - 1] \o s[i]]
  OBVIOUS
<1>3. f = [i \in 1..Len(s) |-> IF i = 1 THEN s[i] ELSE f[i - 1] \o s[i]]
  <2>1. k \in 0..k
    OBVIOUS
  <2>2. \E g : Joined(s, k, g)
    BY <2>1, JoinedExists
  <2> QED
    BY <1>1, <1>2, <2>2 DEF Joined
<1>4. FlattenSeq(s) = f[k]
  BY <1>1, <1>2 DEF FlattenSeq
<1> QED
  BY <1>1, <1>3, <1>4 DEF Joined

\* Where the pieces begin and end: the piece after the first `cut[i]` octets is
\* the one with number i + 1.
Cuts(s, k, whole, cut) ==
    /\ cut \in [0..k -> Nat]
    /\ cut[0] = 0 /\ cut[k] = Len(whole)
    /\ \A i \in 1..k : /\ cut[i] = cut[i - 1] + Len(s[i])
                      /\ cut[i] <= Len(whole)
                      /\ SubSeq(whole, cut[i - 1] + 1, cut[i]) = s[i]

\* A sequence and one that it begins.
Begins(a, b) == Len(a) <= Len(b) /\ a = SubSeq(b, 1, Len(a))

LEMMA BeginsMore ==
    ASSUME NEW T, NEW a \in Seq(T), NEW b \in Seq(T), NEW c \in Seq(T)
    PROVE  /\ Begins(a, a)
           /\ Begins(a, b) => Begins(a, b \o c)
<1>1. Len(a) \in Nat /\ Len(b) \in Nat /\ Len(c) \in Nat
  OBVIOUS
<1>2. a = SubSeq(a, 1, Len(a))
  OBVIOUS
<1>3. ASSUME Begins(a, b)
      PROVE  Begins(a, b \o c)
  <2>1. Len(b \o c) = Len(b) + Len(c) /\ \A i \in 1..Len(b) : (b \o c)[i] = b[i]
    OBVIOUS
  <2>2. \A i \in 1..Len(a) : i \in 1..Len(b) /\ a[i] = b[i]
    BY <1>1, <1>3 DEF Begins
  <2>3. SubSeq(b \o c, 1, Len(a)) \in Seq(T) /\ Len(SubSeq(b \o c, 1, Len(a))) = Len(a)
    BY <1>1, <1>3, <2>1 DEF Begins
  <2>4. \A i \in 1..Len(a) : SubSeq(b \o c, 1, Len(a))[i] = (b \o c)[i]
    BY <1>1, <1>3, <2>1 DEF Begins
  <2>5. a = SubSeq(b \o c, 1, Len(a))
    BY <2>1, <2>2, <2>3, <2>4, SeqEqual
  <2> QED
    BY <1>1, <1>3, <2>1, <2>5 DEF Begins
<1> QED
  BY <1>1, <1>2, <1>3 DEF Begins

LEMMA JoinedBegins ==
    ASSUME NEW T, NEW k \in Nat \ {0}, NEW s \in [1..k -> Seq(T)], NEW f, Joined(s, k, f)
    PROVE  \A j \in 1..k : f[j] \in Seq(T) /\ \A i \in 1..j : Begins(f[i], f[j])
<1> DEFINE Bad == {j \in 1..k : ~(f[j] \in Seq(T) /\ \A i \in 1..j : Begins(f[i], f[j]))}
<1> SUFFICES ASSUME Bad # {}
             PROVE  FALSE
  OBVIOUS
<1>1. PICK j \in Bad : \A n \in Bad : j <= n
  <2>1. Bad \in SUBSET Nat
    OBVIOUS
  <2> HIDE DEF Bad
  <2> QED
    BY <2>1, LeastNumber
<1>2. j \in 1..k /\ ~(f[j] \in Seq(T) /\ \A i \in 1..j : Begins(f[i], f[j]))
  OBVIOUS
<1>3. f[j] = IF j = 1 THEN s[j] ELSE f[j - 1] \o s[j]
  BY <1>2 DEF Joined
<1>4. CASE j = 1
  <2>1. f[j] \in Seq(T)
    BY <1>3, <1>4
  <2>2. \A i \in 1..j : i = j
    BY <1>4
  <2> QED
    BY <1>2, <2>1, <2>2, BeginsMore
<1>5. CASE j # 1
  <2>1. PICK p \in 1..k : j = p + 1
    BY <1>2, <1>5
  <2>2. f[p] \in Seq(T) /\ \A i \in 1..p : Begins(f[i], f[p])
    <3>1. p \notin Bad
      BY <1>1, <2>1
    <3> QED
      BY <3>1
  <2>3. \A i \in 1..p : f[i] \in Seq(T)
    <3>1. \A i \in 1..p : i \notin Bad /\ i \in 1..k
      BY <1>1, <2>1
    <3> QED
      BY <3>1
  <2>4. PICK t \in Seq(T) : t = s[j]
    BY <1>2
  <2>5. f[j] = f[p] \o t
    <3>1. j - 1 = p
      BY <2>1
    <3> QED
      BY <1>3, <1>5, <2>4, <3>1
  <2>6. f[j] \in Seq(T)
    BY <2>2, <2>5, ConcatProperties
  <2>7. \A i \in 1..p : Begins(f[i], f[j])
    BY <2>2, <2>3, <2>5, BeginsMore
  <2>8. Begins(f[j], f[j])
    BY <2>6, BeginsMore
  <2>9. \A i \in 1..j : i = j \/ i \in 1..p
    BY <2>1
  <2> QED
    BY <1>2, <2>6, <2>7, <2>8, <2>9
<1> QED
  BY <1>4, <1>5

\* What follows a beginning.
LEMMA PieceAfter ==
    ASSUME NEW T, NEW a \in Seq(T), NEW t \in Seq(T), NEW w \in Seq(T), Begins(a \o t, w)
    PROVE  /\ Len(a) + Len(t) <= Len(w)
           /\ SubSeq(w, Len(a) + 1, Len(a) + Len(t)) = t
<1>1. Len(a) \in Nat /\ Len(t) \in Nat /\ Len(w) \in Nat
  OBVIOUS
<1>2. Len(a \o t) = Len(a) + Len(t) /\ \A i \in 1..Len(t) : (a \o t)[Len(a) + i] = t[i]
  OBVIOUS
<1>3. Len(a) + Len(t) <= Len(w)
  BY <1>2 DEF Begins
<1>4. \A i \in 1..(Len(a) + Len(t)) : (a \o t)[i] = w[i]
  BY <1>1, <1>2, <1>3 DEF Begins
<1>5. \A i \in 1..Len(t) : w[Len(a) + i] = t[i]
  BY <1>1, <1>2, <1>4
<1>6. PICK u : u = SubSeq(w, Len(a) + 1, Len(a) + Len(t))
  OBVIOUS
<1>7. u \in Seq(T) /\ Len(u) = Len(t) /\ \A i \in 1..Len(t) : u[i] = w[Len(a) + i]
  BY <1>1, <1>3, <1>6
<1> QED
  BY <1>3, <1>5, <1>6, <1>7, SeqEqual

LEMMA WholeIsCut ==
    ASSUME NEW T, NEW k \in Nat \ {0}, NEW s \in [1..k -> Seq(T)]
    PROVE  FlattenSeq(s) \in Seq(T) /\ \E cut : Cuts(s, k, FlattenSeq(s), cut)
<1>1. PICK f : Joined(s, k, f) /\ FlattenSeq(s) = f[k]
  BY FlattenJoins
<1>2. \A j \in 1..k : f[j] \in Seq(T) /\ \A i \in 1..j : Begins(f[i], f[j])
  BY <1>1, JoinedBegins
<1>3. \A j \in 1..k : f[j] = IF j = 1 THEN s[j] ELSE f[j - 1] \o s[j]
  BY <1>1 DEF Joined
<1>4. PICK w \in Seq(T) : w = f[k] /\ \A i \in 1..k : Begins(f[i], w)
  BY <1>2
<1>5. PICK cut : cut = [i \in 0..k |-> IF i = 0 THEN 0 ELSE Len(f[i])]
  OBVIOUS
<1>6. \A j \in 1..k : Len(f[j]) \in Nat
  BY <1>2
<1>7. cut \in [0..k -> Nat] /\ cut[0] = 0 /\ cut[k] = Len(w)
  BY <1>4, <1>5, <1>6
<1>8. ASSUME NEW i \in 1..k
      PROVE  /\ cut[i] = cut[i - 1] + Len(s[i])
             /\ cut[i] <= Len(w)
             /\ SubSeq(w, cut[i - 1] + 1, cut[i]) = s[i]
  <2>1. PICK a \in Seq(T) : f[i] = a \o s[i] /\ cut[i - 1] = Len(a)
    <3>1. CASE i = 1
      <4>1. s[i] \in Seq(T) /\ f[i] = s[i]
        BY <1>3, <3>1
      <4>2. PICK a : a = <<>>
        OBVIOUS
      <4>3. a \in Seq(T) /\ Len(a) = 0 /\ a \o s[i] = s[i]
        BY <4>1, <4>2, ConcatEmptySeq, EmptySeq
      <4>4. cut[i - 1] = 0
        BY <1>5, <3>1
      <4> QED
        BY <4>1, <4>3, <4>4
    <3>2. CASE i # 1
      <4>1. i - 1 \in 1..k /\ i - 1 \in 0..k /\ i - 1 # 0
        BY <3>2
      <4>2. f[i - 1] \in Seq(T)
        BY <1>2, <4>1
      <4>3. f[i] = f[i - 1] \o s[i] /\ cut[i - 1] = Len(f[i - 1])
        BY <1>3, <1>5, <3>2, <4>1
      <4> QED
        BY <4>2, <4>3
    <3> QED
      BY <3>1, <3>2
  <2>2. PICK t \in Seq(T) : t = s[i]
    OBVIOUS
  <2>3. cut[i] = Len(a) + Len(t)
    <3>1. cut[i] = Len(f[i])
      BY <1>5
    <3>2. Len(a \o t) = Len(a) + Len(t)
      BY ConcatProperties
    <3> QED
      BY <2>1, <2>2, <3>1, <3>2
  <2>4. Begins(a \o t, w)
    BY <1>4, <2>1, <2>2
  <2>5. Len(a) + Len(t) <= Len(w) /\ SubSeq(w, Len(a) + 1, Len(a) + Len(t)) = t
    BY <2>4, PieceAfter
  <2> QED
    BY <2>1, <2>2, <2>3, <2>5
<1>9. Cuts(s, k, w, cut)
  BY <1>7, <1>8 DEF Cuts
<1> QED
  BY <1>1, <1>4, <1>9

-----------------------------------------------------------------------------
(***************************************************************************)
(* Records.                                                                *)
(***************************************************************************)

\* A record: data, delimiter, padding.
Padded(data, delimiter, n) == data \o <<delimiter>> \o Zeros(n)

Delimiter(i, k) == IF i < k THEN 1 ELSE 2

\* The records are the message cut at `ends`, each with its delimiter, and all
\* but the last of them fill `rs`.
Encoded(m, recs, ends, rs) ==
    LET k == Len(recs)
    IN  /\ m \in Seq(Octets) /\ rs \in RecordSizes
        /\ k \in Nat \ {0} /\ DOMAIN recs = 1..k
        /\ ends \in [0..k -> 0..Len(m)] /\ ends[0] = 0 /\ ends[k] = Len(m)
        /\ \A i \in 1..k :
              /\ ends[i - 1] <= ends[i]
              /\ \E n \in Nat :
                    recs[i] = Padded(SubSeq(m, ends[i - 1] + 1, ends[i]), Delimiter(i, k), n)
              /\ Len(recs[i]) \in Nat \ {0} /\ Len(recs[i]) + TagLen <= rs
              /\ i < k => Len(recs[i]) + TagLen = rs

LEMMA PaddedFacts ==
    ASSUME NEW data \in Seq(Octets), NEW d \in {1, 2}, NEW n \in Nat,
           NEW pt, pt = Padded(data, d, n)
    PROVE  /\ Len(pt) = Len(data) + 1 + n /\ DOMAIN pt = 1..Len(pt)
           /\ SubSeq(pt, 1, Len(data)) = data
           /\ pt[Len(data) + 1] = d
           /\ \A i \in DOMAIN pt : i > Len(data) + 1 => pt[i] = 0
<1>1. /\ data \in Seq(Nat) /\ Len(data) \in Nat
      /\ <<d>> \in Seq(Nat) /\ Len(<<d>>) = 1 /\ <<d>>[1] = d
  <2>1. data \in Seq(Nat)
    BY EncodingAssumption, SeqMonotonic
  <2> QED
    BY <2>1
<1>2. PICK z \in Seq(Nat) : z = Zeros(n) /\ Len(z) = n /\ \A i \in 1..n : z[i] = 0
  <2>1. PICK z : z = [i \in 1..n |-> 0]
    OBVIOUS
  <2>2. z \in Seq(Nat) /\ Len(z) = n /\ \A i \in 1..n : z[i] = 0
    BY <2>1
  <2> QED
    BY <2>1, <2>2 DEF Zeros
<1>3. PICK front \in Seq(Nat) :
          /\ front = data \o <<d>> /\ Len(front) = Len(data) + 1
          /\ front[Len(data) + 1] = d /\ \A i \in 1..Len(data) : front[i] = data[i]
  <2>1. PICK front : front = data \o <<d>>
    OBVIOUS
  <2>2. front \in Seq(Nat) /\ Len(front) = Len(data) + 1
    BY <1>1, <2>1, ConcatProperties
  <2>3. front[Len(data) + 1] = d /\ \A i \in 1..Len(data) : front[i] = data[i]
    BY <1>1, <2>1, ConcatProperties
  <2> QED
    BY <2>1, <2>2, <2>3
<1>4. /\ pt \in Seq(Nat) /\ Len(pt) = Len(front) + n
      /\ \A i \in 1..(Len(front) + n) :
            pt[i] = IF i <= Len(front) THEN front[i] ELSE z[i - Len(front)]
  <2>1. pt = front \o z
    BY <1>2, <1>3 DEF Padded
  <2> QED
    BY <1>2, <2>1, ConcatProperties
<1>5. \A i \in 1..Len(data) : pt[i] = data[i]
  BY <1>1, <1>3, <1>4
<1>6. SubSeq(pt, 1, Len(data)) = data
  <2>1. PICK u : u = SubSeq(pt, 1, Len(data))
    OBVIOUS
  <2>2. u \in Seq(Nat) /\ Len(u) = Len(data) /\ \A i \in 1..Len(data) : u[i] = pt[i]
    BY <1>1, <1>3, <1>4, <2>1
  <2> QED
    BY <1>1, <1>5, <2>1, <2>2, SeqEqual
<1>7. \A i \in 1..Len(pt) : i > Len(data) + 1 => i - Len(front) \in 1..n /\ ~(i <= Len(front))
  BY <1>1, <1>3, <1>4
<1>8. \A i \in 1..Len(pt) : i > Len(data) + 1 => pt[i] = 0
  BY <1>2, <1>4, <1>7
<1> QED
  BY <1>1, <1>3, <1>4, <1>6, <1>8

\* What a reader gets out of the record that is next.
LEMMA OpenedRecord ==
    ASSUME NEW ends, NEW rs, Encoded(message, records, ends, rs), NEW n \in Nat, NEW record, Opens(record, n)
    PROVE  /\ n + 1 \in 1..Len(records)
           /\ open_record(record, n).error = "none"
           /\ open_record(record, n).data = SubSeq(message, ends[n] + 1, ends[n + 1])
           /\ open_record(record, n).delimiter = Delimiter(n + 1, Len(records))
<1>1. PICK k \in Nat \ {0} : k = Len(records)
  BY DEF Encoded
<1>2. n + 1 \in 1..k
  BY <1>1 DEF Opens, Encoded
<1>3. PICK i \in 1..k : i = n + 1 /\ i - 1 = n
  BY <1>2
<1>4. PICK pad \in Nat :
          records[i] = Padded(SubSeq(message, ends[i - 1] + 1, ends[i]), Delimiter(i, k), pad)
  BY <1>1, <1>3 DEF Encoded
<1>5. PICK data : data = SubSeq(message, ends[n] + 1, ends[n + 1])
  OBVIOUS
<1>6. data \in Seq(Octets)
  <2>1. message \in Seq(Octets) /\ ends \in [0..k -> 0..Len(message)]
    BY <1>1 DEF Encoded
  <2>2. n \in 0..k /\ n + 1 \in 0..k
    BY <1>2
  <2>3. ends[n] \in 0..Len(message) /\ ends[n + 1] \in 0..Len(message)
    BY <2>1, <2>2
  <2> QED
    BY <1>5, <2>1, <2>3
<1>7. PICK d \in {1, 2} : d = Delimiter(n + 1, k)
  BY DEF Delimiter
<1>8. PICK pt : pt = records[n + 1]
  OBVIOUS
<1>9. pt = Padded(data, d, pad)
  BY <1>3, <1>4, <1>5, <1>7, <1>8
<1>10. /\ Len(pt) = Len(data) + 1 + pad /\ DOMAIN pt = 1..Len(pt)
       /\ SubSeq(pt, 1, Len(data)) = data
       /\ pt[Len(data) + 1] = d
       /\ \A j \in DOMAIN pt : j > Len(data) + 1 => pt[j] = 0
  BY <1>6, <1>9, PaddedFacts
<1>11. PICK pos \in Nat : pos = Len(data) + 1
  BY <1>6
<1>12. Max({0} \cup {j \in DOMAIN pt : pt[j] # 0}) = pos
  <2>1. PICK S : S = {0} \cup {j \in DOMAIN pt : pt[j] # 0}
    OBVIOUS
  <2>2. S \subseteq Nat /\ pos \in S /\ \A j \in S : pos >= j
    BY <1>6, <1>10, <1>11, <2>1
  <2>3. \A j \in S : (\A y \in S : j >= y) => j = pos
    BY <2>2
  <2> QED
    BY <2>1, <2>2, <2>3 DEF Max
<1>13. open_record(record, n) = [error |-> "none", data |-> SubSeq(pt, 1, pos - 1), delimiter |-> pt[pos]]
  <2>1. pos # 0
    BY <1>6, <1>11
  <2> QED
    BY <1>8, <1>12, <2>1 DEF open_record
<1>14. pos - 1 = Len(data)
  BY <1>6, <1>11
<1>15. /\ open_record(record, n).error = "none" /\ open_record(record, n).data = SubSeq(pt, 1, pos - 1)
       /\ open_record(record, n).delimiter = pt[pos]
  BY <1>13
<1> QED
  BY <1>1, <1>2, <1>5, <1>7, <1>10, <1>11, <1>14, <1>15

-----------------------------------------------------------------------------
(***************************************************************************)
(* A sender.                                                               *)
(***************************************************************************)

LEMMA MessageIsSeq ==
    ASSUME NEW m \in Messages
    PROVE  m \in Seq(Octets)
BY EncodingAssumption DEF Messages, BoundedSeq, SeqOf

\* The part of a message between two places.
LEMMA PartOf ==
    ASSUME NEW T, NEW m \in Seq(T), NEW a \in 0..Len(m), NEW b \in 0..Len(m), a <= b
    PROVE  SubSeq(m, a + 1, b) \in Seq(T) /\ Len(SubSeq(m, a + 1, b)) = b - a
<1>1. Len(m) \in Nat
  OBVIOUS
<1>2. PICK u : u = SubSeq(m, a + 1, b)
  OBVIOUS
<1> QED
  BY <1>1, <1>2

\* A record that has room for its delimiter and padding.
LEMMA RecordLength ==
    ASSUME NEW data \in Seq(Octets), NEW d \in {1, 2}, NEW n \in Nat, NEW rs \in RecordSizes,
           NEW room \in Int, room = rs - TagLen - 1 - Len(data), n <= room
    PROVE  /\ Len(Padded(data, d, n)) \in Nat \ {0}
           /\ Len(Padded(data, d, n)) + TagLen <= rs
           /\ n = room => Len(Padded(data, d, n)) + TagLen = rs
<1>1. PICK pt : pt = Padded(data, d, n)
  OBVIOUS
<1>2. Len(pt) = Len(data) + 1 + n
  BY <1>1, PaddedFacts
<1>3. Len(data) \in Nat /\ rs \in Nat /\ TagLen \in Nat
  BY EncodingAssumption
<1> QED
  BY <1>1, <1>2, <1>3

LEMMA EncryptEncodes ==
    ASSUME NEW m \in Messages, NEW rs \in RecordSizes, NEW recs \in encrypt(m, rs)
    PROVE  \E ends : Encoded(m, recs, ends, rs)
<1>1. m \in Seq(Octets) /\ Len(m) \in Nat
  BY MessageIsSeq
<1>2. ~(Len(m) + 1 + TagLen > rs) /\ recs = <<Append(m, 2)>>
  BY DEF encrypt
<1>3. PICK pt : pt = Append(m, 2)
  OBVIOUS
<1>4. pt = Padded(m, 2, 0)
  <2>1. Zeros(0) = <<>>
    BY DEF Zeros
  <2>2. m \in Seq(Nat)
    BY <1>1, EncodingAssumption, SeqMonotonic
  <2>7. PICK two : two = <<2>>
    OBVIOUS
  <2>6. two \in Seq(Nat) /\ two = <<2>>
    BY <2>7
  <2>3. PICK front \in Seq(Nat) : front = m \o <<2>>
    BY <2>2, <2>6, ConcatProperties
  <2>4. front \o <<>> = front
    BY ConcatEmptySeq
  <2>5. pt = front
    BY <1>3, <2>2, <2>3
  <2> QED
    BY <2>1, <2>3, <2>4, <2>5 DEF Padded
<1>5. PICK ends : ends = [i \in 0..1 |-> IF i = 0 THEN 0 ELSE Len(m)]
  OBVIOUS
<1>6. ends \in [0..1 -> 0..Len(m)] /\ ends[0] = 0 /\ ends[1] = Len(m)
  BY <1>1, <1>5
<1>7. SubSeq(m, 1, Len(m)) = m
  BY <1>1, SubSeqFull
<1>8. Len(pt) \in Nat \ {0} /\ Len(pt) + TagLen <= rs
  <2>1. rs \in Nat /\ TagLen \in Nat
    BY EncodingAssumption
  <2>2. PICK room : room = rs - TagLen - 1 - Len(m)
    OBVIOUS
  <2>3. room \in Int /\ 0 <= room
    BY <1>1, <1>2, <2>1, <2>2
  <2> QED
    BY <1>1, <1>4, <2>2, <2>3, RecordLength
<1>9. Len(recs) = 1 /\ DOMAIN recs = 1..1 /\ recs[1] = pt
  BY <1>2, <1>3
<1>10. ASSUME NEW i \in 1..1
       PROVE  /\ ends[i - 1] <= ends[i]
              /\ \E n \in Nat :
                    recs[i] = Padded(SubSeq(m, ends[i - 1] + 1, ends[i]), Delimiter(i, 1), n)
              /\ Len(recs[i]) \in Nat \ {0} /\ Len(recs[i]) + TagLen <= rs
              /\ i < 1 => Len(recs[i]) + TagLen = rs
  <2>1. i = 1 /\ i - 1 = 0 /\ Delimiter(i, 1) = 2
    BY DEF Delimiter
  <2>2. SubSeq(m, ends[0] + 1, ends[1]) = m
    BY <1>6, <1>7
  <2>3. recs[i] = Padded(SubSeq(m, ends[i - 1] + 1, ends[i]), Delimiter(i, 1), 0)
    BY <1>4, <1>9, <2>1, <2>2
  <2>4. ends[i - 1] <= ends[i]
    BY <1>1, <1>6, <2>1
  <2>5. recs[i] = pt
    BY <1>9, <2>1
  <2> QED
    BY <1>8, <2>1, <2>3, <2>4, <2>5
<1> QED
  BY <1>1, <1>6, <1>9, <1>10 DEF Encoded

LEMMA SplitEncodes ==
    ASSUME NEW m \in Messages, NEW rs \in RecordSizes, NEW recs \in Encodings(m, rs)
    PROVE  \E ends : Encoded(m, recs, ends, rs)
<1>1. m \in Seq(Octets) /\ Len(m) \in Nat /\ rs \in Nat /\ TagLen \in Nat
  BY MessageIsSeq, EncodingAssumption
<1>2. PICK cut \in Splits(m), pad \in 0..MaxPadding :
          /\ recs = [i \in DOMAIN cut |->
                LET data == DataOf(m, cut, i)
                    room == rs - TagLen - 1 - Len(data)
                IN IF room < 0 THEN <<>>
                   ELSE IF i < Len(cut) THEN data \o <<1>> \o Zeros(room)
                   ELSE data \o <<2>> \o Zeros(IF pad < room THEN pad ELSE room)]
          /\ \A i \in DOMAIN recs : recs[i] # <<>>
  BY DEF Encodings
<1>3. PICK k \in Nat \ {0} :
          /\ cut \in [1..k -> 0..Len(m)] /\ Len(cut) = k /\ DOMAIN cut = 1..k
          /\ cut[k] = Len(m) /\ \A i \in 2..k : cut[i - 1] <= cut[i]
  <2>1. PICK k \in 1..MaxRecords : cut \in [1..k -> 0..Len(m)]
    BY <1>2 DEF Splits
  <2>2. k \in Nat \ {0}
    BY EncodingAssumption
  <2>3. Len(cut) = k /\ DOMAIN cut = 1..k
    BY <2>1, <2>2
  <2> QED
    BY <1>2, <2>1, <2>2, <2>3 DEF Splits
<1>4. PICK ends : ends = [i \in 0..k |-> IF i = 0 THEN 0 ELSE cut[i]]
  OBVIOUS
<1>5. ends \in [0..k -> 0..Len(m)] /\ ends[0] = 0 /\ ends[k] = Len(m)
  BY <1>1, <1>3, <1>4
<1>6. Len(recs) = k /\ DOMAIN recs = 1..k
  <2> DEFINE Record(i) ==
          LET data == DataOf(m, cut, i)
              room == rs - TagLen - 1 - Len(data)
          IN IF room < 0 THEN <<>>
             ELSE IF i < Len(cut) THEN data \o <<1>> \o Zeros(room)
             ELSE data \o <<2>> \o Zeros(IF pad < room THEN pad ELSE room)
  <2>1. recs = [i \in 1..k |-> Record(i)]
    BY <1>2, <1>3
  <2> HIDE DEF Record
  <2>2. recs \in [1..k -> {Record(i) : i \in 1..k}]
    BY <2>1
  <2> QED
    BY <2>2
<1>7. ASSUME NEW i \in 1..k
      PROVE  /\ ends[i - 1] <= ends[i]
             /\ \E n \in Nat :
                   recs[i] = Padded(SubSeq(m, ends[i - 1] + 1, ends[i]), Delimiter(i, k), n)
             /\ Len(recs[i]) \in Nat \ {0} /\ Len(recs[i]) + TagLen <= rs
             /\ i < k => Len(recs[i]) + TagLen = rs
  <2>1. i - 1 \in 0..k /\ i \in 0..k /\ ends[i] = cut[i] /\ (i # 1 => ends[i - 1] = cut[i - 1])
    BY <1>3, <1>4
  <2>2. ends[i - 1] <= ends[i]
    BY <1>1, <1>3, <1>5, <2>1
  <2>3. PICK a \in 0..Len(m), b \in 0..Len(m) : a = ends[i - 1] /\ b = ends[i]
    BY <1>5, <2>1
  <2>4. PICK data : data = SubSeq(m, a + 1, b)
    OBVIOUS
  <2>5. data \in Seq(Octets) /\ Len(data) \in Nat
    <3>1. a <= b
      BY <2>2, <2>3
    <3>2. data \in Seq(Octets)
      BY <1>1, <2>4, <3>1, PartOf
    <3> QED
      BY <3>2
  <2>6. DataOf(m, cut, i) = data
    <3>1. IF i = 1 THEN a + 1 = 1 ELSE cut[i - 1] + 1 = a + 1
      BY <1>5, <2>1, <2>3
    <3>2. cut[i] = b
      BY <2>1, <2>3
    <3> QED
      BY <2>4, <3>1, <3>2 DEF DataOf
  <2>14. PICK room : room = rs - TagLen - 1 - Len(data)
    OBVIOUS
  <2>7. room \in Int /\ room = rs - TagLen - 1 - Len(data)
    BY <1>1, <2>5, <2>14
  <2>8. recs[i] = IF room < 0 THEN <<>>
                      ELSE IF i < k THEN data \o <<1>> \o Zeros(room)
                      ELSE data \o <<2>> \o Zeros(IF pad < room THEN pad ELSE room)
    <3>1. recs[i] = LET data1 == DataOf(m, cut, i)
                        room1 == rs - TagLen - 1 - Len(data1)
                    IN IF room1 < 0 THEN <<>>
                       ELSE IF i < k THEN data1 \o <<1>> \o Zeros(room1)
                       ELSE data1 \o <<2>> \o Zeros(IF pad < room1 THEN pad ELSE room1)
      BY <1>2, <1>3
    <3> QED
      BY <2>6, <2>14, <3>1
  <2>9. 0 <= room
    <3>1. recs[i] # <<>>
      BY <1>2, <1>6
    <3> QED
      BY <2>7, <2>8, <3>1
  <2>15. pad \in Nat
    BY <1>2, EncodingAssumption
  <2>16. PICK n : n = IF i < k THEN room ELSE IF pad < room THEN pad ELSE room
    OBVIOUS
  <2>10. n \in Nat /\ n <= room /\ (i < k => n = room)
    BY <2>7, <2>9, <2>15, <2>16
  <2>11. recs[i] = Padded(data, Delimiter(i, k), n)
    <3>1. ~(room < 0)
      BY <2>7, <2>9
    <3>2. CASE i < k
      BY <2>8, <2>16, <3>1, <3>2 DEF Padded, Delimiter
    <3>3. CASE ~(i < k)
      BY <2>8, <2>16, <3>1, <3>3 DEF Padded, Delimiter
    <3> QED
      BY <3>2, <3>3
  <2>12. PICK d \in {1, 2} : d = Delimiter(i, k)
    BY DEF Delimiter
  <2>13. /\ Len(recs[i]) \in Nat \ {0} /\ Len(recs[i]) + TagLen <= rs
         /\ i < k => Len(recs[i]) + TagLen = rs
    BY <2>5, <2>7, <2>10, <2>11, <2>12, RecordLength
  <2>17. recs[i] = Padded(SubSeq(m, ends[i - 1] + 1, ends[i]), Delimiter(i, k), n)
    BY <2>3, <2>4, <2>11
  <2> QED
    BY <2>2, <2>10, <2>13, <2>17
<1>8. Encoded(m, recs, ends, rs)
  BY <1>1, <1>3, <1>5, <1>6, <1>7 DEF Encoded
<1> QED
  BY <1>8

-----------------------------------------------------------------------------
(***************************************************************************)
(* A body on its way to its reader.                                        *)
(***************************************************************************)

\* The sealed records of a body, and its octets as they are sent.
Pieces(recs) == [i \in 1..Len(recs) |-> Sealed(recs, i)]

OnTheWire(recs) == Wire(recs, InOrder(recs))

\* What was sent, where its data is cut into records, and its octets.
Sent(ends, rs, cut) ==
    /\ Encoded(message, records, ends, rs)
    /\ Cuts(Pieces(records), Len(records), OnTheWire(records), cut)
    /\ OnTheWire(records) \in Seq(Nat \X Nat)

\* How far it is read.
ReadSoFar(ends, rs, cut) ==
    /\ outcome = "none" =>
          /\ seq \in Nat /\ seq + 1 \in 1..Len(records)
          /\ out = SubSeq(message, 1, ends[seq])
          /\ reader = "webpush" => seq = 0
          /\ ~damaged =>
                body = [complete |-> TRUE, rs |-> rs,
                        data |-> SubSeq(OnTheWire(records), cut[seq] + 1, Len(OnTheWire(records)))]
    /\ outcome = "Ok" => out = message
    /\ outcome \notin {"none", "Ok"} => damaged \/ (reader = "webpush" /\ Len(records) > 1)

EncodingInv ==
    /\ outcome = "unsent" => seq = 0 /\ out = <<>> /\ ~damaged
    /\ outcome # "unsent" => \E ends, rs, cut : Sent(ends, rs, cut) /\ ReadSoFar(ends, rs, cut)

\* The octets of a body in order are cut into its sealed records.
LEMMA SendingIsCut ==
    ASSUME NEW m, NEW recs, NEW ends, NEW rs, Encoded(m, recs, ends, rs)
    PROVE  /\ OnTheWire(recs) \in Seq(Nat \X Nat)
           /\ \E cut : Cuts(Pieces(recs), Len(recs), OnTheWire(recs), cut)
<1>1. PICK k \in Nat \ {0} : k = Len(recs) /\ DOMAIN recs = 1..k
  BY DEF Encoded
<1>2. TagLen \in Nat /\ \A i \in 1..k : Len(recs[i]) \in Nat
  BY <1>1, EncodingAssumption DEF Encoded
<1>3. ASSUME NEW i \in 1..k
      PROVE  Sealed(recs, i) \in Seq(Nat \X Nat)
  <2>1. PICK n \in Nat : n = Len(recs[i]) + TagLen
    BY <1>2
  <2>2. [j \in 1..n |-> <<i, j>>] \in Seq(Nat \X Nat)
    OBVIOUS
  <2> QED
    BY <2>1, <2>2 DEF Sealed
<1>4. PICK s : s = Pieces(recs)
  OBVIOUS
<1>5. s \in [1..k -> Seq(Nat \X Nat)]
  BY <1>1, <1>3, <1>4 DEF Pieces
<1>6. OnTheWire(recs) = FlattenSeq(s)
  <2>1. PICK order : order = InOrder(recs)
    OBVIOUS
  <2>2. DOMAIN order = 1..k /\ \A j \in 1..k : order[j] = j
    BY <1>1, <2>1 DEF InOrder
  <2>3. [j \in DOMAIN order |-> IF order[j] = 0 THEN Foreign ELSE Sealed(recs, order[j])] = s
    BY <1>1, <1>4, <2>2 DEF Pieces
  <2> QED
    BY <2>1, <2>3 DEF OnTheWire, Wire
<1> QED
  BY <1>1, <1>4, <1>5, <1>6, WholeIsCut

\* A sealed record takes its octets and its tag.
LEMMA SealedLength ==
    ASSUME NEW m, NEW recs, NEW ends, NEW rs, Encoded(m, recs, ends, rs), NEW i \in 1..Len(recs)
    PROVE  /\ Len(Sealed(recs, i)) \in Nat \ {0} /\ Len(Sealed(recs, i)) <= rs
           /\ i < Len(recs) => Len(Sealed(recs, i)) = rs
<1>1. Len(recs[i]) \in Nat \ {0} /\ TagLen \in Nat
  BY EncodingAssumption DEF Encoded
<1>2. PICK n : n = Len(recs[i]) + TagLen
  OBVIOUS
<1>3. n \in Nat \ {0} /\ n <= rs /\ (i < Len(recs) => n = rs)
  BY <1>1, <1>2 DEF Encoded
<1>4. Len([j \in 1..n |-> <<i, j>>]) = n
  <2>1. [j \in 1..n |-> <<i, j>>] \in [1..n -> {i} \X (1..n)]
    OBVIOUS
  <2> QED
    BY <1>3, <2>1
<1> QED
  BY <1>2, <1>3, <1>4 DEF Sealed

\* The `n` elements of a sequence that follow the first `a`.
PartAfter(w, a, n, v) == a + n <= Len(w) /\ v = SubSeq(w, a + 1, a + n)

LEMMA PartLength ==
    ASSUME NEW T, NEW w \in Seq(T), NEW a \in Nat, NEW n \in Nat, NEW v, PartAfter(w, a, n, v)
    PROVE  v \in Seq(T) /\ Len(v) = n /\ \A i \in 1..n : v[i] = w[a + i]
<1>1. Len(w) \in Nat /\ a + n <= Len(w) /\ v = SubSeq(w, a + 1, a + n)
  BY DEF PartAfter
<1>2. a + 1 \in 1..(Len(w) + 1) /\ a + n \in (a + 1 - 1)..Len(w)
  BY <1>1
<1>3. v \in Seq(T) /\ Len(v) = n
  BY <1>1, <1>2
<1>4. \A i \in 1..n : v[i] = w[a + i]
  BY <1>1, <1>2
<1> QED
  BY <1>3, <1>4

\* `n` elements and then `left` are what follows the first `a` of a sequence.
Following(w, a, n, left, data) ==
    a + n + left = Len(w) /\ data = SubSeq(w, a + 1, Len(w))

\* What is taken off the front of the rest of a sequence, and what is left.
LEMMA TakenOff ==
    ASSUME NEW T, NEW w \in Seq(T), NEW a \in Nat, NEW n \in Nat, NEW left \in Nat,
           NEW data, Following(w, a, n, left, data)
    PROVE  /\ Len(data) = n + left
           /\ SubSeq(data, 1, n) = SubSeq(w, a + 1, a + n)
           /\ SubSeq(data, n + 1, Len(data)) = SubSeq(w, a + n + 1, Len(w))
           /\ Len(SubSeq(data, n + 1, Len(data))) = left
<1>0. data = SubSeq(w, a + 1, Len(w)) /\ a + n + left = Len(w)
  BY DEF Following
<1>1. Len(w) \in Nat /\ a + (n + left) = Len(w) /\ (a + n) + left = Len(w)
  BY <1>0
<1>2. data \in Seq(T) /\ Len(data) = n + left /\ \A i \in 1..(n + left) : data[i] = w[a + i]
  <2>1. PICK all \in Nat : all = n + left /\ a + all = Len(w)
    BY <1>1
  <2> QED
    <3>1. PartAfter(w, a, all, data)
      BY <1>0, <1>1, <2>1 DEF PartAfter
    <3>2. data \in Seq(T) /\ Len(data) = all /\ \A i \in 1..all : data[i] = w[a + i]
      BY <3>1, PartLength
    <3> QED
      BY <2>1, <3>2
<1>3. PICK v : v = SubSeq(w, a + 1, a + n)
  OBVIOUS
<1>4. v \in Seq(T) /\ Len(v) = n /\ \A i \in 1..n : v[i] = w[a + i]
  <2>1. a + n <= Len(w)
    BY <1>1
  <2> QED
    <3>1. PartAfter(w, a, n, v)
      BY <1>3, <2>1 DEF PartAfter
    <3> QED
      BY <3>1, PartLength
<1>5. PICK u : u = SubSeq(w, a + n + 1, Len(w))
  OBVIOUS
<1>6. u \in Seq(T) /\ Len(u) = left /\ \A i \in 1..left : u[i] = w[a + n + i]
  <2>1. PICK b \in Nat : b = a + n
    OBVIOUS
  <2>2. b + left = Len(w) /\ b + left <= Len(w)
    BY <1>1, <2>1
  <2>3. u = SubSeq(w, b + 1, b + left)
    BY <1>5, <2>1, <2>2
  <2>4. u \in Seq(T) /\ Len(u) = left /\ \A i \in 1..left : u[i] = w[b + i]
    <3>1. PartAfter(w, b, left, u)
      BY <2>2, <2>3 DEF PartAfter
    <3> QED
      BY <3>1, PartLength
  <2> QED
    BY <2>1, <2>4
<1>7. PICK x : x = SubSeq(data, 1, n)
  OBVIOUS
<1>8. x \in Seq(T) /\ Len(x) = n /\ \A i \in 1..n : x[i] = data[i]
  <2>1. PICK zero \in Nat : zero = 0
    OBVIOUS
  <2>2. PartAfter(data, zero, n, x)
    BY <1>2, <1>7, <2>1 DEF PartAfter
  <2>3. x \in Seq(T) /\ Len(x) = n /\ \A i \in 1..n : x[i] = data[zero + i]
    BY <1>2, <2>2, PartLength
  <2>4. \A i \in 1..n : zero + i = i
    BY <2>1
  <2> QED
    BY <2>3, <2>4
<1>9. PICK y : y = SubSeq(data, n + 1, Len(data))
  OBVIOUS
<1>10. y \in Seq(T) /\ Len(y) = left /\ \A i \in 1..left : y[i] = data[n + i]
  <2>1. n + left = Len(data) /\ n + left <= Len(data)
    BY <1>2
  <2> QED
    <3>1. PartAfter(data, n, left, y)
      BY <1>9, <2>1 DEF PartAfter
    <3> QED
      BY <1>2, <3>1, PartLength
<1>11. x = v
  <2>1. \A i \in 1..n : i \in 1..(n + left)
    OBVIOUS
  <2> QED
    BY <1>2, <1>4, <1>8, <2>1, SeqEqual
<1>12. y = u
  <2>1. \A i \in 1..left : n + i \in 1..(n + left) /\ a + (n + i) = a + n + i
    OBVIOUS
  <2> QED
    <3>1. ASSUME NEW i \in 1..left
          PROVE  y[i] = u[i]
      <4>1. PICK j \in 1..(n + left) : j = n + i /\ a + j = a + n + i
        BY <2>1
      <4>2. y[i] = data[j] /\ data[j] = w[a + j] /\ u[i] = w[a + n + i]
        BY <1>2, <1>6, <1>10, <4>1
      <4> QED
        BY <4>1, <4>2
    <3> QED
      BY <1>6, <1>10, <3>1, SeqEqual
<1> QED
  BY <1>2, <1>3, <1>5, <1>7, <1>9, <1>10, <1>11, <1>12

\* The next sealed record of a body, its size and its place.
LEMMA NextPiece ==
    ASSUME NEW m, NEW recs, NEW ends, NEW rs, Encoded(m, recs, ends, rs),
           NEW w \in Seq(Nat \X Nat), NEW cut, Cuts(Pieces(recs), Len(recs), w, cut),
           NEW i \in 1..Len(recs)
    PROVE  /\ rs \in Nat /\ Len(w) \in Nat /\ cut[i - 1] \in Nat /\ cut[i] \in Nat
           /\ Len(Sealed(recs, i)) \in Nat \ {0} /\ Len(Sealed(recs, i)) <= rs
           /\ cut[i] = cut[i - 1] + Len(Sealed(recs, i)) /\ cut[i] <= Len(w)
           /\ SubSeq(w, cut[i - 1] + 1, cut[i]) = Sealed(recs, i)
           /\ i = Len(recs) => cut[i] = Len(w)
           /\ i # Len(recs) => Len(Sealed(recs, i)) = rs
<1>1. PICK k \in Nat \ {0} : k = Len(recs)
  BY DEF Encoded
<1>2. rs \in Nat
  BY EncodingAssumption DEF Encoded
<1>3. i - 1 \in 0..k /\ i \in 0..k /\ i \in 1..k /\ (i # k => i < k)
  BY <1>1
<1>4. Pieces(recs)[i] = Sealed(recs, i)
  BY DEF Pieces
<1>5. /\ cut \in [0..k -> Nat] /\ cut[k] = Len(w)
      /\ cut[i] = cut[i - 1] + Len(Pieces(recs)[i]) /\ cut[i] <= Len(w)
      /\ SubSeq(w, cut[i - 1] + 1, cut[i]) = Pieces(recs)[i]
  BY <1>1, <1>3 DEF Cuts
<1>6. cut[i - 1] \in Nat /\ cut[i] \in Nat /\ Len(w) \in Nat
  BY <1>3, <1>5
<1>7. /\ Len(Sealed(recs, i)) \in Nat \ {0} /\ Len(Sealed(recs, i)) <= rs
      /\ i < Len(recs) => Len(Sealed(recs, i)) = rs
  BY SealedLength
<1> QED
  BY <1>1, <1>2, <1>3, <1>4, <1>5, <1>6, <1>7

\* What is left from record i on, and how much of it a reader takes.
Takes(w, cut, i, rs, data, take) ==
    data = SubSeq(w, cut[i - 1] + 1, Len(w)) /\ take = IF Len(data) < rs THEN Len(data) ELSE rs

\* What it takes is record i, and nothing is left after the last.
TakesRecord(recs, w, cut, i, data, take) ==
    /\ data # <<>>
    /\ SubSeq(data, 1, take) = Sealed(recs, i)
    /\ SubSeq(data, take + 1, Len(data)) = SubSeq(w, cut[i] + 1, Len(w))
    /\ SubSeq(data, take + 1, Len(data)) = <<>> <=> i = Len(recs)

\* A reader that takes the next rs octets takes the next sealed record, and
\* nothing is left after the last.
LEMMA NextRecord ==
    ASSUME NEW m, NEW recs, NEW ends, NEW rs, Encoded(m, recs, ends, rs),
           NEW w \in Seq(Nat \X Nat), NEW cut, Cuts(Pieces(recs), Len(recs), w, cut),
           NEW i \in 1..Len(recs), NEW data, NEW take, Takes(w, cut, i, rs, data, take)
    PROVE  TakesRecord(recs, w, cut, i, data, take)
<1>1. PICK k \in Nat \ {0} : k = Len(recs)
  BY DEF Encoded
<1>11. /\ rs \in Nat /\ Len(w) \in Nat /\ cut[i - 1] \in Nat /\ cut[i] \in Nat
       /\ Len(Sealed(recs, i)) \in Nat \ {0} /\ Len(Sealed(recs, i)) <= rs
       /\ cut[i] = cut[i - 1] + Len(Sealed(recs, i)) /\ cut[i] <= Len(w)
       /\ SubSeq(w, cut[i - 1] + 1, cut[i]) = Sealed(recs, i)
       /\ i = Len(recs) => cut[i] = Len(w)
       /\ i # Len(recs) => Len(Sealed(recs, i)) = rs
  BY NextPiece
<1>2. PICK a \in Nat, b \in Nat, size \in Nat \ {0}, long \in Nat :
          a = cut[i - 1] /\ b = cut[i] /\ size = Len(Sealed(recs, i)) /\ long = Len(w)
  BY <1>11
<1>3. /\ rs \in Nat /\ size <= rs /\ b = a + size /\ b <= long
      /\ SubSeq(w, a + 1, b) = Sealed(recs, i)
      /\ (i = k => b = long) /\ (i # k => size = rs)
  BY <1>1, <1>2, <1>11
<1>4. i # k => b < long
  <2>1. ASSUME i # k
        PROVE  b < long
    <3>1. PICK j \in 1..Len(recs) : j = i + 1 /\ j - 1 = i
      BY <1>1, <2>1
    <3>2. /\ cut[j] = cut[j - 1] + Len(Sealed(recs, j)) /\ cut[j] <= Len(w) /\ cut[j] \in Nat
          /\ Len(Sealed(recs, j)) \in Nat \ {0}
      BY NextPiece
    <3>3. PICK next \in Nat, more \in Nat \ {0} : next = cut[j] /\ more = Len(Sealed(recs, j))
      BY <3>2
    <3>4. next = b + more /\ next <= long
      BY <1>2, <3>1, <3>2, <3>3
    <3> QED
      BY <3>4
  <2> QED
    BY <2>1
<1>5. PICK left \in Nat : left = long - b
  BY <1>3
<1>6. a + size + left = long /\ a + size = b
  BY <1>3, <1>5
<1>7. ASSUME data = SubSeq(w, a + 1, long)
      PROVE  /\ Len(data) = size + left
             /\ SubSeq(data, 1, size) = SubSeq(w, a + 1, b)
             /\ SubSeq(data, size + 1, Len(data)) = SubSeq(w, b + 1, long)
             /\ Len(SubSeq(data, size + 1, Len(data))) = left
  <2>1. a + size + left = Len(w) /\ data = SubSeq(w, a + 1, Len(w))
    BY <1>2, <1>6, <1>7
  <2>2. /\ Len(data) = size + left
        /\ SubSeq(data, 1, size) = SubSeq(w, a + 1, a + size)
        /\ SubSeq(data, size + 1, Len(data)) = SubSeq(w, a + size + 1, Len(w))
        /\ Len(SubSeq(data, size + 1, Len(data))) = left
    <3>1. PICK n \in Nat : n = size
      OBVIOUS
    <3>2. Following(w, a, n, left, data)
      BY <2>1, <3>1 DEF Following
    <3>3. /\ Len(data) = n + left
          /\ SubSeq(data, 1, n) = SubSeq(w, a + 1, a + n)
          /\ SubSeq(data, n + 1, Len(data)) = SubSeq(w, a + n + 1, Len(w))
          /\ Len(SubSeq(data, n + 1, Len(data))) = left
      BY <3>2, TakenOff
    <3> QED
      BY <3>1, <3>3
  <2> QED
    BY <1>2, <1>6, <2>2
<1>8. ASSUME Len(data) = size + left, take = IF Len(data) < rs THEN Len(data) ELSE rs
      PROVE  take = size
  BY <1>1, <1>3, <1>4, <1>5, <1>8
<1>9. left = 0 <=> i = k
  BY <1>3, <1>4, <1>5
<1>10. ASSUME data = SubSeq(w, a + 1, long), take = IF Len(data) < rs THEN Len(data) ELSE rs
       PROVE  /\ data # <<>>
              /\ SubSeq(data, 1, take) = Sealed(recs, i)
              /\ SubSeq(data, take + 1, Len(data)) = SubSeq(w, b + 1, long)
              /\ SubSeq(data, take + 1, Len(data)) = <<>> <=> i = k
  <2>1. take = size
    BY <1>7, <1>8, <1>10
  <2>2. PICK rest : rest = SubSeq(data, size + 1, Len(data))
    OBVIOUS
  <2>3. Len(data) = size + left
    BY <1>7, <1>10
  <2>4. data # <<>>
    <3>1. Len(data) # 0
      BY ONLY <2>3, size \in Nat \ {0}, left \in Nat
    <3> QED
      BY ONLY <3>1
  <2>5. rest = SubSeq(w, b + 1, long) /\ Len(rest) = left /\ SubSeq(data, 1, size) = SubSeq(w, a + 1, b)
    BY <1>7, <1>10, <2>2
  <2>6. rest = <<>> <=> left = 0
    <3>1. rest \in Seq(Nat \X Nat)
      <4>2. b + left <= long /\ b + left = long
        BY <1>3, <1>5
      <4>1. b + left <= Len(w) /\ b + left = long
        BY <1>2, <4>2
      <4> QED
        <5>1. PartAfter(w, b, left, rest)
          BY <2>5, <4>1 DEF PartAfter
        <5> QED
          BY <5>1, PartLength
    <3> QED
      BY <2>5, <3>1, EmptySeq
  <2> QED
    BY <1>3, <1>9, <2>1, <2>2, <2>4, <2>5, <2>6
<1>12. data = SubSeq(w, a + 1, long) /\ take = IF Len(data) < rs THEN Len(data) ELSE rs
  BY <1>2 DEF Takes
<1> QED
  BY <1>1, <1>2, <1>10, <1>12 DEF TakesRecord

-----------------------------------------------------------------------------
(***************************************************************************)
(* The steps of a sender and a reader.                                     *)
(***************************************************************************)

\* A sender's body is one that is sent.
LEMMA SenderEncodes ==
    ASSUME NEW m \in Messages, NEW rs \in RecordSizes,
           NEW recs \in Encodings(m, rs) \cup encrypt(m, rs)
    PROVE  \E ends, cut :
              /\ Encoded(m, recs, ends, rs)
              /\ Cuts(Pieces(recs), Len(recs), OnTheWire(recs), cut)
              /\ OnTheWire(recs) \in Seq(Nat \X Nat)
<1>1. PICK ends : Encoded(m, recs, ends, rs)
  BY EncryptEncodes, SplitEncodes
<1> QED
  BY <1>1, SendingIsCut

LEMMA SealSent ==
    ASSUME EncodingInv, NEW m \in Messages, NEW rs \in RecordSizes, seal(m, rs)
    PROVE  EncodingInv'
<1>1. PICK recs \in Encodings(m, rs) \cup encrypt(m, rs) : recs = records'
  BY DEF seal
<1>2. PICK ends, cut :
          /\ Encoded(m, recs, ends, rs)
          /\ Cuts(Pieces(recs), Len(recs), OnTheWire(recs), cut)
          /\ OnTheWire(recs) \in Seq(Nat \X Nat)
  BY SenderEncodes
<1>3. /\ outcome' = "none" /\ message' = m /\ seq' = 0 /\ out' = <<>>
      /\ body' = [complete |-> TRUE, rs |-> rs, data |-> OnTheWire(recs)]
  BY <1>1 DEF seal, EncodingInv, OnTheWire
<1>4. Sent(ends, rs, cut)'
  BY <1>1, <1>2, <1>3 DEF Sent
<1>5. 0 + 1 \in 1..Len(recs) /\ ends[0] = 0 /\ cut[0] = 0
  BY <1>2 DEF Encoded, Cuts
<1>6. SubSeq(m, 1, 0) = <<>> /\ SubSeq(OnTheWire(recs), 1, Len(OnTheWire(recs))) = OnTheWire(recs)
  <2>1. m \in Seq(Octets)
    BY MessageIsSeq
  <2> QED
    BY <1>2, <2>1, SubSeqFull, SubSeqEmpty
<1>7. ReadSoFar(ends, rs, cut)'
  <2>1. seq' \in Nat /\ seq' + 1 \in 1..Len(records')
    BY <1>1, <1>3, <1>5
  <2>2. out' = SubSeq(message', 1, ends[seq'])
    BY <1>3, <1>5, <1>6
  <2>3. cut[seq'] + 1 = 1
    BY <1>3, <1>5
  <2>4. body' = [complete |-> TRUE, rs |-> rs,
                 data |-> SubSeq(OnTheWire(recs), cut[seq'] + 1, Len(OnTheWire(recs)))]
    BY <1>3, <1>6, <2>3
  <2>5. outcome' = "none" /\ seq' = 0
    BY <1>3
  <2> QED
    BY <1>1, <2>1, <2>2, <2>4, <2>5 DEF ReadSoFar
<1> QED
  BY <1>3, <1>4, <1>7 DEF EncodingInv

LEMMA UntouchedSent ==
    ASSUME NEW ends, NEW rs, NEW cut, Sent(ends, rs, cut), UNCHANGED <<message, records>>
    PROVE  Sent(ends, rs, cut)'
BY DEF Sent

LEMMA DamageSent ==
    ASSUME EncodingInv, damage
    PROVE  EncodingInv'
<1>1. /\ outcome = "none" /\ damaged' = TRUE
      /\ UNCHANGED <<message, records, reader, seq, out, outcome>>
  BY DEF damage
<1>2. PICK ends, rs, cut : Sent(ends, rs, cut) /\ ReadSoFar(ends, rs, cut)
  BY <1>1 DEF EncodingInv
<1>3. Sent(ends, rs, cut)'
  BY <1>1, <1>2, UntouchedSent
<1>4. ReadSoFar(ends, rs, cut)'
  BY <1>1, <1>2 DEF ReadSoFar
<1> QED
  BY <1>1, <1>3, <1>4 DEF EncodingInv

\* The header of a body that is as it was sent has no error.
LEMMA HeaderOfSent ==
    ASSUME NEW ends, NEW rs, NEW cut, Sent(ends, rs, cut), ReadSoFar(ends, rs, cut),
           outcome = "none", ~damaged
    PROVE  HeaderError = "none" /\ body.rs = rs
<1>1. body.complete /\ body.rs = rs
  BY DEF ReadSoFar
<1>2. rs \in Nat /\ MinRs \in Nat /\ rs >= MinRs
  BY EncodingAssumption DEF Sent, Encoded, MinRs
<1>3. ~(rs < MinRs)
  BY <1>2
<1> QED
  BY <1>1, <1>3 DEF HeaderError

LEMMA HeaderSent ==
    ASSUME EncodingInv, parse_header
    PROVE  EncodingInv'
<1>1. /\ outcome = "none" /\ HeaderError # "none" /\ outcome' = HeaderError
      /\ UNCHANGED <<message, records, body, damaged, reader, seq, out>>
  BY DEF parse_header, returns
<1>2. PICK ends, rs, cut : Sent(ends, rs, cut) /\ ReadSoFar(ends, rs, cut)
  BY <1>1 DEF EncodingInv
<1>3. damaged
  BY <1>1, <1>2, HeaderOfSent
<1>4. HeaderError \in {"Truncated", "InvalidRecordSize"}
  BY <1>1 DEF HeaderError
<1>5. outcome' \notin {"unsent", "none", "Ok"}
  BY <1>1, <1>4
<1>6. ReadSoFar(ends, rs, cut)'
  BY <1>1, <1>3, <1>5 DEF ReadSoFar
<1>7. Sent(ends, rs, cut)'
  BY <1>1, <1>2, UntouchedSent
<1> QED
  BY <1>5, <1>6, <1>7 DEF EncodingInv

\* What comes of a record.
LEMMA RecordRead ==
    ASSUME NEW ends, NEW rs, Encoded(message, records, ends, rs), NEW n \in Nat, NEW record
    PROVE  /\ open_record(record, n).error \in {"none", "Decrypt", "InvalidPadding"}
           /\ open_record(record, n).error # "none" => open_record(record, n).delimiter = 0
           /\ open_record(record, n).error = "none" =>
                 /\ n + 1 \in 1..Len(records)
                 /\ open_record(record, n).data = SubSeq(message, ends[n] + 1, ends[n + 1])
                 /\ open_record(record, n).delimiter = Delimiter(n + 1, Len(records))
           /\ n + 1 \in 1..Len(records) /\ record = Sealed(records, n + 1) =>
                 open_record(record, n).error = "none"
<1>1. CASE Opens(record, n)
  <2>1. /\ n + 1 \in 1..Len(records)
        /\ open_record(record, n).error = "none"
        /\ open_record(record, n).data = SubSeq(message, ends[n] + 1, ends[n + 1])
        /\ open_record(record, n).delimiter = Delimiter(n + 1, Len(records))
    BY <1>1, OpenedRecord
  <2> QED
    BY <2>1
<1>2. CASE ~Opens(record, n)
  <2>1. open_record(record, n) = [error |-> "Decrypt", data |-> <<>>, delimiter |-> 0]
    BY <1>2 DEF open_record
  <2>2. open_record(record, n).error = "Decrypt" /\ open_record(record, n).delimiter = 0
    BY <2>1
  <2>3. ~(n + 1 \in 1..Len(records) /\ record = Sealed(records, n + 1))
    BY <1>2 DEF Opens, Encoded
  <2> QED
    BY <2>2, <2>3
<1> QED
  BY <1>1, <1>2

\* The message up to one place, and on from there to the next.
Continues(m, a, b) == SubSeq(m, 1, a) \o SubSeq(m, a + 1, b) = SubSeq(m, 1, b)

\* The message up to the end of one record and the data of the next.
LEMMA ReadFurther ==
    ASSUME NEW m, NEW recs, NEW ends, NEW rs, Encoded(m, recs, ends, rs),
           NEW i \in 1..Len(recs)
    PROVE  /\ Continues(m, ends[i - 1], ends[i])
           /\ i = Len(recs) => SubSeq(m, 1, ends[i]) = m
<1>1. PICK k \in Nat \ {0} : k = Len(recs)
  BY DEF Encoded
<1>2. i - 1 \in 0..k /\ i \in 0..k /\ i \in 1..k
  BY <1>1
<1>3. m \in Seq(Octets) /\ ends \in [0..k -> 0..Len(m)] /\ ends[0] = 0 /\ ends[k] = Len(m)
  BY <1>1 DEF Encoded
<1>4. PICK a \in 0..Len(m), b \in 0..Len(m) : a = ends[i - 1] /\ b = ends[i]
  BY <1>2, <1>3
<1>5. a <= b
  <2>1. ends[i - 1] <= ends[i]
    BY <1>1 DEF Encoded
  <2> QED
    BY <1>2, <1>4, <2>1
<1>6. Continues(m, a, b)
  <2>1. Len(m) \in Nat /\ a \in Nat /\ b \in Nat /\ b <= Len(m)
    BY <1>3
  <2> QED
    BY <1>3, <1>5, <2>1, ConcatAdjacentSubSeq DEF Continues
<1>7. SubSeq(m, 1, Len(m)) = m
  BY <1>3, SubSeqFull
<1> QED
  BY <1>1, <1>3, <1>4, <1>6, <1>7

LEMMA DecryptSent ==
    ASSUME EncodingInv, decrypt
    PROVE  EncodingInv'
<1>1. /\ outcome = "none" /\ reader = "decrypt" /\ HeaderError = "none"
      /\ UNCHANGED <<message, records, damaged, reader>>
  BY DEF decrypt, returns
<1>2. PICK ends, rs, cut : Sent(ends, rs, cut) /\ ReadSoFar(ends, rs, cut)
  BY <1>1 DEF EncodingInv
<1>3. Sent(ends, rs, cut)'
  BY <1>1, <1>2, UntouchedSent
<1>4. Encoded(message, records, ends, rs)
  BY <1>2 DEF Sent
<1>5. seq \in Nat /\ seq + 1 \in 1..Len(records) /\ out = SubSeq(message, 1, ends[seq])
  BY <1>1, <1>2 DEF ReadSoFar
<1>6. PICK data, take, rest, r :
          /\ data = body.data
          /\ take = IF Len(data) < body.rs THEN Len(data) ELSE body.rs
          /\ rest = SubSeq(data, take + 1, Len(data))
          /\ r = open_record(SubSeq(data, 1, take), seq)
  OBVIOUS
<1>7. IF data = <<>> THEN returns("Truncated")
      ELSE IF r.error # "none" THEN returns(r.error)
      ELSE /\ out' = out \o r.data
           /\ body' = [body EXCEPT !.data = rest]
           /\ seq' = seq + 1
           /\ outcome' = CASE r.delimiter = 2 /\ rest = <<>> -> "Ok"
                           [] r.delimiter = 1 /\ rest # <<>> -> "none"
                           [] OTHER -> "InvalidPadding"
           /\ UNCHANGED <<message, records, damaged, reader>>
  BY <1>6 DEF decrypt
<1>8. /\ r.error \in {"none", "Decrypt", "InvalidPadding"}
      /\ r.error = "none" =>
            /\ r.data = SubSeq(message, ends[seq] + 1, ends[seq + 1])
            /\ r.delimiter = Delimiter(seq + 1, Len(records))
      /\ SubSeq(data, 1, take) = Sealed(records, seq + 1) => r.error = "none"
  BY <1>4, <1>5, <1>6, RecordRead
<1>9. ASSUME ~damaged
      PROVE  /\ body = [complete |-> TRUE, rs |-> rs, data |-> data]
             /\ data # <<>> /\ r.error = "none"
             /\ rest = SubSeq(OnTheWire(records), cut[seq + 1] + 1, Len(OnTheWire(records)))
             /\ rest = <<>> <=> seq + 1 = Len(records)
  <2>1. PICK w \in Seq(Nat \X Nat) : w = OnTheWire(records)
    BY <1>2 DEF Sent
  <2>2. Cuts(Pieces(records), Len(records), w, cut)
    BY <1>2, <2>1 DEF Sent
  <2>3. PICK i \in 1..Len(records) : i = seq + 1 /\ i - 1 = seq
    BY <1>5
  <2>4. body = [complete |-> TRUE, rs |-> rs, data |-> SubSeq(w, cut[seq] + 1, Len(w))]
    BY <1>1, <1>2, <1>9, <2>1 DEF ReadSoFar
  <2>5. data = SubSeq(w, cut[i - 1] + 1, Len(w)) /\ body.rs = rs
    BY <1>6, <2>3, <2>4
  <2>6. take = IF Len(data) < rs THEN Len(data) ELSE rs
    BY <1>6, <2>5
  <2>7. /\ data # <<>>
        /\ SubSeq(data, 1, take) = Sealed(records, i)
        /\ SubSeq(data, take + 1, Len(data)) = SubSeq(w, cut[i] + 1, Len(w))
        /\ SubSeq(data, take + 1, Len(data)) = <<>> <=> i = Len(records)
    <3>1. Takes(w, cut, i, rs, data, take)
      BY <2>5, <2>6 DEF Takes
    <3>2. TakesRecord(records, w, cut, i, data, take)
      BY <1>4, <2>2, <3>1, NextRecord
    <3> QED
      BY <3>2 DEF TakesRecord
  <2>8. r.error = "none"
    BY <1>8, <2>3, <2>7
  <2>9. body = [complete |-> TRUE, rs |-> rs, data |-> data]
    BY <2>3, <2>4, <2>5
  <2>10. /\ rest = SubSeq(w, cut[seq + 1] + 1, Len(w))
         /\ rest = <<>> <=> seq + 1 = Len(records)
    BY <1>6, <2>3, <2>7
  <2> QED
    BY <2>1, <2>7, <2>8, <2>9, <2>10
<1>10. ASSUME returns("Truncated") \/ returns(r.error), data = <<>> \/ r.error # "none",
              outcome' = "Truncated" \/ (outcome' = r.error /\ r.error # "none")
       PROVE  EncodingInv'
  <2>1. damaged
    BY <1>9, <1>10
  <2>2. outcome' \notin {"unsent", "none", "Ok"}
    BY <1>8, <1>10
  <2>3. ReadSoFar(ends, rs, cut)'
    BY <1>1, <2>1, <2>2 DEF ReadSoFar
  <2> QED
    BY <1>3, <2>2, <2>3 DEF EncodingInv
<1>11. ASSUME data # <<>>, r.error = "none"
       PROVE  EncodingInv'
  <2>1. /\ out' = out \o r.data
        /\ body' = [body EXCEPT !.data = rest]
        /\ seq' = seq + 1
        /\ outcome' = CASE r.delimiter = 2 /\ rest = <<>> -> "Ok"
                        [] r.delimiter = 1 /\ rest # <<>> -> "none"
                        [] OTHER -> "InvalidPadding"
    BY <1>7, <1>11
  <2>2. out' = SubSeq(message, 1, ends[seq + 1]) /\ (seq + 1 = Len(records) => out' = message)
    <3>1. PICK i \in 1..Len(records) : i = seq + 1 /\ i - 1 = seq
      BY <1>5
    <3>2. Continues(message, ends[i - 1], ends[i]) /\ (i = Len(records) => SubSeq(message, 1, ends[i]) = message)
      BY <1>4, ReadFurther
    <3>5. SubSeq(message, 1, ends[i - 1]) \o SubSeq(message, ends[i - 1] + 1, ends[i]) = SubSeq(message, 1, ends[i])
      BY <3>2 DEF Continues
    <3>3. out' = SubSeq(message, 1, ends[i - 1]) \o SubSeq(message, ends[i - 1] + 1, ends[i])
      BY <1>5, <1>8, <1>11, <2>1, <3>1
    <3> QED
      BY <3>1, <3>2, <3>3, <3>5
  <2>3. PICK k \in Nat \ {0} : k = Len(records)
    BY <1>4 DEF Encoded
  <2>4. r.delimiter = 2 <=> seq + 1 = k
    BY <1>5, <1>8, <1>11, <2>3 DEF Delimiter
  <2>5. r.delimiter = 1 <=> seq + 1 < k
    BY <1>5, <1>8, <1>11, <2>3 DEF Delimiter
  <2>6. outcome' \in {"Ok", "none", "InvalidPadding"}
    BY <2>1
  <2>7. outcome' = "Ok" => out' = message
    BY <2>1, <2>2, <2>3, <2>4
  <2>8. ASSUME outcome' = "none"
        PROVE  /\ seq' \in Nat /\ seq' + 1 \in 1..Len(records)
               /\ out' = SubSeq(message, 1, ends[seq'])
    <3>1. seq + 1 < k
      BY <2>1, <2>5, <2>8
    <3> QED
      <4>1. seq' = seq + 1 /\ seq' \in Nat
        BY <1>5, <2>1
      <4>2. seq' + 1 \in 1..Len(records)
        BY <1>5, <2>3, <3>1, <4>1
      <4> QED
        BY <2>2, <4>1, <4>2
  <2>9. ASSUME ~damaged
        PROVE  /\ body' = [complete |-> TRUE, rs |-> rs,
                           data |-> SubSeq(OnTheWire(records), cut[seq'] + 1, Len(OnTheWire(records)))]
               /\ outcome' # "InvalidPadding"
    <3>1. body' = [complete |-> TRUE, rs |-> rs, data |-> rest]
      <4>1. body = [complete |-> TRUE, rs |-> rs, data |-> data]
        BY <1>9, <2>9
      <4> QED
        BY <2>1, <4>1
    <3>2. seq + 1 = k \/ seq + 1 < k
      BY <1>5, <2>3
    <3>3. outcome' # "InvalidPadding"
      BY <1>9, <2>1, <2>3, <2>4, <2>5, <2>9, <3>2
    <3> QED
      BY <1>9, <2>1, <2>9, <3>1, <3>3
  <2>10. ReadSoFar(ends, rs, cut)'
    BY <1>1, <2>6, <2>7, <2>8, <2>9 DEF ReadSoFar
  <2>11. outcome' # "unsent"
    BY <2>6
  <2> QED
    BY <1>3, <2>10, <2>11 DEF EncodingInv
<1>12. returns("Truncated") => outcome' = "Truncated"
  BY DEF returns
<1>13. returns(r.error) => outcome' = r.error
  BY DEF returns
<1>14. CASE data = <<>>
  BY <1>7, <1>10, <1>12, <1>14
<1>15. CASE data # <<>> /\ r.error # "none"
  BY <1>7, <1>10, <1>13, <1>15
<1> QED
  BY <1>11, <1>14, <1>15

LEMMA WebpushSent ==
    ASSUME EncodingInv, webpush_decrypt
    PROVE  EncodingInv'
<1>1. /\ outcome = "none" /\ reader = "webpush"
      /\ UNCHANGED <<message, records, body, damaged, reader, seq>>
  BY DEF webpush_decrypt
<1>2. PICK ends, rs, cut : Sent(ends, rs, cut) /\ ReadSoFar(ends, rs, cut)
  BY <1>1 DEF EncodingInv
<1>3. Sent(ends, rs, cut)'
  BY <1>1, <1>2, UntouchedSent
<1>4. Encoded(message, records, ends, rs)
  BY <1>2 DEF Sent
<1>5. PICK k \in Nat \ {0} : k = Len(records)
  BY <1>4 DEF Encoded
<1>6. PICK r : r = open_record(body.data, 0)
  OBVIOUS
<1>7. /\ out' = r.data
      /\ outcome' = CASE r.error # "none" -> r.error
                      [] r.delimiter = 2 -> "Ok"
                      [] OTHER -> "InvalidPadding"
  BY <1>6 DEF webpush_decrypt
<1>8. /\ r.error \in {"none", "Decrypt", "InvalidPadding"}
      /\ r.error # "none" => r.delimiter = 0
      /\ r.error = "none" =>
            /\ r.data = SubSeq(message, ends[0] + 1, ends[1])
            /\ r.delimiter = Delimiter(1, k)
      /\ body.data = Sealed(records, 1) => r.error = "none"
  <2>1. PICK n \in Nat, i \in 1..Len(records) : n = 0 /\ n + 1 = i /\ i = 1
    BY <1>5
  <2>2. /\ open_record(body.data, n).error \in {"none", "Decrypt", "InvalidPadding"}
        /\ open_record(body.data, n).error # "none" => open_record(body.data, n).delimiter = 0
        /\ open_record(body.data, n).error = "none" =>
              /\ n + 1 \in 1..Len(records)
              /\ open_record(body.data, n).data = SubSeq(message, ends[n] + 1, ends[n + 1])
              /\ open_record(body.data, n).delimiter = Delimiter(n + 1, Len(records))
        /\ n + 1 \in 1..Len(records) /\ body.data = Sealed(records, n + 1) =>
              open_record(body.data, n).error = "none"
    BY <1>4, RecordRead
  <2> QED
    BY <1>5, <1>6, <2>1, <2>2
<1>9. r.error = "none" => (r.delimiter = 2 <=> k = 1)
  BY <1>5, <1>8 DEF Delimiter
<1>10. outcome' \in {"Ok", "Decrypt", "InvalidPadding"}
  BY <1>7, <1>8
<1>11. ASSUME outcome' = "Ok"
       PROVE  out' = message
  <2>1. r.error = "none" /\ r.delimiter = 2
    <3>1. ASSUME r.error # "none"
          PROVE  FALSE
      <4>1. outcome' = r.error
        BY <1>7, <1>8, <3>1
      <4> QED
        BY <1>8, <1>11, <4>1
    <3>2. ASSUME r.error = "none", r.delimiter # 2
          PROVE  FALSE
      <4>1. outcome' = "InvalidPadding"
        BY <1>7, <3>2
      <4> QED
        BY <1>11, <4>1
    <3> QED
      BY <3>1, <3>2
  <2>2. k = 1 /\ out' = SubSeq(message, ends[0] + 1, ends[1])
    BY <1>7, <1>8, <1>9, <2>1
  <2>3. /\ message \in Seq(Octets) /\ ends[0] = 0 /\ ends[1] = Len(message)
    BY <1>4, <1>5, <2>2 DEF Encoded
  <2> QED
    BY <2>2, <2>3, SubSeqFull
<1>12. ASSUME ~damaged, k = 1
       PROVE  outcome' = "Ok"
  <2>1. PICK w \in Seq(Nat \X Nat) : w = OnTheWire(records)
    BY <1>2 DEF Sent
  <2>2. Cuts(Pieces(records), Len(records), w, cut)
    BY <1>2, <2>1 DEF Sent
  <2>3. seq = 0 /\ body.data = SubSeq(w, cut[seq] + 1, Len(w))
    BY <1>1, <1>2, <1>12, <2>1 DEF ReadSoFar
  <2>4. cut[0] = 0 /\ cut[1] = Len(w)
    BY <1>5, <1>12, <2>2 DEF Cuts
  <2>5. SubSeq(w, cut[0] + 1, cut[1]) = Sealed(records, 1)
    <3>1. PICK i \in 1..Len(records) : i = 1 /\ i - 1 = 0
      BY <1>5
    <3>2. SubSeq(w, cut[i - 1] + 1, cut[i]) = Sealed(records, i)
      BY <1>4, <2>2, NextPiece
    <3> QED
      BY <3>1, <3>2
  <2>6. body.data = Sealed(records, 1)
    BY <2>3, <2>4, <2>5
  <2> QED
    BY <1>7, <1>8, <1>9, <1>12, <2>6
<1>13. outcome' # "Ok" => damaged \/ k > 1
  BY <1>5, <1>12
<1>14. ReadSoFar(ends, rs, cut)'
  BY <1>1, <1>5, <1>10, <1>11, <1>13 DEF ReadSoFar
<1>15. outcome' # "unsent"
  BY <1>10
<1> QED
  BY <1>3, <1>14, <1>15 DEF EncodingInv

LEMMA EncodingStep ==
    ASSUME EncodingInv, [EncodingNext]_encodingVars
    PROVE  EncodingInv'
<1>1. CASE \E m \in Messages, rs \in RecordSizes : seal(m, rs)
  BY <1>1, SealSent
<1>2. CASE damage
  BY <1>2, DamageSent
<1>3. CASE parse_header
  BY <1>3, HeaderSent
<1>4. CASE decrypt
  BY <1>4, DecryptSent
<1>5. CASE webpush_decrypt
  BY <1>5, WebpushSent
<1>6. CASE UNCHANGED encodingVars
  BY <1>6 DEF EncodingInv, Sent, ReadSoFar, encodingVars
<1> QED
  BY <1>1, <1>2, <1>3, <1>4, <1>5, <1>6 DEF EncodingNext

LEMMA EncodingStarts == EncodingInit => EncodingInv
BY DEF EncodingInit, EncodingInv

LEMMA EncodingInvMeans == EncodingInv => ReadAsSent
<1>1. CASE outcome = "unsent"
  BY <1>1 DEF ReadAsSent, OnlyWhatWasSent, SentIsRead
<1>2. ASSUME EncodingInv, outcome # "unsent"
      PROVE  ReadAsSent
  <2>1. PICK ends, rs, cut : ReadSoFar(ends, rs, cut)
    BY <1>2 DEF EncodingInv
  <2> QED
    BY <2>1 DEF ReadSoFar, ReadAsSent, OnlyWhatWasSent, SentIsRead
<1> QED
  BY <1>1, <1>2

(***************************************************************************)
(* However a sender splits and pads its message, and whatever becomes of   *)
(* the body on its way: decrypt() and webpush::decrypt() of ece.rs return  *)
(* the message that was sent or an error, and an error only for a body     *)
(* that was damaged, or of several records for webpush::decrypt().         *)
(***************************************************************************)
THEOREM MessagesReadAsSent == PartsSpec => []ReadAsSent
<1>1. PartsInit => EncodingInv
  BY EncodingStarts DEF PartsInit
<1>2. EncodingInv /\ [PartsNext]_partsVars => EncodingInv'
  BY PartsSteps, EncodingStep
<1>3. EncodingInv => ReadAsSent
  BY EncodingInvMeans
<1> QED BY <1>1, <1>2, <1>3, PTL DEF PartsSpec

=============================================================================
