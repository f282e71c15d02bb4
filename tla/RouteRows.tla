----------------------------- MODULE RouteRows -----------------------------
(***************************************************************************)
(* The route of one recipient on Bigtable (bigtable.rs, set_route, route,  *)
(* clear_route), under the takeovers and cleanups of notify.rs.  Unlike    *)
(* the in-memory store's, set_route is a read and a write, between which   *)
(* other nodes run, and a write counts by the time on the writer's clock,  *)
(* not by when it is applied; clear_route is one conditional mutation.  A  *)
(* node has at most one connection of the recipient in a behaviour: what a *)
(* node that is revisited meets is the subject of Delivery.                *)
(***************************************************************************)
EXTENDS Naturals, FiniteSets

CONSTANTS
    RouteNodes,   \* the nodes the recipient connects to
    RouteStamps,  \* the times that their clocks may show
    MaxMishaps,   \* bound on the calls that fail, crashes and lost forwards
    NoNode        \* no node

ASSUME RouteAssumption ==
    NoNode \notin RouteNodes /\ MaxMishaps \in Nat /\ RouteStamps \subseteq Nat

VARIABLES
    routeRow,    \* the versions of the cell "node" of the route row
    link,        \* node -> what its connection does
    before,      \* node -> what set_route read: the node named, if any
    stamp,       \* node -> the time that its put() writes with, 0 if none is under way
    closing,     \* the nodes to which Gone is being forwarded
    cleanups,    \* the calls to clear_route that are still to come
    latest,      \* history: the last node to have written the route
    contended,   \* history: whether two takeovers have overlapped
    skewed,      \* history: whether a clock was behind a time that is in the row
    overtaken,   \* history: whether a write met one with a later time in the row
    mishaps      \* the number of faults

routeVars == <<routeRow, link, before, stamp, closing, cleanups, latest, contended, skewed,
               overtaken, mishaps>>

RouteInit ==
    /\ routeRow = {}
    /\ link = [n \in RouteNodes |-> "away"]
    /\ before = [n \in RouteNodes |-> {}]
    /\ stamp = [n \in RouteNodes |-> 0]
    /\ closing = {} /\ cleanups = {}
    /\ latest = NoNode
    /\ contended = FALSE /\ skewed = FALSE /\ overtaken = FALSE
    /\ mishaps = 0

-----------------------------------------------------------------------------

(***************************************************************************)
(* Reads and predicates see the version of the cell with the latest time.  *)
(***************************************************************************)
Named == {c.node : c \in {v \in routeRow : \A w \in routeRow : w.stamp <= v.stamp}}

Linking == {n \in RouteNodes : link[n] \in {"linking", "putting"}}

Mishap == mishaps < MaxMishaps /\ mishaps' = mishaps + 1

(***************************************************************************)
(* listen() has registered in the hub; set_route reads the row.            *)
(***************************************************************************)
read_previous(n) ==
    /\ link[n] = "away"
    /\ link' = [link EXCEPT ![n] = "linking"]
    /\ before' = [before EXCEPT ![n] = Named]
    /\ contended' = (contended \/ Linking # {})
    /\ UNCHANGED <<routeRow, stamp, closing, cleanups, latest, skewed, overtaken, mishaps>>

(***************************************************************************)
(* put() reads the node's clock and sends the write.                       *)
(***************************************************************************)
begin_put(n) ==
    /\ link[n] = "linking"
    /\ link' = [link EXCEPT ![n] = "putting"]
    /\ \E t \in RouteStamps :
           /\ stamp' = [stamp EXCEPT ![n] = t]
           /\ skewed' = (skewed \/ \E c \in routeRow : c.stamp > t)
    /\ UNCHANGED <<routeRow, before, closing, cleanups, latest, contended, overtaken, mishaps>>

(***************************************************************************)
(* The write is applied: a version of the cell, in place of one with the   *)
(* same time.                                                              *)
(***************************************************************************)
Put(n) ==
    /\ routeRow' = {c \in routeRow : c.stamp # stamp[n]} \cup {[node |-> n, stamp |-> stamp[n]]}
    /\ overtaken' = (overtaken \/ \E c \in routeRow : c.stamp > stamp[n])
    /\ latest' = n
    /\ stamp' = [stamp EXCEPT ![n] = 0]

(***************************************************************************)
(* Faulty: the previous node is read after the row has been written.       *)
(***************************************************************************)
put_route_first(n) ==
    /\ link[n] = "putting"
    /\ link' = [link EXCEPT ![n] = "connected"]
    /\ Put(n)
    /\ closing' = closing \cup (Named' \ {n})
    /\ UNCHANGED <<before, cleanups, contended, skewed, mishaps>>

(***************************************************************************)
(* set_route has written the row; listen() spawns a forward of Gone to the *)
(* node that was read.                                                     *)
(***************************************************************************)
put_route(n) ==
    /\ link[n] = "putting"
    /\ link' = [link EXCEPT ![n] = "connected"]
    /\ Put(n)
    /\ closing' = closing \cup (before[n] \ {n})
    /\ UNCHANGED <<before, cleanups, contended, skewed, mishaps>>

(***************************************************************************)
(* A call of set_route fails, the write perhaps after it was applied: the  *)
(* listener is dropped.                                                    *)
(***************************************************************************)
set_route_fails(n) ==
    /\ Mishap
    /\ n \in Linking
    /\ link' = [link EXCEPT ![n] = "ended"]
    /\ \/ UNCHANGED <<routeRow, overtaken, latest>> /\ stamp' = [stamp EXCEPT ![n] = 0]
       \/ link[n] = "putting" /\ Put(n)
    /\ cleanups' = cleanups \cup {n}
    /\ UNCHANGED <<before, closing, contended, skewed>>

(***************************************************************************)
(* The connection ends and its Listener is dropped, which clears the       *)
(* route, unless it fell behind: then it was out of the hub already.       *)
(***************************************************************************)
drop_link(n) ==
    /\ link[n] = "connected"
    /\ link' = [link EXCEPT ![n] = "ended"]
    /\ cleanups' \in {cleanups, cleanups \cup {n}}
    /\ UNCHANGED <<routeRow, before, stamp, closing, latest, contended, skewed, overtaken, mishaps>>

(***************************************************************************)
(* The process dies and does not clean up; the write it has sent may still *)
(* be applied, and the forward it was making is lost with it.              *)
(***************************************************************************)
node_dies(n) ==
    /\ Mishap
    /\ link[n] \in {"linking", "putting", "connected"}
    /\ link' = [link EXCEPT ![n] = "ended"]
    /\ closing' \in {closing, closing \ before[n]}
    /\ \/ UNCHANGED <<routeRow, overtaken, latest>> /\ stamp' = [stamp EXCEPT ![n] = 0]
       \/ link[n] = "putting" /\ Put(n)
    /\ UNCHANGED <<before, cleanups, contended, skewed>>

(***************************************************************************)
(* Gone arrives and ends the connection, or finds none (404) or no node:   *)
(* the route is stale.  Either way a cleanup of n's route follows.         *)
(***************************************************************************)
gone_arrives(n) ==
    /\ n \in closing
    /\ closing' = closing \ {n}
    /\ link' = [link EXCEPT ![n] = "ended"]
    /\ cleanups' = cleanups \cup {n}
    /\ UNCHANGED <<routeRow, before, stamp, latest, contended, skewed, overtaken, mishaps>>

gone_lost(n) ==
    /\ Mishap
    /\ n \in closing
    /\ closing' = closing \ {n}
    /\ UNCHANGED <<routeRow, link, before, stamp, cleanups, latest, contended, skewed, overtaken>>

(***************************************************************************)
(* A push reads the route with route(), finds nobody there, and will       *)
(* remove it with clear_stale().                                           *)
(***************************************************************************)
find_stale ==
    /\ \E n \in Named : link[n] = "ended" /\ n \notin cleanups /\ cleanups' = cleanups \cup {n}
    /\ UNCHANGED <<routeRow, link, before, stamp, closing, latest, contended, skewed, overtaken, mishaps>>

(***************************************************************************)
(* Faulty: the row is deleted whatever it says.                            *)
(***************************************************************************)
clear_route_any(n) ==
    /\ n \in cleanups
    /\ routeRow' = {}
    /\ cleanups' = cleanups \ {n}
    /\ UNCHANGED <<link, before, stamp, closing, latest, contended, skewed, overtaken, mishaps>>

(***************************************************************************)
(* clear_route: the row is deleted, with all versions of its cell, if it   *)
(* still names the node.                                                   *)
(***************************************************************************)
clear_route(n) ==
    /\ n \in cleanups
    /\ routeRow' = IF n \in Named THEN {} ELSE routeRow
    /\ cleanups' = cleanups \ {n}
    /\ UNCHANGED <<link, before, stamp, closing, latest, contended, skewed, overtaken, mishaps>>

clear_route_fails(n) ==
    /\ Mishap
    /\ n \in cleanups
    /\ cleanups' = cleanups \ {n}
    /\ UNCHANGED <<routeRow, link, before, stamp, closing, latest, contended, skewed, overtaken>>

RouteNext ==
    \/ \E n \in RouteNodes :
           \/ read_previous(n) \/ begin_put(n) \/ put_route(n) \/ set_route_fails(n) \/ drop_link(n) \/ node_dies(n)
           \/ gone_arrives(n) \/ gone_lost(n) \/ clear_route(n) \/ clear_route_fails(n)
    \/ find_stale

RouteSpec == RouteInit /\ [][RouteNext]_routeVars

-----------------------------------------------------------------------------

(***************************************************************************)
(* "A node never removes a route another node has taken over": the route   *)
(* names the last node to have written it for as long as that node's       *)
(* connection is open, whichever takeovers and cleanups interleave.  That  *)
(* holds until a write meets one with a later time, which takes takeovers  *)
(* that overlap or clocks that are out of step; from then on the row may   *)
(* name another node, and be deleted by its cleanup.                       *)
(***************************************************************************)
RouteNamesLatest ==
    /\ latest # NoNode /\ link[latest] = "connected" => Named = {latest} \/ overtaken
    /\ overtaken => contended \/ skewed

(***************************************************************************)
(* A superseded connection is told, whatever its successors did in the     *)
(* meantime: one that nobody told, and nobody will, is the last to have    *)
(* written the route, or two takeovers overlapped between the read and the *)
(* write of set_route, or a write was overtaken, or a call or a forward    *)
(* was lost.                                                               *)
(***************************************************************************)
SupersededTold ==
    \A n \in RouteNodes :
        link[n] = "connected" /\ n \notin closing =>
            \/ n = latest
            \/ contended \/ overtaken
            \/ mishaps > 0
=============================================================================
