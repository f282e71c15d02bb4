------------------------------ MODULE MCDelivery ------------------------------
(* The instances of Delivery that TLC checks. *)
EXTENDS Delivery, TLC

\* Sessions, messages and user agents are told apart by nothing but their ids.
IdSymmetry == Permutations(ListenerIds) \cup Permutations(MsgIds) \cup Permutations(Uaids)

==============================================================================
