---------------------------- MODULE MCMemoryStore ----------------------------
(* The instances of MemoryStore that TLC checks. *)
EXTENDS MemoryStore, TLC

\* Two messages that nothing but their ids tells apart.
MsgSymmetry == Permutations(MsgIds)

==============================================================================
