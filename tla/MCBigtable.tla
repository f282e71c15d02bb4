------------------------------ MODULE MCBigtable ------------------------------
(* BigtableStore for TLC: ids and nodes are interchangeable. *)
EXTENDS BigtableStore, TLC

IdSymmetry == Permutations(MsgIds) \cup Permutations(PushIds)
              \cup Permutations(Nodes)

\* Every push has a topic and wants a receipt: others take fewer of the steps.
AllAsked == Topics \X Rsubs

==============================================================================
