---------------------------- MODULE MCReceiptStream ----------------------------
(* The instances of ReceiptStream that TLC checks. *)
EXTENDS ReceiptStream, TLC

\* Every receipt that can be queued: a message is settled once.
AllReceipts == [rsub : Rsubs, seq : 1..Cardinality(MsgIds), msg_id : MsgIds,
                status : {204, 410}]

\* Streams and messages are told apart by nothing but their ids.
IdSymmetry == Permutations(ListenerIds) \cup Permutations(MsgIds)

==============================================================================
