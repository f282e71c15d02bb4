---------------------------- MODULE CellChunks ----------------------------
(***************************************************************************)
(* How the Bigtable store reads rows (bigtable.rs, read()): the answer is  *)
(* a stream of chunks, in which a row spans chunks, a value may be split,  *)
(* the row key and qualifier are left out when they are those of the chunk *)
(* before, and a row begun may be taken back.  Bigtable is external.       *)
(***************************************************************************)
EXTENDS Naturals, Sequences, SequencesExt

CONSTANTS
    Table,       \* the rows that match: a sequence of rows with key and cells
    MaxResets,   \* bound on the rows taken back
    NoName       \* a row key or qualifier that is left out

ASSUME ChunkAssumption ==
    /\ MaxResets \in Nat
    /\ Table \in Seq(Range(Table))
    /\ \A i \in DOMAIN Table :
          /\ Table[i].key # NoName
          /\ Table[i].cells \in Seq(Range(Table[i].cells)) \ {<<>>}
          /\ \A c \in DOMAIN Table[i].cells :
                /\ Table[i].cells[c].qualifier # NoName
                /\ Table[i].cells[c].value \in Seq(Nat)
                /\ \A d \in DOMAIN Table[i].cells :   \* the latest cell of a column only
                      Table[i].cells[c].qualifier = Table[i].cells[d].qualifier => c = d

VARIABLES
    at,         \* what Bigtable sends next: row, cell, octets of it already sent
    resets,     \* rows taken back so far
    key,        \* the variables of read()
    qualifier,
    row,        \* qualifier -> value, as a set of pairs
    value,
    rows        \* the rows returned so far, `out'

chunkVars == <<at, resets, key, qualifier, row, value, rows>>

ChunkInit ==
    /\ at = [row |-> 1, cell |-> 1, sent |-> 0]
    /\ resets = 0
    /\ key = NoName /\ qualifier = NoName
    /\ row = {} /\ value = <<>>
    /\ rows = <<>>

-----------------------------------------------------------------------------

Sending == at.row <= Len(Table)

Cells == Table[at.row].cells

Cell == Cells[at.cell]

(***************************************************************************)
(* External: the next n octets of the cell.  The key comes with the first  *)
(* chunk of a row and the qualifier with the first of a cell; both may be  *)
(* repeated.                                                               *)
(***************************************************************************)
Chunks(n) ==
    [row_key : {Table[at.row].key} \cup (IF at.cell = 1 /\ at.sent = 0 THEN {} ELSE {NoName}),
     qualifier : {Cell.qualifier} \cup (IF at.sent = 0 THEN {} ELSE {NoName}),
     value : {SubSeq(Cell.value, at.sent + 1, at.sent + n)},
     value_size : {IF at.sent + n = Len(Cell.value) THEN 0 ELSE Len(Cell.value)},
     commit : {at.sent + n = Len(Cell.value) /\ at.cell = Len(Cells)}]

Advance(n) ==
    at' = IF at.sent + n < Len(Cell.value) THEN [at EXCEPT !.sent = @ + n]
          ELSE IF at.cell < Len(Cells) THEN [at EXCEPT !.cell = @ + 1, !.sent = 0]
          ELSE [row |-> at.row + 1, cell |-> 1, sent |-> 0]

(***************************************************************************)
(* HashMap::insert: a cell of the same qualifier is replaced.              *)
(***************************************************************************)
Insert(cells, q, v) == {c \in cells : c[1] # q} \cup {<<q, v>>}

(***************************************************************************)
(* read() merges a chunk that is no reset.                                 *)
(***************************************************************************)
merge(chunk) ==
    /\ key' = IF chunk.row_key = NoName THEN key ELSE chunk.row_key
    /\ qualifier' = IF chunk.qualifier = NoName THEN qualifier ELSE chunk.qualifier
    /\ LET all == value \o chunk.value
           cells == IF chunk.value_size = 0 THEN Insert(row, qualifier', all) ELSE row
       IN /\ value' = IF chunk.value_size = 0 THEN <<>> ELSE all
          /\ row' = IF chunk.commit THEN {} ELSE cells
          /\ rows' = IF chunk.commit THEN Append(rows, <<key', cells>>) ELSE rows

chunk_arrives(n) ==
    /\ Sending
    /\ at.sent + n <= Len(Cell.value) /\ (n = 0 => Cell.value = <<>>)
    /\ \E chunk \in Chunks(n) : merge(chunk)
    /\ Advance(n)
    /\ UNCHANGED resets

(***************************************************************************)
(* Faulty: the part of a value that has arrived is kept.                   *)
(***************************************************************************)
reset_row_only ==
    /\ Sending /\ resets < MaxResets
    /\ row' = {}
    /\ at' = [at EXCEPT !.cell = 1, !.sent = 0]
    /\ resets' = resets + 1
    /\ UNCHANGED <<key, qualifier, value, rows>>

(***************************************************************************)
(* ResetRow: Bigtable takes the row back and will send it again.           *)
(***************************************************************************)
reset_row ==
    /\ Sending /\ resets < MaxResets
    /\ row' = {}
    /\ value' = <<>>
    /\ at' = [at EXCEPT !.cell = 1, !.sent = 0]
    /\ resets' = resets + 1
    /\ UNCHANGED <<key, qualifier, rows>>

ChunkNext ==
    \/ Sending /\ \E n \in 0..Len(Cell.value) : chunk_arrives(n)
    \/ reset_row

ChunkSpec == ChunkInit /\ [][ChunkNext]_chunkVars

-----------------------------------------------------------------------------

(***************************************************************************)
(* The rows read are the rows stored, in order, with their cells complete  *)
(* and no cell of another row, however Bigtable cuts them up.              *)
(***************************************************************************)
RowsAsStored ==
    rows = [i \in 1..(at.row - 1) |->
               <<Table[i].key, {<<c.qualifier, c.value>> : c \in Range(Table[i].cells)}>>]
=============================================================================
