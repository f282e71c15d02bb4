-------------------------- MODULE ContentEncoding --------------------------
(***************************************************************************)
(* The aes128gcm content encoding (webpush-crypto, ece.rs): how a body is  *)
(* split into records, padded, and read back.  The cipher is abstract:     *)
(* what is sealed under one sequence number opens under that number only,  *)
(* complete and unchanged.  A sender (any that follows RFC 8188, or        *)
(* encrypt()) seals a message, the body may be damaged on its way, and a   *)
(* reader, decrypt() or webpush::decrypt(), works through it.              *)
(***************************************************************************)
EXTENDS Naturals, Sequences, FiniteSets, SequencesExt

CONSTANTS
    Octets,       \* the values of an octet of data: 0 and the delimiters 1 and 2
    MaxLen,       \* bound on the length of a message
    MaxRecords,   \* bound on the records of a body
    MaxPadding,   \* bound on the padding of the last record
    TagLen,       \* TAG_LEN
    RecordSizes   \* the record sizes senders use

(***************************************************************************)
(* MIN_RS is the tag, the delimiter and one octet.                         *)
(***************************************************************************)
MinRs == TagLen + 2

ASSUME EncodingAssumption ==
    /\ Octets \subseteq Nat /\ RecordSizes \subseteq Nat
    /\ MaxLen \in Nat /\ MaxRecords \in Nat /\ MaxPadding \in Nat /\ TagLen \in Nat
    /\ \A rs \in RecordSizes : rs >= MinRs

VARIABLES
    message,   \* what is sent
    records,   \* the plaintexts of its records, delimiter and padding included
    body,      \* what arrives: whether the header is complete, rs, and the octets
    damaged,   \* whether the body is not the one sent
    reader,    \* which function reads it
    seq,       \* the sequence number of the next record
    out,       \* the data read so far
    outcome    \* "none" until the reader returns, "unsent" before

encodingVars == <<message, records, body, damaged, reader, seq, out, outcome>>

Messages == BoundedSeq(Octets, MaxLen)

Zeros(n) == [i \in 1..n |-> 0]

(***************************************************************************)
(* External: the records a sender may make of a message.  All but the last *)
(* fill rs and end in delimiter 1 before the padding, the last in 2.       *)
(***************************************************************************)
Splits(m) ==
    {ends \in UNION {[1..k -> 0..Len(m)] : k \in 1..MaxRecords} :
        /\ ends[Len(ends)] = Len(m)
        /\ \A i \in 2..Len(ends) : ends[i - 1] <= ends[i]}

DataOf(m, ends, i) == SubSeq(m, IF i = 1 THEN 1 ELSE ends[i - 1] + 1, ends[i])

Encodings(m, rs) ==
    {recs \in UNION {{[i \in DOMAIN ends |->
                          LET data == DataOf(m, ends, i)
                              room == rs - TagLen - 1 - Len(data)
                          IN IF room < 0 THEN <<>>
                             ELSE IF i < Len(ends) THEN data \o <<1>> \o Zeros(room)
                             ELSE data \o <<2>> \o Zeros(IF pad < room THEN pad ELSE room)]
                      : pad \in 0..MaxPadding} : ends \in Splits(m)} :
        \A i \in DOMAIN recs : recs[i] # <<>>}

(***************************************************************************)
(* encrypt(): one record without padding, if the message fits.             *)
(***************************************************************************)
encrypt(m, rs) == IF Len(m) + 1 + TagLen > rs THEN {} ELSE {<<Append(m, 2)>>}

(***************************************************************************)
(* A sealed record on the wire: each octet knows its record and place.     *)
(***************************************************************************)
Sealed(recs, i) == [at \in 1..(Len(recs[i]) + TagLen) |-> <<i, at>>]

(***************************************************************************)
(* A record of another message.                                            *)
(***************************************************************************)
Foreign == [at \in 1..MinRs |-> <<0, at>>]

Wire(recs, order) ==
    FlattenSeq([j \in DOMAIN order |-> IF order[j] = 0 THEN Foreign ELSE Sealed(recs, order[j])])

InOrder(recs) == [i \in DOMAIN recs |-> i]

EncodingInit ==
    /\ message = <<>> /\ records = <<>>
    /\ body = [complete |-> FALSE, rs |-> 0, data |-> <<>>]
    /\ damaged = FALSE
    /\ reader = "none"
    /\ seq = 0
    /\ out = <<>>
    /\ outcome = "unsent"

-----------------------------------------------------------------------------

(***************************************************************************)
(* A message is sent to a reader.                                          *)
(***************************************************************************)
seal(m, rs) ==
    /\ outcome = "unsent"
    /\ message' = m
    /\ records' \in Encodings(m, rs) \cup encrypt(m, rs)
    /\ body' = [complete |-> TRUE, rs |-> rs, data |-> Wire(records', InOrder(records'))]
    /\ reader' \in {"decrypt", "webpush"}
    /\ outcome' = "none"
    /\ UNCHANGED <<damaged, seq, out>>

(***************************************************************************)
(* External: the body is cut off, its records are dropped, repeated,       *)
(* reordered or replaced, or its record size is changed.                   *)
(***************************************************************************)
damage ==
    /\ outcome = "none" /\ seq = 0 /\ ~damaged
    /\ \/ body' = [body EXCEPT !.complete = FALSE]
       \/ \E n \in 0..(Len(body.data) - 1) : body' = [body EXCEPT !.data = SubSeq(@, 1, n)]
       \/ \E order \in BoundedSeq(0..Len(records), Len(records) + 1) :
              body' = [body EXCEPT !.data = Wire(records, order)]
       \/ \E rs \in {MinRs - 1} \cup RecordSizes : body' = [body EXCEPT !.rs = rs]
    /\ body' # body
    /\ damaged' = TRUE
    /\ UNCHANGED <<message, records, reader, seq, out, outcome>>

(***************************************************************************)
(* External: the cipher opens a record under its own number only.          *)
(***************************************************************************)
Opens(record, n) == n + 1 \in DOMAIN records /\ record = Sealed(records, n + 1)

(***************************************************************************)
(* The data before the delimiter, which is the last octet that is not 0,   *)
(* and the delimiter; or the error.                                        *)
(***************************************************************************)
open_record(record, n) ==
    IF ~Opens(record, n) THEN [error |-> "Decrypt", data |-> <<>>, delimiter |-> 0]
    ELSE LET pt == records[n + 1]
             pos == Max({0} \cup {i \in DOMAIN pt : pt[i] # 0})
         IN IF pos = 0 THEN [error |-> "InvalidPadding", data |-> <<>>, delimiter |-> 0]
            ELSE [error |-> "none", data |-> SubSeq(pt, 1, pos - 1), delimiter |-> pt[pos]]

HeaderError == IF ~body.complete THEN "Truncated" ELSE IF body.rs < MinRs THEN "InvalidRecordSize" ELSE "none"

returns(error) ==
    /\ outcome' = error
    /\ UNCHANGED <<message, records, body, damaged, reader, seq, out>>

(***************************************************************************)
(* The header is cut off, or its record size too small.                    *)
(***************************************************************************)
parse_header ==
    /\ outcome = "none" /\ seq = 0
    /\ HeaderError # "none"
    /\ returns(HeaderError)

(***************************************************************************)
(* Faulty: the data may end after any record.                              *)
(***************************************************************************)
decrypt_lenient ==
    /\ outcome = "none" /\ reader = "decrypt" /\ HeaderError = "none"
    /\ LET n == IF Len(body.data) < body.rs THEN Len(body.data) ELSE body.rs
           rest == SubSeq(body.data, n + 1, Len(body.data))
           r == open_record(SubSeq(body.data, 1, n), seq)
       IN IF body.data = <<>> THEN returns("Truncated")
          ELSE IF r.error # "none" THEN returns(r.error)
          ELSE /\ out' = out \o r.data
               /\ body' = [body EXCEPT !.data = rest]
               /\ seq' = seq + 1
               /\ outcome' = IF rest = <<>> THEN "Ok" ELSE "none"
               /\ UNCHANGED <<message, records, damaged, reader>>

(***************************************************************************)
(* One turn of the loop of decrypt(): the next rs octets are a record,     *)
(* whose delimiter must fit its place.                                     *)
(***************************************************************************)
decrypt ==
    /\ outcome = "none" /\ reader = "decrypt" /\ HeaderError = "none"
    /\ LET n == IF Len(body.data) < body.rs THEN Len(body.data) ELSE body.rs
           rest == SubSeq(body.data, n + 1, Len(body.data))
           r == open_record(SubSeq(body.data, 1, n), seq)
       IN IF body.data = <<>> THEN returns("Truncated")
          ELSE IF r.error # "none" THEN returns(r.error)
          ELSE /\ out' = out \o r.data
               /\ body' = [body EXCEPT !.data = rest]
               /\ seq' = seq + 1
               /\ outcome' = CASE r.delimiter = 2 /\ rest = <<>> -> "Ok"
                               [] r.delimiter = 1 /\ rest # <<>> -> "none"
                               [] OTHER -> "InvalidPadding"
               /\ UNCHANGED <<message, records, damaged, reader>>

(***************************************************************************)
(* webpush::decrypt(): all the data is one record.                         *)
(***************************************************************************)
webpush_decrypt ==
    /\ outcome = "none" /\ reader = "webpush" /\ HeaderError = "none"
    /\ LET r == open_record(body.data, 0)
       IN /\ out' = r.data
          /\ outcome' = CASE r.error # "none" -> r.error
                          [] r.delimiter = 2 -> "Ok"
                          [] OTHER -> "InvalidPadding"
    /\ UNCHANGED <<message, records, body, damaged, reader, seq>>

EncodingNext ==
    \/ \E m \in Messages, rs \in RecordSizes : seal(m, rs)
    \/ damage \/ parse_header \/ decrypt \/ webpush_decrypt

EncodingSpec == EncodingInit /\ [][EncodingNext]_encodingVars

-----------------------------------------------------------------------------

(***************************************************************************)
(* Whatever becomes of a body, what decrypt() and webpush::decrypt()       *)
(* return is the message that was sent: "A body that stops after a 0x01    *)
(* record was cut short and is rejected rather than returned as a shorter  *)
(* message".                                                               *)
(***************************************************************************)
OnlyWhatWasSent == outcome = "Ok" => out = message

(***************************************************************************)
(* A body that arrives as it was sent is read, however its sender split    *)
(* and padded it and whatever its data looks like; by webpush::decrypt()   *)
(* if it is one record, as Web Push requires.                              *)
(***************************************************************************)
SentIsRead ==
    outcome \notin {"unsent", "none", "Ok"} => damaged \/ (reader = "webpush" /\ Len(records) > 1)

(***************************************************************************)
(* A reader gets the message that was sent or an error, and an error only  *)
(* for a body that was damaged or is not for it.                           *)
(***************************************************************************)
ReadAsSent == OnlyWhatWasSent /\ SentIsRead
=============================================================================
