---------------------------- MODULE UpsertQueue ----------------------------
(***************************************************************************)
(* What Viet::ISaveStorage promises of upserts, without threads or locks:  *)
(* batches wait in one queue; the first one is written record by record    *)
(* until it succeeds, completely stored, or fails; its outcome is then     *)
(* delivered, successes and failures each in order.                        *)
(***************************************************************************)
EXTENDS FileDatabase, Sequences

CONSTANTS NumIdx, NoChange, Callback

VARIABLES pending, acks, errors

vars == <<db, pending, acks, errors>>

Records(t) == {t.forms[i] : i \in DOMAIN t.forms} \ {NoChange}

Init ==
  /\ db = [form \in FormId |-> Absent]
  /\ pending = <<>>
  /\ acks = <<>>
  /\ errors = <<>>

Failed(t) == [kind |-> "upsert", task |-> t]

Entry == [form : FormId, ver : Nat]
Task == [forms : [0..(NumIdx - 1) -> Entry \cup {NoChange}], callback : Callback]

Request ==
  /\ pending' # <<>>
  /\ pending'[Len(pending')] \in Task
  /\ pending' = Append(pending, pending'[Len(pending')])
  /\ UNCHANGED <<db, acks, errors>>

Store ==
  /\ pending # <<>>
  /\ \E r \in Records(Head(pending)) : StoreRecord(r.form, r.ver)
  /\ UNCHANGED <<pending, acks, errors>>

Succeed ==
  /\ pending # <<>>
  /\ \A r \in Records(Head(pending)) : db[r.form] = r.ver
  /\ acks' = Append(acks, Head(pending))
  /\ pending' = Tail(pending)
  /\ UNCHANGED <<db, errors>>

Fail ==
  /\ pending # <<>>
  /\ \/ RejectRecord
     \/ \E r \in Records(Head(pending)) : TruncateRecord(r.form)
  /\ errors' = Append(errors, Failed(Head(pending)))
  /\ pending' = Tail(pending)
  /\ UNCHANGED acks

DeliverAck ==
  /\ acks # <<>>
  /\ acks' = Tail(acks)
  /\ UNCHANGED <<db, pending, errors>>

DeliverError ==
  /\ errors # <<>>
  /\ errors' = Tail(errors)
  /\ UNCHANGED <<db, pending, acks>>

\* The errors of iterates wait behind those of upserts, in one queue.
OtherErrors ==
  /\ Len(errors') > Len(errors)
  /\ \A n \in 1..Len(errors') :
       IF n <= Len(errors) THEN errors'[n] = errors[n] ELSE errors'[n].kind # "upsert"
  /\ UNCHANGED <<db, pending, acks>>

Next == Request \/ Store \/ Succeed \/ Fail \/ DeliverAck \/ DeliverError \/ OtherErrors

Spec == Init /\ [][Next]_vars
=============================================================================
