---------------------------- MODULE EvidenceStore ----------------------------
(* The durable request store of the gateway: one row per request identity,    *)
(* the open retry epoch and the incremental accounting, each changed by one   *)
(* redb write transaction.  A row goes pending -> committed -> retired; only  *)
(* a pending row may be released, and only by the value it was reserved with. *)
EXTENDS Integers, FiniteSets, FiniteSetsExt

CONSTANTS Ids,             \* caller material: idempotency keys or tokens
          MaxEpoch,        \* last retry epoch explored
          Owners,          \* random reservation ids
          Hashes,          \* submission hashes
          KeyBytes,        \* what a key is charged
          MaxRecordBytes,  \* limits.max_record_bytes
          MaxRecords,      \* limits.max_records
          MaxBytes,        \* limits.max_bytes
          None

(* GatewayIdempotencyLimits::validate: all nonzero, one reservation fits.     *)
ASSUME EvidenceLimits ==
  /\ {KeyBytes, MaxRecordBytes, MaxRecords, MaxBytes} \subseteq Nat \ {0}
  /\ KeyBytes + MaxRecordBytes <= MaxBytes

VARIABLES rows, epoch, usage

storeVars == <<rows, epoch, usage>>

(* The effective key binds the caller material to its retry epoch.            *)
Keys == [id : Ids, epoch : 0..MaxEpoch]

(* Fault: a reservation is charged only what its own row takes                *)
PendingOwnSize(h, o) ==
  [state |-> "pending", hash |-> h, owner |-> o, charge |-> KeyBytes + 1, result |-> None]
(* A reservation is charged a full result, so settling never needs more.      *)
Pending(h, o) ==
  [state |-> "pending", hash |-> h, owner |-> o,
   charge |-> KeyBytes + MaxRecordBytes, result |-> None]
Committed(h, r) ==
  [state |-> "committed", hash |-> h, owner |-> None, charge |-> KeyBytes + r.size, result |-> r]
Retired(h) ==
  [state |-> "retired", hash |-> h, owner |-> None, charge |-> KeyBytes + 1, result |-> None]
NoRow == [state |-> "absent", hash |-> None, owner |-> None, charge |-> 0, result |-> None]

Present(k) == rows[k].state # "absent"

(* require_retirable: every effect of the result is known.                    *)
Retirable(row) ==
  row.state = "committed" /\ row.result.certain /\ row.result.outcome # "unknown"
Reclaimable(k, current) ==
  /\ k.epoch < current
  /\ rows[k].state = "retired" \/ Retirable(rows[k])

StoreInit ==
  /\ rows = [k \in Keys |-> NoRow]
  /\ epoch = 0
  /\ usage = [records |-> 0, bytes |-> 0]

----------------------------------------------------------------------------
(* Fault: an identity of a closed range is reserved like any other            *)
ReserveAnyEpoch(k, pending) ==
  CASE Present(k) -> "present"
    [] ~Present(k) ->
         IF usage.records + 1 > MaxRecords \/ usage.bytes + pending.charge > MaxBytes
         THEN "full" ELSE "new"
(* What the transaction of `reserve` answers.                                 *)
ReserveAnswer(k, pending) ==
  CASE Present(k) -> "present"
    [] ~Present(k) /\ k.epoch # epoch -> "closed"
    [] ~Present(k) /\ k.epoch = epoch ->
         IF usage.records + 1 > MaxRecords \/ usage.bytes + pending.charge > MaxBytes
         THEN "full" ELSE "new"

Reserve(k, pending) ==
  /\ rows' = [rows EXCEPT ![k] = pending]
  /\ usage' = [records |-> usage.records + 1, bytes |-> usage.bytes + pending.charge]
  /\ UNCHANGED epoch

(* `change` applies to the exact pending value the caller holds.              *)
CompleteAnswer(k, pending, r) ==
  CASE rows[k] # pending -> "conflict"
    [] rows[k] = pending /\ r.size > MaxRecordBytes -> "oversized"
    [] OTHER -> IF usage.bytes - pending.charge + KeyBytes + r.size > MaxBytes
                THEN "full" ELSE "ok"

Complete(k, r) ==
  /\ rows' = [rows EXCEPT ![k] = Committed(rows[k].hash, r)]
  /\ usage' = [usage EXCEPT !.bytes = @ - rows[k].charge + KeyBytes + r.size]
  /\ UNCHANGED epoch

ReleaseAnswer(k, pending) == IF rows[k] = pending THEN "ok" ELSE "conflict"

Release(k) ==
  /\ rows' = [rows EXCEPT ![k] = NoRow]
  /\ usage' = [records |-> usage.records - 1, bytes |-> usage.bytes - rows[k].charge]
  /\ UNCHANGED epoch

Retire(k) ==
  /\ Retirable(rows[k])
  /\ rows' = [rows EXCEPT ![k] = Retired(rows[k].hash)]
  /\ usage' = [usage EXCEPT !.bytes = @ - rows[k].charge + KeyBytes + 1]
  /\ UNCHANGED epoch

Charges(K) == MapThenSumSet(LAMBDA k : rows[k].charge, K)

(* The closure and what it reclaims are one transaction.                      *)
CloseRetryEpoch ==
  LET gone == {k \in Keys : Reclaimable(k, epoch + 1)} IN
  /\ epoch' = epoch + 1
  /\ rows' = [k \in Keys |-> IF k \in gone THEN NoRow ELSE rows[k]]
  /\ usage' = [records |-> usage.records - Cardinality(gone),
               bytes |-> usage.bytes - Charges(gone)]

----------------------------------------------------------------------------
(* Reopening requires the stored accounting to match the rows; a reservation  *)
(* can always be settled with the largest result, whatever came after it.     *)
EvidenceAccounted ==
  LET held == {k \in Keys : Present(k)} IN
  /\ usage = [records |-> Cardinality(held), bytes |-> Charges(held)]
  /\ usage.records <= MaxRecords
  /\ \A k \in held : rows[k].state = "pending" =>
       usage.bytes - rows[k].charge + KeyBytes + MaxRecordBytes <= MaxBytes
==============================================================================
