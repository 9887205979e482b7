------------------------- MODULE ChiaveIdempotente -------------------------
(***************************************************************************)
(* What POST /v1/reconciliations promises of an Idempotency-Key: it names  *)
(* one run, which is executed once, whose effects are there exactly when   *)
(* it is completed, and whose outcome does not change; a GDPR deletion     *)
(* removes runs and effects together and makes the keys new again.  Module *)
(* SyncRun implements it with concurrent requests, tasks in three          *)
(* transactions and a deletion statement by statement.                     *)
(***************************************************************************)
CONSTANT Chiavi

VARIABLES
  stato,   \* [Chiavi -> ...]: of the run of each key
  effetti  \* keys whose run has left its rows

vars == <<stato, effetti>>

Init ==
  /\ stato = [k \in Chiavi |-> "libera"]
  /\ effetti = {}

Accetta(k) ==
  /\ stato[k] = "libera" /\ stato' = [stato EXCEPT ![k] = "queued"]
  /\ UNCHANGED effetti

Avvia(k) ==
  /\ stato[k] = "queued" /\ stato' = [stato EXCEPT ![k] = "running"]
  /\ UNCHANGED effetti

Completa(k) ==
  /\ stato[k] = "running" /\ stato' = [stato EXCEPT ![k] = "completed"]
  /\ effetti' = effetti \cup {k}

Fallisce(k) ==
  /\ stato[k] \in {"queued", "running"} /\ stato' = [stato EXCEPT ![k] = "failed"]
  /\ UNCHANGED effetti

CancellaTutto ==
  /\ stato' = [k \in Chiavi |-> "libera"]
  /\ effetti' = {}

Next ==
  \/ \E k \in Chiavi : Accetta(k) \/ Avvia(k) \/ Completa(k) \/ Fallisce(k)
  \/ CancellaTutto

Spec == Init /\ [][Next]_vars
=============================================================================
