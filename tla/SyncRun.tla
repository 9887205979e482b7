------------------------------ MODULE SyncRun ------------------------------
(***************************************************************************)
(* The life of a synchronization run: POST /v1/reconciliations             *)
(* (api/reconciliations.py), the background task that executes the run     *)
(* (services/sync_run.py) and the GDPR deletion of the tenant              *)
(* (api/tenant.py, adapters/db/repository.py), for one tenant.             *)
(*                                                                         *)
(* Requests are served by concurrent threads.  Each read and each commit   *)
(* is a step of its own, because PostgreSQL runs the transactions at READ  *)
(* COMMITTED and the code takes no locks: what a request read may be stale *)
(* when it writes.  The uniqueness of (tenant, Idempotency-Key) is checked *)
(* by the database when the row is written.                                *)
(*                                                                         *)
(* A run is named by the request that created it.  What its cycle writes   *)
(* is abstracted to two marks: rows of table notifica and all other rows.  *)
(***************************************************************************)
EXTENDS Integers

CONSTANTS
  Richieste,        \* POST requests
  Chiavi,           \* Idempotency-Keys
  MaxErrori,        \* bound: exceptions raised in the background tasks
  MaxRiavvii,       \* bound: restarts of the process
  MaxCancellazioni  \* bound: GDPR deletions

ASSUME SyncRunAssumption ==
  MaxErrori \in Nat /\ MaxRiavvii \in Nat /\ MaxCancellazioni \in Nat

VARIABLES
  chiave,      \* [Richieste -> Chiavi]: the key each request carries
  pc,          \* [Richieste -> ...]: where its handler stands
  esito,       \* [Richieste -> ...]: what it answered
  runId,       \* [Richieste -> Richieste]: the run of a 202 answer
  run,         \* [Richieste -> ...]: the state of the row of each run
  task,        \* [Richieste -> ...]: its background task
  esecuzioni,  \* [Richieste -> Nat]: cycles started for the run
  dati,        \* runs whose business rows are in the database
  notifiche,   \* runs with notices in the database
  gdpr,        \* TRUE while a deletion is half way
  lette,       \* notices its first statement has seen
  errori, riavvii, cancellazioni

varsRichiesta == <<pc, esito, runId>>
varsDati == <<dati, notifiche>>
varsGdpr == <<gdpr, lette>>
contatori == <<errori, riavvii, cancellazioni>>
vars == <<chiave, varsRichiesta, run, task, esecuzioni, varsDati, varsGdpr, contatori>>

STATI_RUN_ATTIVI == {"queued", "running"}
STATI_RUN_CONCLUSI == {"completed", "failed"}
StatiRiga == STATI_RUN_ATTIVI \cup STATI_RUN_CONCLUSI \cup {"assente", "cancellata"}

Presente(q) == run[q] \in STATI_RUN_ATTIVI \cup STATI_RUN_CONCLUSI

\* The committed runs with the key of request r.
ConChiaveDi(r) == {q \in Richieste : Presente(q) /\ chiave[q] = chiave[r]}

Init ==
  /\ chiave \in [Richieste -> Chiavi]
  /\ pc = [r \in Richieste |-> "arrivo"]
  /\ esito = [r \in Richieste |-> "nessuno"]
  /\ runId = [r \in Richieste |-> r]
  /\ run = [r \in Richieste |-> "assente"]
  /\ task = [r \in Richieste |-> "nessuno"]
  /\ esecuzioni = [r \in Richieste |-> 0]
  /\ dati = {} /\ notifiche = {}
  /\ gdpr = FALSE /\ lette = {}
  /\ errori = 0 /\ riavvii = 0 /\ cancellazioni = 0

-----------------------------------------------------------------------------
(***************************************************************************)
(* start_reconciliation.                                                   *)
(***************************************************************************)
Passa(r, dopo) ==
  /\ pc' = [pc EXCEPT ![r] = dopo]
  /\ UNCHANGED <<esito, runId>>

Risponde(r, codice, q) ==
  /\ pc' = [pc EXCEPT ![r] = "fine"]
  /\ esito' = [esito EXCEPT ![r] = codice]
  /\ runId' = [runId EXCEPT ![r] = q]

\* A run with this key exists: the retry gets it.
CercaChiave(r) ==
  /\ pc[r] = "arrivo"
  /\ IF ConChiaveDi(r) # {}
     THEN \E q \in ConChiaveDi(r) : Risponde(r, "accettata", q)
     ELSE Passa(r, "attive")
  /\ UNCHANGED <<chiave, run, task, esecuzioni, varsDati, varsGdpr, contatori>>

CercaAttive(r) ==
  /\ pc[r] = "attive"
  /\ IF \E q \in Richieste : run[q] \in STATI_RUN_ATTIVI
     THEN Risponde(r, "run_in_progress", r)
     ELSE Passa(r, "inserisci")
  /\ UNCHANGED <<chiave, run, task, esecuzioni, varsDati, varsGdpr, contatori>>

\* Fault: the row is written whatever keys are there.
InserisceRun_senzaVincolo(r) ==
  /\ pc[r] = "inserisci"
  /\ Passa(r, "accoda") /\ run' = [run EXCEPT ![r] = "queued"]
  /\ UNCHANGED <<chiave, task, esecuzioni, varsDati, varsGdpr, contatori>>

\* The insert and its commit, or the IntegrityError of uq (tenant, key).
InserisceRun(r) ==
  /\ pc[r] = "inserisci"
  /\ IF ConChiaveDi(r) # {}
     THEN Passa(r, "rileggi") /\ UNCHANGED run
     ELSE Passa(r, "accoda") /\ run' = [run EXCEPT ![r] = "queued"]
  /\ UNCHANGED <<chiave, task, esecuzioni, varsDati, varsGdpr, contatori>>

\* background.add_task and the 202 answer.
AccodaTask(r) ==
  /\ pc[r] = "accoda"
  /\ Risponde(r, "accettata", r)
  /\ task' = [task EXCEPT ![r] = "accodato"]
  /\ UNCHANGED <<chiave, run, esecuzioni, varsDati, varsGdpr, contatori>>

\* Fault: nobody checks that the winner is still there.
Rilegge_senzaControllo(r) ==
  /\ pc[r] = "rileggi"
  /\ IF ConChiaveDi(r) # {}
     THEN \E q \in ConChiaveDi(r) : Risponde(r, "accettata", q)
     ELSE Risponde(r, "accettata", "nessuna")
  /\ UNCHANGED <<chiave, run, task, esecuzioni, varsDati, varsGdpr, contatori>>

\* The loser of the race answers with the winner's run; a winner that a
\* deletion removed in the meantime makes it an internal error.
Rilegge(r) ==
  /\ pc[r] = "rileggi"
  /\ IF ConChiaveDi(r) # {}
     THEN \E q \in ConChiaveDi(r) : Risponde(r, "accettata", q)
     ELSE Risponde(r, "internal", r)
  /\ UNCHANGED <<chiave, run, task, esecuzioni, varsDati, varsGdpr, contatori>>

-----------------------------------------------------------------------------
(***************************************************************************)
(* esegui_run, in its three transactions.                                  *)
(***************************************************************************)
Avanza(r, prima, dopo) ==
  /\ task[r] = prima
  /\ task' = [task EXCEPT ![r] = dopo]

\* First transaction: RUNNING, unless the run was deleted.
AvviaRun(r) ==
  /\ IF Presente(r)
     THEN Avanza(r, "accodato", "avviato") /\ run' = [run EXCEPT ![r] = "running"]
     ELSE Avanza(r, "accodato", "finito") /\ UNCHANGED run
  /\ UNCHANGED <<chiave, varsRichiesta, esecuzioni, varsDati, varsGdpr, contatori>>

\* Second transaction: the run is read again, then the cycle works.
EntraNelCiclo(r) ==
  /\ IF Presente(r)
     THEN /\ Avanza(r, "avviato", "ciclo")
          /\ esecuzioni' = [esecuzioni EXCEPT ![r] = @ + 1]
     ELSE Avanza(r, "avviato", "finito") /\ UNCHANGED esecuzioni
  /\ UNCHANGED <<chiave, varsRichiesta, run, varsDati, varsGdpr, contatori>>

\* Fault: what the cycle wrote is committed although the row is gone.
ConcludeCiclo_cieca(r) ==
  /\ Avanza(r, "ciclo", "finito")
  /\ IF Presente(r) THEN run' = [run EXCEPT ![r] = "completed"] ELSE UNCHANGED run
  /\ dati' = dati \cup {r}
  /\ notifiche' \in {notifiche, notifiche \cup {r}}
  /\ UNCHANGED <<chiave, varsRichiesta, esecuzioni, varsGdpr, contatori>>

\* The commit writes COMPLETED on the row together with all the cycle did; on
\* a row that is gone the update fails and nothing of it remains.
ConcludeCiclo(r) ==
  /\ Presente(r)
  /\ Avanza(r, "ciclo", "finito")
  /\ run' = [run EXCEPT ![r] = "completed"]
  /\ dati' = dati \cup {r}
  /\ notifiche' \in {notifiche, notifiche \cup {r}}
  /\ UNCHANGED <<chiave, varsRichiesta, esecuzioni, varsGdpr, contatori>>

\* Any exception in the first two transactions.
ErroreRun(r) ==
  /\ errori < MaxErrori /\ errori' = errori + 1
  /\ \E prima \in {"accodato", "avviato", "ciclo"} : Avanza(r, prima, "errore")
  /\ UNCHANGED <<chiave, varsRichiesta, run, esecuzioni, varsDati, varsGdpr, riavvii, cancellazioni>>

RigaSparita(r) ==
  /\ ~Presente(r)
  /\ Avanza(r, "ciclo", "errore")
  /\ UNCHANGED <<chiave, varsRichiesta, run, esecuzioni, varsDati, varsGdpr, contatori>>

\* Fault: an exception that meets no row creates one.
SegnaFallita_sempre(r) ==
  /\ Avanza(r, "errore", "finito")
  /\ run' = [run EXCEPT ![r] = "failed"]
  /\ UNCHANGED <<chiave, varsRichiesta, esecuzioni, varsDati, varsGdpr, contatori>>

\* Fault: the failure is not recorded.
SegnaFallita_mai(r) ==
  /\ Avanza(r, "errore", "finito")
  /\ UNCHANGED <<chiave, varsRichiesta, run, esecuzioni, varsDati, varsGdpr, contatori>>

\* Third transaction: FAILED, if the run is still there.
SegnaFallita(r) ==
  /\ Avanza(r, "errore", "finito")
  /\ IF Presente(r) THEN run' = [run EXCEPT ![r] = "failed"] ELSE UNCHANGED run
  /\ UNCHANGED <<chiave, varsRichiesta, esecuzioni, varsDati, varsGdpr, contatori>>

\* The third transaction fails as well: the exception is only logged.
FallimentoNonSalvato(r) ==
  /\ errori < MaxErrori /\ errori' = errori + 1
  /\ Avanza(r, "errore", "finito")
  /\ UNCHANGED <<chiave, varsRichiesta, run, esecuzioni, varsDati, varsGdpr, riavvii, cancellazioni>>

-----------------------------------------------------------------------------
(***************************************************************************)
(* delete_tenant_data: one statement per table, table notifica first.  The *)
(* second step stands for the remaining statements and the commit: once    *)
(* the statement on sync_run, the second, has locked the rows of the runs, *)
(* their tasks wait for the commit.  A run inserted after that statement   *)
(* is taken as inserted after the commit.                                  *)
(***************************************************************************)
CancellaNotifiche ==
  /\ ~gdpr /\ gdpr' = TRUE
  /\ cancellazioni < MaxCancellazioni /\ cancellazioni' = cancellazioni + 1
  /\ lette' = notifiche
  /\ UNCHANGED <<chiave, varsRichiesta, run, task, esecuzioni, varsDati, errori, riavvii>>

CancellaResto ==
  /\ gdpr /\ gdpr' = FALSE /\ lette' = {}
  /\ notifiche' = notifiche \ lette
  /\ dati' = {}
  /\ run' = [q \in Richieste |-> IF Presente(q) THEN "cancellata" ELSE run[q]]
  /\ UNCHANGED <<chiave, varsRichiesta, task, esecuzioni, contatori>>

\* The process stops and starts again: what was in memory is lost, and
\* nothing at start-up looks for runs left behind.
Riavvio ==
  /\ riavvii < MaxRiavvii /\ riavvii' = riavvii + 1
  /\ pc' = [r \in Richieste |-> IF pc[r] = "arrivo" THEN "arrivo" ELSE "fine"]
  /\ task' = [r \in Richieste |->
                IF task[r] \in {"nessuno", "finito"} THEN task[r] ELSE "perso"]
  /\ gdpr' = FALSE /\ lette' = {}
  /\ UNCHANGED <<chiave, esito, runId, run, esecuzioni, varsDati, errori, cancellazioni>>

-----------------------------------------------------------------------------
PassoRichiesta(r) ==
  CercaChiave(r) \/ CercaAttive(r) \/ InserisceRun(r) \/ AccodaTask(r) \/ Rilegge(r)

PassoTask(r) ==
  AvviaRun(r) \/ EntraNelCiclo(r) \/ ConcludeCiclo(r) \/ RigaSparita(r) \/ SegnaFallita(r)

Errore(r) == ErroreRun(r) \/ FallimentoNonSalvato(r)

Next ==
  \/ \E r \in Richieste : PassoRichiesta(r) \/ PassoTask(r) \/ Errore(r)
  \/ CancellaNotifiche \/ CancellaResto
  \/ Riavvio

Spec == Init /\ [][Next]_vars

\* The threads of the server and of the background tasks keep running.
Fairness == \A r \in Richieste : WF_vars(PassoRichiesta(r)) /\ WF_vars(PassoTask(r))

FairSpec == Spec /\ Fairness

-----------------------------------------------------------------------------
(***************************************************************************)
(* Properties.                                                             *)
(***************************************************************************)
TypeOK ==
  /\ chiave \in [Richieste -> Chiavi]
  /\ pc \in [Richieste -> {"arrivo", "attive", "inserisci", "accoda", "rileggi", "fine"}]
  /\ esito \in [Richieste -> {"nessuno", "accettata", "run_in_progress", "internal"}]
  /\ runId \in [Richieste -> Richieste]
  /\ run \in [Richieste -> StatiRiga]
  /\ task \in [Richieste -> {"nessuno", "accodato", "avviato", "ciclo", "errore",
                             "finito", "perso"}]
  /\ esecuzioni \in [Richieste -> Nat]
  /\ dati \subseteq Richieste /\ notifiche \subseteq Richieste
  /\ gdpr \in BOOLEAN /\ lette \subseteq Richieste
  /\ errori \in 0 .. MaxErrori /\ riavvii \in 0 .. MaxRiavvii
  /\ cancellazioni \in 0 .. MaxCancellazioni

\* "A retry with the same key gets the same run" (api/reconciliations.py:60),
\* also when the two requests race: of all the requests with a key that were
\* accepted, those whose run was not deleted name one and the same run, and
\* that run has their key.
Accettata(r) == esito[r] = "accettata" /\ Presente(runId[r])

StessaChiaveStessaRun ==
  \A r, s \in Richieste :
    Accettata(r) /\ Accettata(s) /\ chiave[r] = chiave[s]
    => runId[r] = runId[s] /\ chiave[runId[r]] = chiave[r]

\* "... never a second execution" (the same docstring): over all the runs that
\* a key has in the database, the cycle is started at most once.
UnaEsecuzionePerChiave ==
  \A q, s \in Richieste :
    /\ esecuzioni[q] <= 1
    /\ Presente(q) /\ Presente(s) /\ chiave[q] = chiave[s]
       /\ esecuzioni[q] > 0 /\ esecuzioni[s] > 0
       => q = s

\* All or nothing: the business rows of a cycle are in the database only with
\* a run recorded as COMPLETED, so a run that failed, that is under way or
\* that a deletion removed half way has left none.
EffettiSoloSeCompletata ==
  /\ \A q \in dati : run[q] = "completed"
  /\ \A q \in Richieste : run[q] = "completed" => q \in dati

\* The outcome of a run is final, and a deleted run never comes back, whatever
\* its background task was doing.
EsitoDefinitivo ==
  [][\A q \in Richieste :
       /\ run[q] \in STATI_RUN_CONCLUSI => run'[q] \in {run[q], "cancellata"}
       /\ run[q] = "cancellata" => run'[q] = "cancellata"]_vars

\* As long as the process lives and the outcome can be saved, accepted runs
\* end: each completes, fails or is deleted, so that they do not hold the
\* tenant's other keys at 409 for ever.  One exception is not enough to leave a
\* run behind; a second one, while the first is being recorded, is.
Libero == \A q \in Richieste : run[q] \notin STATI_RUN_ATTIVI

OgniRunFinisce == ~Libero ~> Libero \/ riavvii > 0 \/ errori > 1

-----------------------------------------------------------------------------
(***************************************************************************)
(* What the keys promise, implemented: a key is in the state of the one    *)
(* run it has in the database.                                             *)
(***************************************************************************)
StatoChiave(k) ==
  IF \E q \in Richieste : Presente(q) /\ chiave[q] = k
  THEN run[CHOOSE q \in Richieste : Presente(q) /\ chiave[q] = k]
  ELSE "libera"

Promessa ==
  INSTANCE ChiaveIdempotente WITH
    stato <- [k \in Chiavi |-> StatoChiave(k)],
    effetti <- {k \in Chiavi : \E q \in dati : chiave[q] = k}

\* The requests with their races and retries, the tasks, the failures and the
\* deletions, do no more to a key than what it promises: in particular no run
\* is executed for a key that has one, nor goes on once it was deleted.
ImplementaChiave == Promessa!Spec

-----------------------------------------------------------------------------
(***************************************************************************)
(* A statement of the docs that the code does not keep.                    *)
(***************************************************************************)

\* api/reconciliations.py:66, "Una sola run attiva per tenant": the check and
\* the insert are two steps.
UnaSolaRunAttiva ==
  \A q, s \in Richieste :
    run[q] \in STATI_RUN_ATTIVI /\ run[s] \in STATI_RUN_ATTIVI => q = s
=============================================================================
