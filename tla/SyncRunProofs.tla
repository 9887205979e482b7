--------------------------- MODULE SyncRunProofs ---------------------------
(***************************************************************************)
(* Proofs about module SyncRun, for any number of concurrent requests,     *)
(* keys, errors, restarts and deletions.  The invariant says how far the   *)
(* row of a run can be for each place of its request and of its task:      *)
(* every step that writes the row reads it stale by at most a deletion.    *)
(***************************************************************************)
EXTENDS SyncRun, TLAPS

ChiaviUniche ==
  \A q, s \in Richieste : Presente(q) /\ Presente(s) /\ chiave[q] = chiave[s] => q = s

RispostaGiusta ==
  \A r \in Richieste : esito[r] = "accettata" => chiave[runId[r]] = chiave[r]

\* The handler of r before its task exists.
PrimaDelTask ==
  \A r \in Richieste :
    /\ pc[r] \in {"arrivo", "attive", "inserisci", "rileggi"} => run[r] = "assente"
    /\ pc[r] = "accoda" => run[r] \in {"queued", "cancellata"}
    /\ pc[r] # "fine" => task[r] = "nessuno"

\* The row of r while its task works.
RigaDelTask ==
  \A r \in Richieste :
    /\ task[r] = "accodato" => run[r] \in {"queued", "cancellata"}
    /\ task[r] \in {"avviato", "ciclo"} => run[r] \in {"running", "cancellata"}
    /\ task[r] = "errore" => run[r] \in {"queued", "running", "cancellata"}

EsecuzioniContate ==
  \A r \in Richieste :
    /\ esecuzioni[r] <= 1
    /\ task[r] \in {"nessuno", "accodato", "avviato"} => esecuzioni[r] = 0

Inv ==
  /\ TypeOK
  /\ ChiaviUniche /\ RispostaGiusta
  /\ PrimaDelTask /\ RigaDelTask
  /\ EsecuzioniContate
  /\ EffettiSoloSeCompletata

\* What a step may do to the row of a run.
EsitoFermo ==
  \A q \in Richieste :
    /\ run[q] \in STATI_RUN_CONCLUSI => run'[q] \in {run[q], "cancellata"}
    /\ run[q] = "cancellata" => run'[q] = "cancellata"

USE DEF STATI_RUN_ATTIVI, STATI_RUN_CONCLUSI

\* The initial state has no run.
LEMMA InvInit == Init => Inv
<1> SUFFICES ASSUME Init PROVE Inv
  OBVIOUS
<1>1. TypeOK
  <2>1. /\ pc \in [Richieste -> {"arrivo", "attive", "inserisci", "accoda", "rileggi", "fine"}]
        /\ esito \in [Richieste -> {"nessuno", "accettata", "run_in_progress", "internal"}]
        /\ task \in [Richieste -> {"nessuno", "accodato", "avviato", "ciclo", "errore",
                                  "finito", "perso"}]
    BY DEF Init
  <2>2. /\ runId \in [Richieste -> Richieste]
        /\ run \in [Richieste -> StatiRiga]
        /\ esecuzioni \in [Richieste -> Nat]
    BY DEF Init, StatiRiga
  <2>3. errori \in 0 .. MaxErrori /\ riavvii \in 0 .. MaxRiavvii
        /\ cancellazioni \in 0 .. MaxCancellazioni
    BY SyncRunAssumption DEF Init
  <2> QED BY <2>1, <2>2, <2>3 DEF Init, TypeOK
<1>2. ChiaviUniche /\ RispostaGiusta
  BY DEF Init, ChiaviUniche, RispostaGiusta, Presente
<1>3. PrimaDelTask /\ RigaDelTask /\ EsecuzioniContate /\ EffettiSoloSeCompletata
  BY DEF Init, PrimaDelTask, RigaDelTask, EsecuzioniContate, EffettiSoloSeCompletata
<1> QED BY <1>1, <1>2, <1>3 DEF Inv

\* A step of a handler that writes no row.
LEMMA RispostaInv ==
  ASSUME Inv, NEW r \in Richieste, CercaChiave(r) \/ CercaAttive(r) \/ Rilegge(r)
  PROVE  Inv' /\ EsitoFermo
<1>1. /\ chiave' = chiave /\ run' = run /\ task' = task /\ esecuzioni' = esecuzioni
      /\ dati' = dati /\ notifiche' = notifiche /\ gdpr' = gdpr /\ lette' = lette
      /\ errori' = errori /\ riavvii' = riavvii /\ cancellazioni' = cancellazioni
  BY DEF CercaChiave, CercaAttive, Rilegge, varsDati, varsGdpr, contatori
<1>2. pc[r] \in {"arrivo", "attive", "rileggi"}
  BY DEF CercaChiave, CercaAttive, Rilegge
<1>3. \/ \E dopo \in {"attive", "inserisci"} : Passa(r, dopo)
      \/ \E q \in ConChiaveDi(r) : Risponde(r, "accettata", q)
      \/ \E x \in {"run_in_progress", "internal"} : Risponde(r, x, r)
  BY DEF CercaChiave, CercaAttive, Rilegge
<1>4. /\ pc' \in [Richieste -> {"arrivo", "attive", "inserisci", "accoda", "rileggi", "fine"}]
      /\ esito' \in [Richieste -> {"nessuno", "accettata", "run_in_progress", "internal"}]
      /\ runId' \in [Richieste -> Richieste]
      /\ \A s \in Richieste : pc'[s] # pc[s] => s = r /\ pc'[r] \in {"attive", "inserisci", "fine"}
  BY <1>3 DEF Inv, TypeOK, Passa, Risponde, ConChiaveDi
<1>5. \A s \in Richieste :
        \/ esito'[s] # "accettata"
        \/ esito'[s] = esito[s] /\ runId'[s] = runId[s]
        \/ chiave[runId'[s]] = chiave[s]
  BY <1>3 DEF Inv, TypeOK, Passa, Risponde, ConChiaveDi
<1>6. TypeOK'
  BY <1>1, <1>4 DEF Inv, TypeOK
<1>7. RispostaGiusta'
  BY <1>1, <1>5 DEF Inv, RispostaGiusta
<1>8. PrimaDelTask'
  BY <1>1, <1>2, <1>4 DEF Inv, PrimaDelTask
<1>9. ChiaviUniche' /\ RigaDelTask' /\ EsecuzioniContate' /\ EffettiSoloSeCompletata'
  BY <1>1 DEF Inv, ChiaviUniche, RigaDelTask, EsecuzioniContate, EffettiSoloSeCompletata, Presente
<1> QED BY <1>1, <1>6, <1>7, <1>8, <1>9 DEF Inv, EsitoFermo

\* The insert of a run, where the unique key is checked.
LEMMA InserisceRunInv ==
  ASSUME Inv, NEW r \in Richieste, InserisceRun(r)
  PROVE  Inv' /\ EsitoFermo
<1>1. /\ chiave' = chiave /\ esito' = esito /\ runId' = runId
      /\ task' = task /\ esecuzioni' = esecuzioni
      /\ dati' = dati /\ notifiche' = notifiche /\ gdpr' = gdpr /\ lette' = lette
      /\ errori' = errori /\ riavvii' = riavvii /\ cancellazioni' = cancellazioni
      /\ pc[r] = "inserisci" /\ run[r] = "assente"
  BY DEF InserisceRun, Passa, varsDati, varsGdpr, contatori, Inv, PrimaDelTask
<1>2. CASE ConChiaveDi(r) # {}
  <2>1. run' = run /\ pc' = [pc EXCEPT ![r] = "rileggi"]
    BY <1>2 DEF InserisceRun, Passa
  <2>2. TypeOK' /\ PrimaDelTask'
    BY <1>1, <2>1 DEF Inv, TypeOK, PrimaDelTask
  <2>3. /\ ChiaviUniche' /\ RispostaGiusta' /\ RigaDelTask' /\ EsecuzioniContate'
        /\ EffettiSoloSeCompletata'
    BY <1>1, <2>1 DEF Inv, ChiaviUniche, RispostaGiusta, RigaDelTask, EsecuzioniContate,
                      EffettiSoloSeCompletata, Presente
  <2> QED BY <2>1, <2>2, <2>3 DEF Inv, EsitoFermo
<1>3. CASE ConChiaveDi(r) = {}
  <2>1. run' = [run EXCEPT ![r] = "queued"] /\ pc' = [pc EXCEPT ![r] = "accoda"]
    BY <1>3 DEF InserisceRun, Passa
  <2>2. TypeOK' /\ PrimaDelTask'
    BY <1>1, <2>1 DEF Inv, TypeOK, PrimaDelTask, StatiRiga
  <2>3. ChiaviUniche'
    BY <1>1, <1>3, <2>1 DEF Inv, TypeOK, ChiaviUniche, ConChiaveDi, Presente
  <2>4. RispostaGiusta' /\ RigaDelTask' /\ EsecuzioniContate' /\ EffettiSoloSeCompletata'
    BY <1>1, <2>1 DEF Inv, TypeOK, RispostaGiusta, PrimaDelTask, RigaDelTask, EsecuzioniContate,
                      EffettiSoloSeCompletata
  <2> QED BY <1>1, <2>1, <2>2, <2>3, <2>4 DEF Inv, TypeOK, EsitoFermo
<1> QED BY <1>2, <1>3

\* The answer that hands the run to its task.
LEMMA AccodaTaskInv ==
  ASSUME Inv, NEW r \in Richieste, AccodaTask(r)
  PROVE  Inv' /\ EsitoFermo
<1>1. /\ chiave' = chiave /\ run' = run /\ esecuzioni' = esecuzioni
      /\ dati' = dati /\ notifiche' = notifiche /\ gdpr' = gdpr /\ lette' = lette
      /\ errori' = errori /\ riavvii' = riavvii /\ cancellazioni' = cancellazioni
      /\ pc[r] = "accoda" /\ task[r] = "nessuno" /\ run[r] \in {"queued", "cancellata"}
      /\ pc' = [pc EXCEPT ![r] = "fine"] /\ esito' = [esito EXCEPT ![r] = "accettata"]
      /\ runId' = [runId EXCEPT ![r] = r] /\ task' = [task EXCEPT ![r] = "accodato"]
  BY DEF AccodaTask, Risponde, varsDati, varsGdpr, contatori, Inv, PrimaDelTask
<1>2. TypeOK'
  BY <1>1 DEF Inv, TypeOK
<1>3. PrimaDelTask' /\ RigaDelTask' /\ EsecuzioniContate' /\ RispostaGiusta'
  BY <1>1 DEF Inv, TypeOK, PrimaDelTask, RigaDelTask, EsecuzioniContate, RispostaGiusta
<1>4. ChiaviUniche' /\ EffettiSoloSeCompletata'
  BY <1>1 DEF Inv, ChiaviUniche, EffettiSoloSeCompletata, Presente
<1> QED BY <1>1, <1>2, <1>3, <1>4 DEF Inv, EsitoFermo

\* The steps of a task: its place moves, its row may.
LEMMA TaskInv ==
  ASSUME Inv, NEW r \in Richieste, PassoTask(r) \/ Errore(r)
  PROVE  Inv' /\ EsitoFermo
<1> DEFINE Fermo == /\ chiave' = chiave /\ pc' = pc /\ esito' = esito /\ runId' = runId
                    /\ gdpr' = gdpr /\ lette' = lette
                    /\ riavvii' = riavvii /\ cancellazioni' = cancellazioni
<1>1. CASE AvviaRun(r)
  <2>1. Fermo /\ esecuzioni' = esecuzioni /\ dati' = dati /\ notifiche' = notifiche
        /\ errori' = errori /\ task[r] = "accodato"
    BY <1>1 DEF AvviaRun, Avanza, varsRichiesta, varsDati, varsGdpr, contatori
  <2>2. \/ /\ run[r] = "queued" /\ run' = [run EXCEPT ![r] = "running"]
           /\ task' = [task EXCEPT ![r] = "avviato"]
        \/ run' = run /\ task' = [task EXCEPT ![r] = "finito"]
    BY <1>1, <2>1 DEF AvviaRun, Avanza, Inv, RigaDelTask, Presente
  <2>3. TypeOK'
    BY <2>1, <2>2 DEF Inv, TypeOK, StatiRiga
  <2>4. ChiaviUniche' /\ RispostaGiusta'
    BY <2>1, <2>2 DEF Inv, TypeOK, ChiaviUniche, RispostaGiusta, Presente
  <2>5. PrimaDelTask' /\ RigaDelTask' /\ EsecuzioniContate'
    BY <2>1, <2>2 DEF Inv, TypeOK, PrimaDelTask, RigaDelTask, EsecuzioniContate
  <2>6. EffettiSoloSeCompletata' /\ EsitoFermo
    BY <2>1, <2>2 DEF Inv, TypeOK, EffettiSoloSeCompletata, EsitoFermo
  <2> QED BY <2>3, <2>4, <2>5, <2>6 DEF Inv
<1>2. CASE EntraNelCiclo(r)
  <2>1. Fermo /\ run' = run /\ dati' = dati /\ notifiche' = notifiche
        /\ errori' = errori /\ task[r] = "avviato" /\ esecuzioni[r] = 0
    BY <1>2 DEF EntraNelCiclo, Avanza, varsRichiesta, varsDati, varsGdpr, contatori,
                Inv, EsecuzioniContate
  <2>2. \/ /\ esecuzioni' = [esecuzioni EXCEPT ![r] = 1]
           /\ task' = [task EXCEPT ![r] = "ciclo"]
        \/ esecuzioni' = esecuzioni /\ task' = [task EXCEPT ![r] = "finito"]
    BY <1>2, <2>1 DEF EntraNelCiclo, Avanza
  <2>3. TypeOK'
    BY <2>1, <2>2 DEF Inv, TypeOK
  <2>4. PrimaDelTask' /\ RigaDelTask' /\ EsecuzioniContate'
    BY <2>1, <2>2 DEF Inv, TypeOK, PrimaDelTask, RigaDelTask, EsecuzioniContate
  <2>5. ChiaviUniche' /\ RispostaGiusta' /\ EffettiSoloSeCompletata' /\ EsitoFermo
    BY <2>1 DEF Inv, ChiaviUniche, RispostaGiusta, EffettiSoloSeCompletata, Presente, EsitoFermo
  <2> QED BY <2>3, <2>4, <2>5 DEF Inv
<1>3. CASE ConcludeCiclo(r)
  <2>1. Fermo /\ esecuzioni' = esecuzioni /\ errori' = errori
        /\ task[r] = "ciclo" /\ run[r] = "running"
        /\ task' = [task EXCEPT ![r] = "finito"]
        /\ run' = [run EXCEPT ![r] = "completed"]
        /\ dati' = dati \cup {r} /\ notifiche' \in {notifiche, notifiche \cup {r}}
    BY <1>3 DEF ConcludeCiclo, Avanza, varsRichiesta, varsGdpr, contatori, Inv, RigaDelTask, Presente
  <2>2. TypeOK'
    BY <2>1 DEF Inv, TypeOK, StatiRiga
  <2>3. ChiaviUniche' /\ RispostaGiusta'
    BY <2>1 DEF Inv, TypeOK, ChiaviUniche, RispostaGiusta, Presente
  <2>4. PrimaDelTask' /\ RigaDelTask' /\ EsecuzioniContate'
    BY <2>1 DEF Inv, TypeOK, PrimaDelTask, RigaDelTask, EsecuzioniContate
  <2>5. EffettiSoloSeCompletata' /\ EsitoFermo
    BY <2>1 DEF Inv, TypeOK, EffettiSoloSeCompletata, EsitoFermo
  <2> QED BY <2>2, <2>3, <2>4, <2>5 DEF Inv
<1>4. CASE RigaSparita(r) \/ ErroreRun(r) \/ FallimentoNonSalvato(r)
  <2>1. Fermo /\ run' = run /\ esecuzioni' = esecuzioni /\ dati' = dati /\ notifiche' = notifiche
        /\ (errori' = errori \/ (errori < MaxErrori /\ errori' = errori + 1))
        /\ \/ task[r] \in {"accodato", "avviato", "ciclo"} /\ task' = [task EXCEPT ![r] = "errore"]
           \/ task' = [task EXCEPT ![r] = "finito"] /\ task[r] = "errore"
    BY <1>4 DEF RigaSparita, ErroreRun, FallimentoNonSalvato, Avanza, varsRichiesta, varsDati,
                varsGdpr, contatori
  <2>2. TypeOK'
    BY <2>1, SyncRunAssumption DEF Inv, TypeOK
  <2>3. PrimaDelTask' /\ RigaDelTask' /\ EsecuzioniContate'
    BY <2>1 DEF Inv, TypeOK, PrimaDelTask, RigaDelTask, EsecuzioniContate
  <2>4. ChiaviUniche' /\ RispostaGiusta' /\ EffettiSoloSeCompletata' /\ EsitoFermo
    BY <2>1 DEF Inv, ChiaviUniche, RispostaGiusta, EffettiSoloSeCompletata, Presente, EsitoFermo
  <2> QED BY <2>2, <2>3, <2>4 DEF Inv
<1>5. CASE SegnaFallita(r)
  <2>1. Fermo /\ esecuzioni' = esecuzioni /\ dati' = dati /\ notifiche' = notifiche
        /\ errori' = errori /\ task[r] = "errore"
        /\ task' = [task EXCEPT ![r] = "finito"]
        /\ \/ run[r] \in {"queued", "running"} /\ run' = [run EXCEPT ![r] = "failed"]
           \/ run' = run
    BY <1>5 DEF SegnaFallita, Avanza, varsRichiesta, varsDati, varsGdpr, contatori, Inv,
                RigaDelTask, Presente
  <2>2. TypeOK'
    BY <2>1 DEF Inv, TypeOK, StatiRiga
  <2>3. ChiaviUniche' /\ RispostaGiusta'
    BY <2>1 DEF Inv, TypeOK, ChiaviUniche, RispostaGiusta, Presente
  <2>4. PrimaDelTask' /\ RigaDelTask' /\ EsecuzioniContate'
    BY <2>1 DEF Inv, TypeOK, PrimaDelTask, RigaDelTask, EsecuzioniContate
  <2>5. EffettiSoloSeCompletata' /\ EsitoFermo
    BY <2>1 DEF Inv, TypeOK, EffettiSoloSeCompletata, EsitoFermo
  <2> QED BY <2>2, <2>3, <2>4, <2>5 DEF Inv
<1> QED BY <1>1, <1>2, <1>3, <1>4, <1>5 DEF PassoTask, Errore

\* The two halves of a deletion.
LEMMA CancellazioneInv ==
  ASSUME Inv, CancellaNotifiche \/ CancellaResto
  PROVE  Inv' /\ EsitoFermo
<1>1. CASE CancellaNotifiche
  <2>1. /\ chiave' = chiave /\ pc' = pc /\ esito' = esito /\ runId' = runId /\ run' = run
        /\ task' = task /\ esecuzioni' = esecuzioni /\ dati' = dati
    BY <1>1 DEF CancellaNotifiche, varsRichiesta, varsDati
  <2>2. TypeOK'
    BY <1>1, SyncRunAssumption DEF CancellaNotifiche, Inv, TypeOK, varsRichiesta, varsDati
  <2> QED BY <2>1, <2>2
          DEF Inv, ChiaviUniche, RispostaGiusta, PrimaDelTask, RigaDelTask, EsecuzioniContate,
              EffettiSoloSeCompletata, Presente, EsitoFermo
<1>2. CASE CancellaResto
  <2>1. /\ chiave' = chiave /\ pc' = pc /\ esito' = esito /\ runId' = runId
        /\ task' = task /\ esecuzioni' = esecuzioni /\ dati' = {}
        /\ \A q \in Richieste : run'[q] = IF Presente(q) THEN "cancellata" ELSE run[q]
    BY <1>2 DEF CancellaResto, varsRichiesta
  <2>2. TypeOK'
    BY <1>2 DEF CancellaResto, Inv, TypeOK, varsRichiesta, contatori, StatiRiga
  <2>3. ChiaviUniche' /\ RispostaGiusta' /\ EffettiSoloSeCompletata' /\ EsitoFermo
    BY <2>1 DEF Inv, ChiaviUniche, RispostaGiusta, EffettiSoloSeCompletata, Presente, EsitoFermo
  <2>4. PrimaDelTask' /\ RigaDelTask' /\ EsecuzioniContate'
    BY <2>1 DEF Inv, PrimaDelTask, RigaDelTask, EsecuzioniContate, Presente
  <2> QED BY <2>2, <2>3, <2>4 DEF Inv
<1> QED BY <1>1, <1>2

\* A restart of the process.
LEMMA RiavvioInv ==
  ASSUME Inv, Riavvio
  PROVE  Inv' /\ EsitoFermo
<1>1. /\ chiave' = chiave /\ esito' = esito /\ runId' = runId /\ run' = run
      /\ esecuzioni' = esecuzioni /\ dati' = dati
      /\ \A r \in Richieste :
           /\ pc'[r] = IF pc[r] = "arrivo" THEN "arrivo" ELSE "fine"
           /\ task'[r] = IF task[r] \in {"nessuno", "finito"} THEN task[r] ELSE "perso"
  BY DEF Riavvio, varsDati
<1>2. TypeOK'
  <2>1. /\ pc' \in [Richieste -> {"arrivo", "attive", "inserisci", "accoda", "rileggi", "fine"}]
        /\ task' \in [Richieste -> {"nessuno", "accodato", "avviato", "ciclo", "errore",
                                   "finito", "perso"}]
    BY DEF Riavvio, Inv, TypeOK
  <2>2. /\ notifiche' = notifiche /\ gdpr' = FALSE /\ lette' = {}
        /\ errori' = errori /\ cancellazioni' = cancellazioni
        /\ riavvii' \in 0 .. MaxRiavvii
    BY SyncRunAssumption DEF Riavvio, Inv, TypeOK, varsDati
  <2> QED BY <1>1, <2>1, <2>2 DEF Inv, TypeOK
<1>3. ChiaviUniche' /\ RispostaGiusta' /\ EffettiSoloSeCompletata' /\ EsitoFermo
  BY <1>1 DEF Inv, ChiaviUniche, RispostaGiusta, EffettiSoloSeCompletata, Presente, EsitoFermo
<1>4. PrimaDelTask'
  BY <1>1 DEF Inv, TypeOK, PrimaDelTask
<1>5. RigaDelTask' /\ EsecuzioniContate'
  BY <1>1 DEF Inv, TypeOK, RigaDelTask, EsecuzioniContate
<1> QED BY <1>2, <1>3, <1>4, <1>5 DEF Inv

\* Every step preserves the invariant and leaves concluded runs alone.
LEMMA PassoInv == Inv /\ [Next]_vars => Inv' /\ (EsitoFermo \/ run' = run)
<1> SUFFICES ASSUME Inv, [Next]_vars PROVE Inv' /\ (EsitoFermo \/ run' = run)
  OBVIOUS
<1>1. ASSUME NEW r \in Richieste, PassoRichiesta(r) PROVE Inv' /\ EsitoFermo
  BY <1>1, RispostaInv, InserisceRunInv, AccodaTaskInv DEF PassoRichiesta
<1>2. ASSUME NEW r \in Richieste, PassoTask(r) \/ Errore(r) PROVE Inv' /\ EsitoFermo
  BY <1>2, TaskInv
<1>3. CASE UNCHANGED vars
  BY <1>3 DEF vars, varsRichiesta, varsDati, varsGdpr, contatori, Inv, TypeOK, ChiaviUniche,
              RispostaGiusta, PrimaDelTask, RigaDelTask, EsecuzioniContate,
              EffettiSoloSeCompletata, Presente
<1> QED BY <1>1, <1>2, <1>3, CancellazioneInv, RiavvioInv DEF Next

-----------------------------------------------------------------------------
\* The invariant holds in every reachable state: the row of a run is always
\* where its request and its task left it, or deleted.
THEOREM Invariante == Spec => []Inv
  BY InvInit, PassoInv, PTL DEF Spec

\* Every variable keeps its type, and the bounds are respected.
THEOREM Tipi == Spec => []TypeOK
<1>1. Inv => TypeOK
  BY DEF Inv
<1> QED BY <1>1, Invariante, PTL

\* The retry of an accepted request gets the same run, also when the two race:
\* of two requests with the same key that were accepted, and whose runs are
\* still there, the run is the same (start_reconciliation).
THEOREM RiprovaSicura == Spec => []StessaChiaveStessaRun
<1>1. Inv => StessaChiaveStessaRun
  BY DEF Inv, TypeOK, ChiaviUniche, RispostaGiusta, StessaChiaveStessaRun, Accettata
<1> QED BY <1>1, Invariante, PTL

\* No run is executed twice, and of the runs with one key at most one was
\* executed and is still there.
THEOREM EsecuzioneUnica == Spec => []UnaEsecuzionePerChiave
<1>1. Inv => UnaEsecuzionePerChiave
  BY DEF Inv, ChiaviUniche, EsecuzioniContate, UnaEsecuzionePerChiave
<1> QED BY <1>1, Invariante, PTL

\* Business rows are in the database exactly for the runs recorded as
\* COMPLETED, whatever errors, restarts and deletions met them (esegui_run).
THEOREM TuttoONiente == Spec => []EffettiSoloSeCompletata
<1>1. Inv => EffettiSoloSeCompletata
  BY DEF Inv
<1> QED BY <1>1, Invariante, PTL

\* The outcome of a run is final and a deleted run never comes back.
THEOREM EsitoStabile == Spec => EsitoDefinitivo
<1>1. Inv /\ [Next]_vars =>
        [\A q \in Richieste :
           /\ run[q] \in STATI_RUN_CONCLUSI => run'[q] \in {run[q], "cancellata"}
           /\ run[q] = "cancellata" => run'[q] = "cancellata"]_vars
  BY PassoInv DEF EsitoFermo
<1> QED BY <1>1, Invariante, PTL DEF Spec, EsitoDefinitivo
-----------------------------------------------------------------------------
(***************************************************************************)
(* The refinement of ChiaveIdempotente.  A key is in the state of its one  *)
(* run in the database, so what a step does to the keys is read off what   *)
(* it does to the rows.                                                    *)
(***************************************************************************)
Nuova(r) ==
  /\ run[r] = "assente" /\ ConChiaveDi(r) = {}
  /\ run' = [run EXCEPT ![r] = "queued"] /\ dati' = dati

Partita(r) ==
  /\ run[r] = "queued"
  /\ run' = [run EXCEPT ![r] = "running"] /\ dati' = dati

Riuscita(r) ==
  /\ run[r] = "running"
  /\ run' = [run EXCEPT ![r] = "completed"] /\ dati' = dati \cup {r}

Guasta(r) ==
  /\ run[r] \in {"queued", "running"}
  /\ run' = [run EXCEPT ![r] = "failed"] /\ dati' = dati

Svuotate ==
  /\ run' = [q \in Richieste |-> IF Presente(q) THEN "cancellata" ELSE run[q]]
  /\ dati' = {}

\* All that a step does to the rows of the runs.
LEMMA PassoRighe ==
  ASSUME Inv, [Next]_vars
  PROVE  /\ chiave' = chiave
         /\ \/ run' = run /\ dati' = dati
            \/ \E r \in Richieste : Nuova(r) \/ Partita(r) \/ Riuscita(r) \/ Guasta(r)
            \/ Svuotate
<1>1. ASSUME NEW r \in Richieste, PassoRichiesta(r)
      PROVE  chiave' = chiave /\ dati' = dati /\ (run' = run \/ Nuova(r))
  <2>1. CASE InserisceRun(r)
    BY <2>1 DEF InserisceRun, Nuova, Inv, PrimaDelTask, varsDati
  <2> QED BY <1>1, <2>1 DEF PassoRichiesta, CercaChiave, CercaAttive, AccodaTask, Rilegge, varsDati
<1>2. ASSUME NEW r \in Richieste, PassoTask(r)
      PROVE  /\ chiave' = chiave
             /\ \/ run' = run /\ dati' = dati
                \/ Partita(r) \/ Riuscita(r) \/ Guasta(r)
  <2>1. CASE AvviaRun(r)
    BY <2>1 DEF AvviaRun, Avanza, Partita, Inv, RigaDelTask, Presente, varsDati
  <2>2. CASE ConcludeCiclo(r)
    BY <2>2 DEF ConcludeCiclo, Avanza, Riuscita, Inv, RigaDelTask, Presente
  <2>3. CASE SegnaFallita(r)
    BY <2>3 DEF SegnaFallita, Avanza, Guasta, Inv, RigaDelTask, Presente, varsDati
  <2>4. CASE EntraNelCiclo(r) \/ RigaSparita(r)
    BY <2>4 DEF EntraNelCiclo, RigaSparita, varsDati
  <2> QED BY <1>2, <2>1, <2>2, <2>3, <2>4 DEF PassoTask
<1>3. ASSUME NEW r \in Richieste, Errore(r)
      PROVE  chiave' = chiave /\ run' = run /\ dati' = dati
  BY <1>3 DEF Errore, ErroreRun, FallimentoNonSalvato, varsDati
<1>4. CASE CancellaNotifiche \/ Riavvio \/ UNCHANGED vars
  BY <1>4 DEF CancellaNotifiche, Riavvio, vars, varsDati
<1>5. CASE CancellaResto
  BY <1>5 DEF CancellaResto, Svuotate
<1> QED BY <1>1, <1>2, <1>3, <1>4, <1>5 DEF Next

\* The state of a key is that of the run it has, "libera" if it has none.
StatiDelleRun ==
  \A k \in Chiavi :
    /\ \A q \in Richieste : Presente(q) /\ chiave[q] = k => StatoChiave(k) = run[q]
    /\ (\A q \in Richieste : Presente(q) => chiave[q] # k) => StatoChiave(k) = "libera"

\* Because a key has at most one run in the database.
LEMMA StatoDellaRun == Inv => StatiDelleRun
<1> SUFFICES ASSUME ChiaviUniche, NEW k \in Chiavi
             PROVE  /\ \A q \in Richieste : Presente(q) /\ chiave[q] = k => StatoChiave(k) = run[q]
                    /\ (\A q \in Richieste : Presente(q) => chiave[q] # k)
                         => StatoChiave(k) = "libera"
  BY DEF Inv, StatiDelleRun
<1>1. ASSUME NEW q \in Richieste, Presente(q), chiave[q] = k
      PROVE  StatoChiave(k) = run[q]
  <2> DEFINE s == CHOOSE s \in Richieste : Presente(s) /\ chiave[s] = k
  <2>1. s \in Richieste /\ Presente(s) /\ chiave[s] = k
    BY <1>1
  <2>2. s = q
    BY <1>1, <2>1 DEF ChiaviUniche
  <2> QED BY <1>1, <2>2 DEF StatoChiave
<1>2. ASSUME \A q \in Richieste : Presente(q) => chiave[q] # k
      PROVE  StatoChiave(k) = "libera"
  BY <1>2 DEF StatoChiave
<1> QED BY <1>1, <1>2

\* The same before and after a step.
LEMMA StatoPrimaEDopo == Inv /\ Inv' => StatiDelleRun /\ StatiDelleRun'
  BY StatoDellaRun, PTL

\* A step that leaves the rows of the other runs alone leaves the state of the
\* other keys alone.
LEMMA AltreChiavi ==
  ASSUME Inv, Inv', chiave' = chiave, NEW r \in Richieste, NEW k \in Chiavi, chiave[r] # k,
         \A q \in Richieste \ {r} : run'[q] = run[q]
  PROVE  StatoChiave(k)' = StatoChiave(k)
<1>1. StatiDelleRun /\ StatiDelleRun'
  BY StatoPrimaEDopo
<1>2. \A q \in Richieste : chiave[q] = k => run'[q] = run[q] /\ (Presente(q)' <=> Presente(q))
  BY DEF Presente
<1>3. CASE \E q \in Richieste : Presente(q) /\ chiave[q] = k
  BY <1>1, <1>2, <1>3 DEF StatiDelleRun
<1>4. CASE \A q \in Richieste : Presente(q) => chiave[q] # k
  BY <1>1, <1>2, <1>4 DEF StatiDelleRun
<1> QED BY <1>3, <1>4

\* Every step moves at most one key, as promised, or frees them all.
LEMMA PassoPromesso ==
  ASSUME Inv, Inv', [Next]_vars
  PROVE  [Promessa!Next]_(Promessa!vars)
<1> DEFINE stato == [k \in Chiavi |-> StatoChiave(k)]
           effetti == {k \in Chiavi : \E q \in dati : chiave[q] = k}
<1>0. /\ chiave' = chiave /\ chiave \in [Richieste -> Chiavi]
      /\ run \in [Richieste -> StatiRiga]
      /\ dati \subseteq Richieste /\ dati' \subseteq Richieste
      /\ StatiDelleRun /\ StatiDelleRun'
  BY PassoRighe, StatoPrimaEDopo DEF Inv, TypeOK
<1>1. CASE run' = run /\ dati' = dati
  <2>1. \A q \in Richieste : Presente(q)' <=> Presente(q)
    BY <1>1 DEF Presente
  <2>2. ASSUME NEW k \in Chiavi PROVE StatoChiave(k)' = StatoChiave(k)
    <3>1. CASE \E q \in Richieste : Presente(q) /\ chiave[q] = k
      BY <1>0, <1>1, <2>1, <3>1 DEF StatiDelleRun
    <3>2. CASE \A q \in Richieste : Presente(q) => chiave[q] # k
      BY <1>0, <1>1, <2>1, <3>2 DEF StatiDelleRun
    <3> QED BY <3>1, <3>2
  <2>3. stato' = stato
    BY <2>2
  <2>4. effetti' = effetti
    BY <1>0, <1>1
  <2> QED BY <2>3, <2>4 DEF Promessa!vars
<1>2. ASSUME NEW r \in Richieste, Nuova(r) \/ Partita(r) \/ Riuscita(r) \/ Guasta(r)
      PROVE  Promessa!Next
  <2>0. PICK k \in Chiavi : k = chiave[r]
    BY <1>0
  <2>1. run'[r] \in STATI_RUN_ATTIVI \cup STATI_RUN_CONCLUSI
        /\ \A q \in Richieste \ {r} : run'[q] = run[q]
    BY <1>0, <1>2 DEF Nuova, Partita, Riuscita, Guasta, StatiRiga
  <2>2. StatoChiave(k)' = run'[r]
    BY <1>0, <2>0, <2>1 DEF Presente, StatiDelleRun
  <2>3. \A j \in Chiavi \ {k} : StatoChiave(j)' = StatoChiave(j)
    BY <1>0, <2>0, <2>1, AltreChiavi
  <2>4. stato' = [stato EXCEPT ![k] = run'[r]]
    BY <2>2, <2>3
  <2>5. stato[k] = IF Nuova(r) THEN "libera" ELSE run[r]
    <3>1. CASE Nuova(r)
      BY <1>0, <2>0, <2>1, <3>1 DEF StatiDelleRun, Nuova, ConChiaveDi
    <3>2. CASE ~Nuova(r)
      BY <1>0, <1>2, <2>0, <2>1, <3>2 DEF StatiDelleRun, Partita, Riuscita, Guasta, Presente
    <3> QED BY <3>1, <3>2
  <2>6. effetti' = IF dati' = dati THEN effetti ELSE effetti \cup {k}
    BY <1>0, <1>2, <2>0, <2>1 DEF Nuova, Partita, Riuscita, Guasta
  <2> HIDE DEF stato, effetti
  <2>7. CASE Nuova(r)
    <3>1. stato[k] = "libera" /\ stato' = [stato EXCEPT ![k] = "queued"] /\ effetti' = effetti
      BY <1>0, <2>4, <2>5, <2>6, <2>7 DEF Nuova
    <3> QED BY <2>1, <3>1 DEF Promessa!Next, Promessa!Accetta, stato, effetti
  <2>8. CASE Partita(r)
    <3>1. stato[k] = "queued" /\ stato' = [stato EXCEPT ![k] = "running"] /\ effetti' = effetti
      BY <1>0, <2>4, <2>5, <2>6, <2>8 DEF Partita, Nuova
    <3> QED BY <2>1, <3>1 DEF Promessa!Next, Promessa!Avvia, stato, effetti
  <2>9. CASE Riuscita(r)
    <3>1. r \notin dati
      BY <2>9 DEF Riuscita, Inv, EffettiSoloSeCompletata
    <3>2. /\ stato[k] = "running" /\ stato' = [stato EXCEPT ![k] = "completed"]
          /\ effetti' = effetti \cup {k}
      BY <1>0, <2>4, <2>5, <2>6, <2>9, <3>1 DEF Riuscita, Nuova
    <3> QED BY <2>1, <3>2 DEF Promessa!Next, Promessa!Completa, stato, effetti
  <2>10. CASE Guasta(r)
    <3>1. /\ stato[k] \in {"queued", "running"} /\ stato' = [stato EXCEPT ![k] = "failed"]
          /\ effetti' = effetti
      BY <1>0, <2>4, <2>5, <2>6, <2>10 DEF Guasta, Nuova
    <3> QED BY <2>1, <3>1 DEF Promessa!Next, Promessa!Fallisce, stato, effetti
  <2> QED BY <1>2, <2>7, <2>8, <2>9, <2>10
<1>3. CASE Svuotate
  <2>1. \A q \in Richieste : ~Presente(q)'
    BY <1>0, <1>3 DEF Svuotate, Presente, StatiRiga
  <2>2. stato' = [k \in Chiavi |-> "libera"]
    BY <1>0, <2>1 DEF StatiDelleRun
  <2>3. effetti' = {}
    BY <1>3 DEF Svuotate
  <2> QED BY <2>2, <2>3 DEF Promessa!Next, Promessa!CancellaTutto
<1> QED BY <1>1, <1>2, <1>3, PassoRighe

\* The requests with their races and retries, the tasks, the failures and the
\* deletions, do to a key what the API promises of it and no more: the service
\* implements ChiaveIdempotente.
THEOREM ChiaveImplementata == Spec => ImplementaChiave
<1>1. Init => Promessa!Init
  <2> SUFFICES ASSUME Init PROVE Promessa!Init
    OBVIOUS
  <2>1. \A q \in Richieste : ~Presente(q)
    BY DEF Init, Presente
  <2>2. [k \in Chiavi |-> StatoChiave(k)] = [k \in Chiavi |-> "libera"]
    BY <2>1 DEF StatoChiave
  <2>3. {k \in Chiavi : \E q \in dati : chiave[q] = k} = {}
    BY DEF Init
  <2> QED BY <2>2, <2>3 DEF Promessa!Init
<1>2. Inv /\ Inv' /\ [Next]_vars => [Promessa!Next]_(Promessa!vars)
  BY PassoPromesso
<1> QED BY <1>1, <1>2, InvInit, PassoInv, PTL DEF Spec, ImplementaChiave, Promessa!Spec
=============================================================================
