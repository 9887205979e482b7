--------------------------- MODULE IncassiProofs ---------------------------
(***************************************************************************)
(* Proofs about module Incassi: first the rows and their history, then the *)
(* money.                                                                  *)
(*                                                                         *)
(* What the cycle and the operator do to the rows of the tenant are        *)
(* operators on a record d.  Each of them has a lemma that says it keeps d *)
(* "Integro" (the inductive invariant of the rows), that what is history   *)
(* in d stays history (Permane) and that it records no new delivery.  Most *)
(* of them only move rows forward (Prosegue), which is enough for the      *)
(* three; the import and the replacement of the flow create rows and are   *)
(* proved directly.  The theorems then combine the lemmas, action by       *)
(* action.                                                                 *)
(***************************************************************************)
EXTENDS Letture, SommeProofs

\* A planned or past reminder is of an imported invoice and of a version of
\* the flow that exists.
ComunicazioniNate(d) ==
  \A c \in Comunicazioni :
    d.com[c] # "assente" => d.stato[c[1]] # "assente" /\ c[2] <= d.flusso

\* An imported invoice is in an existing position of its own debtor, and a
\* position exists only after the invoice whose import opened it.
PosizioniNote(d) ==
  \A f \in Fatture :
    /\ d.stato[f] # "assente" =>
         /\ d.statoPos[d.posizione[f]] # "assente"
         /\ Debitore[d.posizione[f]] = Debitore[f]
    /\ d.statoPos[f] # "assente" => d.stato[f] # "assente"

Integro(d) ==
  /\ d \in Database
  /\ SenzaPendenti(d)
  /\ DelFlussoAttivo(d)
  /\ ComunicazioniNate(d)
  /\ PosizioniNote(d)
  /\ ChiuseSenzaCrediti(d)
  /\ UnaAperta(d)

NessunNuovoInvio(d, e) ==
  \A c \in Comunicazioni : e.com[c] = "inviata" => d.com[c] = "inviata"

\* From d to e no row is created, planned reminders may be withdrawn, invoices
\* may leave the flow, positions without open invoices may be closed.
Prosegue(d, e) ==
  /\ e.flusso = d.flusso /\ e.posizione = d.posizione
  /\ d.pagamenti \subseteq e.pagamenti
  /\ \A f \in Fatture :
       /\ e.stato[f] = "assente" <=> d.stato[f] = "assente"
       /\ d.stato[f] \in STATI_TERMINALI => e.stato[f] = d.stato[f]
  /\ \A c \in Comunicazioni :
       /\ e.com[c] # d.com[c] => d.com[c] = "programmata"
       /\ e.com[c] = "programmata" => e.stato[c[1]] \notin STATI_TERMINALI
  /\ \A p \in Fatture :
       /\ e.statoPos[p] = "assente" <=> d.statoPos[p] = "assente"
       /\ d.statoPos[p] = "chiusa" => e.statoPos[p] = "chiusa"
       /\ e.statoPos[p] = "aperta" => d.statoPos[p] = "aperta"
       /\ e.statoPos[p] = "chiusa" =>
            \/ d.statoPos[p] = "chiusa"
            \/ \A f \in InPosizione(e, p) : e.stato[f] \in STATI_TERMINALI

\* The parts of a reminder.
LEMMA TipoComunicazione ==
  ASSUME NEW c \in Comunicazioni
  PROVE  c[1] \in Fatture /\ c[2] \in Flussi /\ c[3] \in Passi
  BY DEF Comunicazioni

\* The position of an invoice is one of the tenant.
LEMMA PosizioneInFatture ==
  ASSUME NEW d \in Database, NEW f \in Fatture
  PROVE  d.posizione[f] \in Fatture
  BY DEF Database

\* Writing the states of the invoices keeps the type of the rows.
LEMMA StatoTipo ==
  ASSUME NEW d \in Database, NEW S \in [Fatture -> StatiFattura \cup {"assente"}]
  PROVE  [d EXCEPT !.stato = S] \in Database
  BY DEF Database

\* Writing the states of the positions keeps the type of the rows.
LEMMA StatoPosTipo ==
  ASSUME NEW d \in Database, NEW S \in [Fatture -> {"assente", "aperta", "chiusa"}]
  PROVE  [d EXCEPT !.statoPos = S] \in Database
  BY DEF Database

\* Rows that go on from whole ones by legal changes are whole and permanent.
LEMMA ProsegueIntegro ==
  ASSUME NEW d, Integro(d), NEW e \in Database, Prosegue(d, e)
  PROVE  Integro(e) /\ Permane(d, e)
<1>1. SenzaPendenti(e)
  BY DEF SenzaPendenti, Prosegue
<1>2. DelFlussoAttivo(e)
  BY DEF DelFlussoAttivo, Prosegue, Integro
<1>3. ComunicazioniNate(e)
  BY TipoComunicazione DEF ComunicazioniNate, Prosegue, Integro
<1>4. PosizioniNote(e)
  BY PosizioneInFatture DEF PosizioniNote, Prosegue, Integro
<1>5. ChiuseSenzaCrediti(e)
  BY PosizioneInFatture DEF ChiuseSenzaCrediti, Prosegue, Integro, Presenti, InPosizione
<1>6. UnaAperta(e)
  BY DEF UnaAperta, Prosegue, Integro
<1>7. Permane(d, e)
  BY DEF Permane, Prosegue
<1> QED BY <1>1, <1>2, <1>3, <1>4, <1>5, <1>6, <1>7 DEF Integro

\* Cancelling the reminders of the invoices in F.
LEMMA AnnullaTipo ==
  ASSUME NEW d \in Database, NEW F, NEW e, e = Annulla(d, F)
  PROVE  /\ e \in Database
         /\ e.flusso = d.flusso /\ e.posizione = d.posizione /\ e.statoPos = d.statoPos
         /\ e.stato = d.stato /\ e.pagamenti = d.pagamenti /\ e.passi = d.passi
         /\ \A c \in Comunicazioni :
              e.com[c] = IF c[1] \in F /\ d.com[c] = "programmata" THEN "annullata" ELSE d.com[c]
<1>1. e \in Database
  BY DEF Database, Annulla, StatiComunicazione
<1> QED BY <1>1 DEF Database, Annulla

-----------------------------------------------------------------------------
(***************************************************************************)
(* The steps of the cycle.                                                 *)
(***************************************************************************)
\* Resuming the expired pauses (_riprendi_pause_scadute).
LEMMA PauseRipreseConserva ==
  ASSUME NEW d, Integro(d), NEW e, e = PauseRiprese(d)
  PROVE  Integro(e) /\ Permane(d, e) /\ e.com = d.com
<1>1. d \in Database
  BY DEF Integro
<1>2. e \in Database
  BY <1>1 DEF Database, PauseRiprese, StatiFattura
<1>3. /\ e.flusso = d.flusso /\ e.posizione = d.posizione /\ e.statoPos = d.statoPos
      /\ e.com = d.com /\ e.pagamenti = d.pagamenti
      /\ \A g \in Fatture :
           e.stato[g] = d.stato[g] \/ (d.stato[g] = "pausa" /\ e.stato[g] = "gestione")
  BY <1>1 DEF Database, PauseRiprese, PausaScaduta
<1>4. Prosegue(d, e)
  BY <1>3, TipoComunicazione DEF Prosegue, STATI_TERMINALI, Integro, SenzaPendenti
<1> QED BY <1>2, <1>3, <1>4, ProsegueIntegro

\* Handing an invoice to debt recovery (_esegui_escalation).
LEMMA EscalataConserva ==
  ASSUME NEW d, Integro(d), NEW f \in Fatture, d.stato[f] = "gestione",
         NEW e, e = Escalata(d, f)
  PROVE  Integro(e) /\ Permane(d, e) /\ NessunNuovoInvio(d, e)
<1>1. d \in Database
  BY DEF Integro
<1> DEFINE a == Annulla(d, {f})
<1>2. /\ a \in Database
      /\ a.flusso = d.flusso /\ a.posizione = d.posizione /\ a.statoPos = d.statoPos
      /\ a.stato = d.stato /\ a.pagamenti = d.pagamenti
      /\ \A c \in Comunicazioni :
           a.com[c] = IF c[1] = f /\ d.com[c] = "programmata" THEN "annullata" ELSE d.com[c]
  BY <1>1, AnnullaTipo
<1>3. e = [a EXCEPT !.stato[f] = "insoluto"]
  BY DEF Escalata
<1> HIDE DEF a
<1>4. e \in Database
  <2> DEFINE S == [a.stato EXCEPT ![f] = "insoluto"]
  <2>1. S \in [Fatture -> StatiFattura \cup {"assente"}]
    BY <1>2 DEF Database, StatiFattura
  <2>2. e = [a EXCEPT !.stato = S]
    BY <1>3
  <2> HIDE DEF S
  <2> QED BY <1>2, <2>1, <2>2, StatoTipo
<1>5. /\ e.flusso = d.flusso /\ e.posizione = d.posizione /\ e.statoPos = d.statoPos
      /\ e.pagamenti = d.pagamenti /\ e.com = a.com
      /\ \A g \in Fatture : e.stato[g] = IF g = f THEN "insoluto" ELSE d.stato[g]
  BY <1>2, <1>3 DEF Database
<1>6. Prosegue(d, e)
  BY <1>2, <1>5, TipoComunicazione DEF Prosegue, STATI_TERMINALI, Integro, SenzaPendenti
<1> QED BY <1>2, <1>4, <1>5, <1>6, ProsegueIntegro DEF NessunNuovoInvio

\* The just-in-time check of the due reminders (_esegui_invii_dovuti).
LEMMA DovuteVagliateConserva ==
  ASSUME NEW d, Integro(d), NEW e, e = DovuteVagliate(d)
  PROVE  Integro(e) /\ Permane(d, e) /\ NessunNuovoInvio(d, e)
<1>1. d \in Database
  BY DEF Integro
<1>2. e \in Database
  BY <1>1 DEF Database, DovuteVagliate, StatiComunicazione
<1>3. /\ e.flusso = d.flusso /\ e.posizione = d.posizione /\ e.statoPos = d.statoPos
      /\ e.stato = d.stato /\ e.pagamenti = d.pagamenti
      /\ \A c \in Comunicazioni :
           \/ e.com[c] = d.com[c]
           \/ d.com[c] = "programmata" /\ e.com[c] \in {"saltata", "annullata"}
  BY <1>1 DEF Database, DovuteVagliate, Dovuta
<1>4. Prosegue(d, e)
  BY <1>3, TipoComunicazione DEF Prosegue, STATI_TERMINALI, Integro, SenzaPendenti
<1> QED BY <1>2, <1>3, <1>4, ProsegueIntegro DEF NessunNuovoInvio

\* Recording the outcome of a message on the planned reminders it carries.
LEMMA ConEsitoConserva ==
  ASSUME NEW d, Integro(d), NEW C \in SUBSET Comunicazioni, NEW x \in {"inviata", "fallita"},
         \A c \in C : d.com[c] = "programmata",
         NEW e, e = ConEsito(d, C, x)
  PROVE  /\ Integro(e) /\ Permane(d, e)
         /\ \A c \in Comunicazioni : e.com[c] = IF c \in C THEN x ELSE d.com[c]
<1>1. d \in Database
  BY DEF Integro
<1>2. e \in Database
  BY <1>1 DEF Database, ConEsito, StatiComunicazione
<1>3. /\ e.flusso = d.flusso /\ e.posizione = d.posizione /\ e.statoPos = d.statoPos
      /\ e.stato = d.stato /\ e.pagamenti = d.pagamenti
      /\ \A c \in Comunicazioni : e.com[c] = IF c \in C THEN x ELSE d.com[c]
  BY <1>1 DEF Database, ConEsito
<1>4. Prosegue(d, e)
  BY <1>3, TipoComunicazione DEF Prosegue, STATI_TERMINALI, Integro, SenzaPendenti
<1> QED BY <1>2, <1>3, <1>4, ProsegueIntegro

\* The proactive notices touch nothing the invariant speaks of.
LEMMA NotificateConserva ==
  ASSUME NEW d, Integro(d), NEW L \in SUBSET Collegamenti, NEW e, e = Notificate(d, L)
  PROVE  Integro(e) /\ Permane(d, e) /\ e.com = d.com
<1>1. d \in Database
  BY DEF Integro
<1>2. e \in Database
  BY <1>1 DEF Database, Notificate, Risolta
<1>3. /\ e.flusso = d.flusso /\ e.posizione = d.posizione /\ e.statoPos = d.statoPos
      /\ e.stato = d.stato /\ e.com = d.com /\ e.pagamenti = d.pagamenti
  BY <1>1 DEF Database, Notificate
<1>4. Prosegue(d, e)
  BY <1>3, TipoComunicazione DEF Prosegue, STATI_TERMINALI, Integro, SenzaPendenti
<1> QED BY <1>2, <1>3, <1>4, ProsegueIntegro

\* Closing the positions whose invoices are all finished.
LEMMA PosizioniAggiornateConserva ==
  ASSUME NEW d, Integro(d), NEW e, e = PosizioniAggiornate(d)
  PROVE  Integro(e) /\ Permane(d, e) /\ e.com = d.com /\ e.stato = d.stato
<1>1. d \in Database
  BY DEF Integro
<1>2. e \in Database
  BY <1>1 DEF Database, PosizioniAggiornate
<1>3. /\ e.flusso = d.flusso /\ e.posizione = d.posizione
      /\ e.stato = d.stato /\ e.com = d.com /\ e.pagamenti = d.pagamenti
      /\ \A p \in Fatture :
           \/ e.statoPos[p] = d.statoPos[p]
           \/ /\ d.statoPos[p] # "assente" /\ e.statoPos[p] = "chiusa"
              /\ StatoPosizione({d.stato[f] : f \in InPosizione(d, p)}) = "chiusa"
  BY <1>1 DEF Database, PosizioniAggiornate
<1>4. ASSUME NEW p \in Fatture,
             StatoPosizione({d.stato[f] : f \in InPosizione(d, p)}) = "chiusa"
      PROVE  \A f \in InPosizione(e, p) : e.stato[f] \in STATI_TERMINALI
  <2>1. {d.stato[f] : f \in InPosizione(d, p)} \subseteq STATI_TERMINALI
    BY <1>4 DEF StatoPosizione
  <2> QED BY <2>1, <1>3 DEF InPosizione, Presenti
<1>5. Prosegue(d, e)
  BY <1>3, <1>4, TipoComunicazione DEF Prosegue, STATI_TERMINALI, Integro, SenzaPendenti
<1> QED BY <1>2, <1>3, <1>5, ProsegueIntegro

\* What registering a payment changes, by the cycle or by hand.
LEMMA IncassataTipo ==
  ASSUME NEW d \in Database, NEW f \in Fatture, NEW importo \in 1 .. ImportoMax,
         NEW k \in Chiavi, NEW origine \in {"riconciliazione", "manuale"},
         NEW e, e = Incassata(d, f, importo, k, origine)
  PROVE  /\ e \in Database
         /\ e.flusso = d.flusso /\ e.posizione = d.posizione /\ e.statoPos = d.statoPos
         /\ e.com = d.com /\ d.pagamenti \subseteq e.pagamenti
         /\ \A g \in Fatture : e.stato[g] # d.stato[g] => g = f /\ e.stato[g] = "saldata"
<1> DEFINE p == [chiave |-> k, fattura |-> f, importo |-> importo, origine |-> origine]
           r == ResiduoDopoIncasso(d.residuo[f], importo)
           P == d.pagamenti \cup {p}
           R == [d.residuo EXCEPT ![f] = r]
           S == [d.stato EXCEPT ![f] = StatoDopoPagamento(@, r)]
<1>1. e = [d EXCEPT !.pagamenti = P, !.residuo = R, !.stato = S]
  BY DEF Incassata, Database
<1>2. P \in SUBSET Pagamenti /\ d.pagamenti \subseteq P
  BY DEF Pagamenti, Database
<1>3. R \in [Fatture -> 0 .. ImportoMax]
  <2>1. r \in 0 .. ImportoMax
    BY IncassiAssumption DEF ResiduoDopoIncasso, Database
  <2> QED BY <2>1 DEF Database
<1>4. \A g \in Fatture : S[g] # d.stato[g] => g = f /\ S[g] = "saldata"
  BY DEF StatoDopoPagamento, Database
<1>5. S \in [Fatture -> StatiFattura \cup {"assente"}]
  BY DEF StatoDopoPagamento, Database, StatiFattura
<1> HIDE DEF P, R, S
<1>6. e \in Database
  <2>1. [d EXCEPT !.pagamenti = P] \in Database
    BY <1>2 DEF Database
  <2>2. \A x \in Database : [x EXCEPT !.residuo = R] \in Database
    BY <1>3 DEF Database
  <2>3. \A x \in Database : [x EXCEPT !.stato = S] \in Database
    BY <1>5 DEF Database
  <2> QED BY <1>1, <2>1, <2>2, <2>3
<1>7. /\ e.flusso = d.flusso /\ e.posizione = d.posizione /\ e.statoPos = d.statoPos
      /\ e.com = d.com /\ e.stato = S /\ e.pagamenti = P
  BY <1>1 DEF Database
<1> QED BY <1>2, <1>4, <1>6, <1>7

\* Applying a reconciled payment (_applica_pagamento).
LEMMA ConPagamentoConserva ==
  ASSUME NEW d, Integro(d), NEW m \in Movimenti, NEW f \in Fatture,
         NEW importo \in 1 .. ImportoMax,
         d.stato[f] \in {"gestione", "pausa", "saldata"},
         NEW e, e = ConPagamento(d, m, f, importo)
  PROVE  /\ Integro(e) /\ Permane(d, e) /\ NessunNuovoInvio(d, e)
         /\ \A g \in Fatture : e.stato[g] \in {d.stato[g], "saldata"} /\ (g # f => e.stato[g] = d.stato[g])
<1> DEFINE dopo == Incassata(d, f, importo, <<m, f>>, "riconciliazione")
<1>1. d \in Database
  BY DEF Integro
<1>2. CASE RegistratoCon(d, <<m, f>>)
  BY <1>2 DEF ConPagamento, Permane, NessunNuovoInvio
<1>3. CASE ~RegistratoCon(d, <<m, f>>)
  <2>1. <<m, f>> \in Chiavi
    BY DEF Chiavi, Abbinamenti
  <2>2. /\ dopo \in Database
        /\ dopo.flusso = d.flusso /\ dopo.posizione = d.posizione
        /\ dopo.statoPos = d.statoPos
        /\ dopo.com = d.com /\ d.pagamenti \subseteq dopo.pagamenti
        /\ \A g \in Fatture : dopo.stato[g] # d.stato[g] => g = f /\ dopo.stato[g] = "saldata"
    BY <1>1, <2>1, IncassataTipo
  <2>3. e = IF PuoRicevereSollecito(dopo.stato[f]) THEN dopo
            ELSE Annulla(dopo, {f})
    BY <1>3 DEF ConPagamento
  <2> HIDE DEF dopo
  <2>4. /\ e \in Database
        /\ e.flusso = d.flusso /\ e.posizione = d.posizione /\ e.statoPos = d.statoPos
        /\ e.stato = dopo.stato /\ d.pagamenti \subseteq e.pagamenti
        /\ \A c \in Comunicazioni :
             /\ e.com[c] # d.com[c] => d.com[c] = "programmata" /\ e.com[c] = "annullata"
             /\ e.com[c] = "programmata" /\ c[1] = f => e.stato[f] # "saldata"
    BY <2>2, <2>3, AnnullaTipo DEF PuoRicevereSollecito, STATI_NON_SOLLECITABILI
  <2>5. Prosegue(d, e)
    BY <2>2, <2>4, TipoComunicazione DEF Prosegue, STATI_TERMINALI, Integro, SenzaPendenti
  <2> QED BY <2>2, <2>4, <2>5, ProsegueIntegro DEF NessunNuovoInvio
<1> QED BY <1>2, <1>3

\* Applying a manual payment (registra_pagamento).
LEMMA PagataAManoConserva ==
  ASSUME NEW d, Integro(d), NEW f \in Fatture, NEW importo \in 1 .. ImportoMax,
         NEW k \in Chiavi, d.stato[f] \in STATI_CREDITO_APERTO,
         NEW e, e = PagataAMano(d, f, importo, k)
  PROVE  Integro(e) /\ Permane(d, e) /\ NessunNuovoInvio(d, e)
<1> DEFINE dopo == Incassata(d, f, importo, k, "manuale")
           p == d.posizione[f]
           nuova == StatoPosizione({dopo.stato[g] : g \in InPosizione(dopo, p)})
<1>1. d \in Database /\ p \in Fatture
  BY PosizioneInFatture DEF Integro
<1>2. /\ dopo \in Database
      /\ dopo.flusso = d.flusso /\ dopo.posizione = d.posizione
      /\ dopo.statoPos = d.statoPos
      /\ dopo.com = d.com /\ d.pagamenti \subseteq dopo.pagamenti
      /\ \A g \in Fatture : dopo.stato[g] # d.stato[g] => g = f /\ dopo.stato[g] = "saldata"
  BY <1>1, IncassataTipo
<1>3. nuova \in {"aperta", "chiusa"}
  BY DEF StatoPosizione
<1>4. nuova = "chiusa" =>
        \A g \in Fatture : dopo.stato[g] # "assente" /\ d.posizione[g] = p
                           => dopo.stato[g] \in STATI_TERMINALI
  BY <1>2 DEF StatoPosizione, InPosizione, Presenti
<1>5. d.statoPos[p] = "aperta"
  BY <1>1 DEF Integro, PosizioniNote, ChiuseSenzaCrediti, Presenti, Database,
              STATI_CREDITO_APERTO, STATI_TERMINALI
<1>6. e = IF dopo.stato[f] # "saldata" THEN dopo
          ELSE [Annulla(dopo, {f}) EXCEPT !.statoPos[p] = nuova]
  BY DEF PagataAMano
<1> HIDE DEF dopo, nuova
<1>7. CASE dopo.stato[f] # "saldata"
  <2>1. Prosegue(d, dopo)
    BY <1>2, <1>7, TipoComunicazione DEF Prosegue, STATI_TERMINALI, Integro, SenzaPendenti
  <2> QED BY <1>2, <1>6, <1>7, <2>1, ProsegueIntegro DEF NessunNuovoInvio
<1>8. CASE dopo.stato[f] = "saldata"
  <2> DEFINE a == Annulla(dopo, {f})
  <2>1. /\ a \in Database
        /\ a.flusso = d.flusso /\ a.posizione = d.posizione /\ a.statoPos = d.statoPos
        /\ a.stato = dopo.stato /\ a.pagamenti = dopo.pagamenti
        /\ \A c \in Comunicazioni :
             a.com[c] = IF c[1] = f /\ d.com[c] = "programmata" THEN "annullata" ELSE d.com[c]
    BY <1>2, AnnullaTipo
  <2>2. e = [a EXCEPT !.statoPos[p] = nuova]
    BY <1>6, <1>8
  <2> HIDE DEF a
  <2>6. e \in Database
    <3> DEFINE S == [a.statoPos EXCEPT ![p] = nuova]
    <3>1. S \in [Fatture -> {"assente", "aperta", "chiusa"}]
      BY <1>3, <2>1 DEF Database
    <3>2. e = [a EXCEPT !.statoPos = S]
      BY <2>2
    <3> HIDE DEF S
    <3> QED BY <2>1, <3>1, <3>2, StatoPosTipo
  <2>3. /\ e.flusso = d.flusso /\ e.posizione = d.posizione
        /\ e.stato = dopo.stato /\ e.com = a.com /\ d.pagamenti \subseteq e.pagamenti
        /\ e.statoPos = [d.statoPos EXCEPT ![p] = nuova]
    BY <1>2, <2>1, <2>2 DEF Database
  <2>4. \A q \in Fatture : e.statoPos[q] = IF q = p THEN nuova ELSE d.statoPos[q]
    BY <1>1, <2>3 DEF Database
  <2>5. Prosegue(d, e)
    BY <1>1, <1>2, <1>3, <1>4, <1>5, <1>8, <2>1, <2>3, <2>4, TipoComunicazione
    DEF Prosegue, STATI_TERMINALI, STATI_CREDITO_APERTO, Integro, SenzaPendenti,
        InPosizione, Presenti
  <2> QED BY <2>1, <2>3, <2>5, <2>6, ProsegueIntegro DEF NessunNuovoInvio
<1> QED BY <1>7, <1>8

\* Creating the standard flow at the first import.
LEMMA ConFlussoConserva ==
  ASSUME NEW d, Integro(d), NEW e, e = ConFlusso(d)
  PROVE  /\ Integro(e) /\ e.flusso \in Flussi
         /\ e.stato = d.stato /\ e.com = d.com /\ e.pagamenti = d.pagamenti
         /\ e.statoPos = d.statoPos
<1>1. d \in Database
  BY DEF Integro
<1>2. CASE d.flusso # 0
  BY <1>1, <1>2 DEF ConFlusso, Database
<1>3. CASE d.flusso = 0
  <2>1. e = [d EXCEPT !.flusso = 1, !.passi[1] = PassiDefault]
    BY <1>3 DEF ConFlusso
  <2>2. 1 \in Flussi /\ PassiDefault \in SUBSET Passi
    BY IncassiAssumption DEF Flussi
  <2>3. e \in Database
    <3> DEFINE P == [d.passi EXCEPT ![1] = PassiDefault]
    <3>1. P \in [Flussi -> SUBSET Passi]
      BY <1>1, <2>2 DEF Database
    <3>2. e = [d EXCEPT !.flusso = 1, !.passi = P]
      BY <2>1
    <3> HIDE DEF P
    <3>3. [d EXCEPT !.flusso = 1] \in Database
      BY <1>1, <2>2 DEF Database
    <3>4. \A x \in Database : [x EXCEPT !.passi = P] \in Database
      BY <3>1 DEF Database
    <3> QED BY <3>2, <3>3, <3>4
  <2>4. /\ e.flusso = 1 /\ e.stato = d.stato /\ e.com = d.com
        /\ e.pagamenti = d.pagamenti /\ e.posizione = d.posizione
        /\ e.statoPos = d.statoPos
    BY <1>1, <2>1 DEF Database
  <2>5. \A c \in Comunicazioni : d.com[c] = "assente"
    BY <1>3, TipoComunicazione DEF Integro, ComunicazioniNate, Flussi
  <2>6. SenzaPendenti(e) /\ DelFlussoAttivo(e) /\ ComunicazioniNate(e)
    BY <2>4, <2>5 DEF SenzaPendenti, DelFlussoAttivo, ComunicazioniNate
  <2>7. PosizioniNote(e) /\ ChiuseSenzaCrediti(e) /\ UnaAperta(e)
    BY <2>4 DEF Integro, PosizioniNote, ChiuseSenzaCrediti, UnaAperta, Presenti
  <2> QED BY <2>2, <2>3, <2>4, <2>6, <2>7 DEF Integro
<1> QED BY <1>2, <1>3

\* A new invoice goes to a position of its client or to one of its own.
LEMMA PosizionePerTipo ==
  ASSUME NEW d \in Database, NEW f \in Fatture, NEW p, p = PosizionePer(d, f)
  PROVE  /\ p \in Fatture /\ Debitore[p] = Debitore[f]
         /\ d.statoPos[p] # "aperta" =>
              p = f /\ \A q \in Fatture : Debitore[q] = Debitore[f] => d.statoPos[q] # "aperta"
<1>1. CASE PosizioniAperte(d, Debitore[f]) # {}
  BY <1>1 DEF PosizionePer, PosizioniAperte
<1>2. CASE PosizioniAperte(d, Debitore[f]) = {}
  BY <1>2 DEF PosizionePer, PosizioniAperte
<1> QED BY <1>1, <1>2

\* Importing an invoice with the reminders of the active flow.
LEMMA ImportataConserva ==
  ASSUME NEW d, Integro(d), NEW f \in Fatture, d.stato[f] = "assente",
         d.flusso \in Flussi, NEW e, e = Importata(d, f)
  PROVE  Integro(e) /\ Permane(d, e) /\ NessunNuovoInvio(d, e)
<1> DEFINE p == PosizionePer(d, f)
           C == [c \in Comunicazioni |->
                   IF c[1] = f /\ c[2] = d.flusso /\ c[3] \in d.passi[c[2]]
                   THEN "programmata" ELSE d.com[c]]
           S == [d.stato EXCEPT ![f] = "gestione"]
           R == [d.residuo EXCEPT ![f] = Importo[f]]
           Q == [d.posizione EXCEPT ![f] = p]
           A == [d.statoPos EXCEPT ![p] = IF @ = "assente" THEN "aperta" ELSE @]
<1>1. d \in Database
  BY DEF Integro
<1>2. /\ p \in Fatture /\ Debitore[p] = Debitore[f]
      /\ d.statoPos[p] # "aperta" =>
           p = f /\ \A q \in Fatture : Debitore[q] = Debitore[f] => d.statoPos[q] # "aperta"
  BY <1>1, PosizionePerTipo
<1>3. e = [d EXCEPT !.stato = S, !.residuo = R, !.posizione = Q, !.statoPos = A, !.com = C]
  BY DEF Importata
<1>4. \A c \in Comunicazioni :
        C[c] # d.com[c] => c[1] = f /\ c[2] = d.flusso /\ C[c] = "programmata"
  BY <1>1 DEF Database
<1>5. C \in [Comunicazioni -> StatiComunicazione \cup {"assente"}]
  BY <1>1 DEF Database, StatiComunicazione
<1>6. /\ S \in [Fatture -> StatiFattura \cup {"assente"}]
      /\ \A g \in Fatture : S[g] = IF g = f THEN "gestione" ELSE d.stato[g]
  BY <1>1 DEF Database, StatiFattura
<1>7. R \in [Fatture -> 0 .. ImportoMax]
  BY <1>1, IncassiAssumption DEF Database
<1>8. /\ Q \in [Fatture -> Fatture]
      /\ \A g \in Fatture : Q[g] = IF g = f THEN p ELSE d.posizione[g]
  BY <1>1, <1>2 DEF Database
<1>9. d.statoPos[p] # "chiusa"
  <2>1. d.statoPos[f] = "assente"
    BY <1>1 DEF Integro, PosizioniNote
  <2> QED BY <1>2, <2>1
<1>10. /\ A \in [Fatture -> {"assente", "aperta", "chiusa"}]
      /\ \A g \in Fatture : A[g] = IF g = p THEN "aperta" ELSE d.statoPos[g]
  BY <1>1, <1>2, <1>9 DEF Database
<1> HIDE DEF p, C, S, R, Q, A
<1>11. e \in Database
  <2>1. \A x \in Database : [x EXCEPT !.stato = S] \in Database
    BY <1>6, StatoTipo
  <2>2. \A x \in Database : [x EXCEPT !.residuo = R] \in Database
    BY <1>7 DEF Database
  <2>3. \A x \in Database : [x EXCEPT !.posizione = Q] \in Database
    BY <1>8 DEF Database
  <2>4. \A x \in Database : [x EXCEPT !.statoPos = A] \in Database
    BY <1>10, StatoPosTipo
  <2>5. \A x \in Database : [x EXCEPT !.com = C] \in Database
    BY <1>5 DEF Database
  <2> QED BY <1>1, <1>3, <2>1, <2>2, <2>3, <2>4, <2>5
<1>12. /\ e.flusso = d.flusso /\ e.pagamenti = d.pagamenti
       /\ e.stato = S /\ e.posizione = Q /\ e.statoPos = A /\ e.com = C
  BY <1>1, <1>3 DEF Database
<1>13. \A c \in Comunicazioni : c[1] = f => d.com[c] = "assente"
  BY DEF Integro, ComunicazioniNate
<1>14. SenzaPendenti(e) /\ DelFlussoAttivo(e) /\ ComunicazioniNate(e)
  <2>1. d.flusso \in Int
    BY DEF Flussi
  <2> QED BY <1>4, <1>6, <1>12, <2>1, TipoComunicazione
          DEF Integro, SenzaPendenti, DelFlussoAttivo, ComunicazioniNate, STATI_TERMINALI
<1>15. PosizioniNote(e)
  <2>1. ASSUME NEW g \in Fatture, e.stato[g] # "assente"
        PROVE  e.statoPos[e.posizione[g]] # "assente" /\ Debitore[e.posizione[g]] = Debitore[g]
    BY <1>1, <1>2, <1>6, <1>8, <1>10, <1>12, <2>1, PosizioneInFatture
    DEF Integro, PosizioniNote
  <2>2. ASSUME NEW g \in Fatture, e.statoPos[g] # "assente" PROVE e.stato[g] # "assente"
    BY <1>2, <1>6, <1>10, <1>12, <2>2 DEF Integro, PosizioniNote
  <2> QED BY <2>1, <2>2 DEF PosizioniNote
<1>16. ChiuseSenzaCrediti(e)
  BY <1>1, <1>2, <1>6, <1>8, <1>10, <1>12, PosizioneInFatture
  DEF Integro, ChiuseSenzaCrediti, Presenti
<1>17. UnaAperta(e)
  BY <1>2, <1>10, <1>12 DEF Integro, UnaAperta
<1>18. Permane(d, e)
  BY <1>2, <1>4, <1>6, <1>10, <1>12, <1>13, <1>9 DEF Permane, STATI_TERMINALI
<1>19. NessunNuovoInvio(d, e)
  BY <1>4, <1>12 DEF NessunNuovoInvio
<1> QED BY <1>11, <1>14, <1>15, <1>16, <1>17, <1>18, <1>19 DEF Integro

-----------------------------------------------------------------------------
(***************************************************************************)
(* The requests of the operator.                                           *)
(***************************************************************************)
\* Pausing or resuming an open invoice.
LEMMA PausaConserva ==
  ASSUME NEW d, Integro(d), NEW f \in Fatture, d.stato[f] \in STATI_CREDITO_APERTO,
         NEW x \in STATI_CREDITO_APERTO, NEW g \in FinePausa \cup {Mai},
         NEW e, e = ConStato(d, f, x, g)
  PROVE  Integro(e) /\ Permane(d, e) /\ e.com = d.com
<1> DEFINE S == [d.stato EXCEPT ![f] = x]
           G == [d.pausaFinoA EXCEPT ![f] = g]
<1>1. d \in Database
  BY DEF Integro
<1>2. e = [d EXCEPT !.stato = S, !.pausaFinoA = G]
  BY DEF ConStato
<1>3. /\ S \in [Fatture -> StatiFattura \cup {"assente"}]
      /\ \A h \in Fatture : S[h] = IF h = f THEN x ELSE d.stato[h]
  BY <1>1 DEF Database, StatiFattura, STATI_CREDITO_APERTO
<1>4. G \in [Fatture -> FinePausa \cup {Mai}]
  BY <1>1 DEF Database
<1> HIDE DEF S, G
<1>5. e \in Database
  <2>1. [d EXCEPT !.stato = S] \in Database
    BY <1>1, <1>3, StatoTipo
  <2>2. \A y \in Database : [y EXCEPT !.pausaFinoA = G] \in Database
    BY <1>4 DEF Database
  <2> QED BY <1>2, <2>1, <2>2
<1>6. /\ e.flusso = d.flusso /\ e.posizione = d.posizione /\ e.statoPos = d.statoPos
      /\ e.com = d.com /\ e.pagamenti = d.pagamenti /\ e.stato = S
  BY <1>1, <1>2 DEF Database
<1>7. Prosegue(d, e)
  BY <1>3, <1>6, TipoComunicazione
  DEF Prosegue, STATI_TERMINALI, STATI_CREDITO_APERTO, Integro, SenzaPendenti
<1> QED BY <1>5, <1>6, <1>7, ProsegueIntegro

\* One reminder that was planned gets another state.
LEMMA ComunicazioneConserva ==
  ASSUME NEW d, Integro(d), NEW k \in Comunicazioni, d.com[k] = "programmata",
         NEW x \in {"inviata", "fallita", "annullata"},
         NEW e, e = [d EXCEPT !.com[k] = x]
  PROVE  /\ Integro(e) /\ Permane(d, e)
         /\ \A c \in Comunicazioni : e.com[c] = IF c = k THEN x ELSE d.com[c]
<1>1. d \in Database
  BY DEF Integro
<1>2. e \in Database
  <2> DEFINE C == [d.com EXCEPT ![k] = x]
  <2>1. C \in [Comunicazioni -> StatiComunicazione \cup {"assente"}]
    BY <1>1 DEF Database, StatiComunicazione
  <2>2. e = [d EXCEPT !.com = C]
    OBVIOUS
  <2> HIDE DEF C
  <2> QED BY <1>1, <2>1, <2>2 DEF Database
<1>3. /\ e.flusso = d.flusso /\ e.posizione = d.posizione /\ e.statoPos = d.statoPos
      /\ e.stato = d.stato /\ e.pagamenti = d.pagamenti
      /\ \A c \in Comunicazioni : e.com[c] = IF c = k THEN x ELSE d.com[c]
  BY <1>1 DEF Database
<1>4. Prosegue(d, e)
  BY <1>3, TipoComunicazione DEF Prosegue, STATI_TERMINALI, Integro, SenzaPendenti
<1> QED BY <1>2, <1>3, <1>4, ProsegueIntegro

\* Writing the contacts and opt-outs of a client.
LEMMA RecapitiConserva ==
  ASSUME NEW d, Integro(d), NEW k \in Clienti, NEW r \in SUBSET Recapiti,
         NEW o \in SUBSET Canali,
         NEW e, e = ConRecapiti(d, k, r, o)
  PROVE  Integro(e) /\ Permane(d, e) /\ e.com = d.com
<1> DEFINE R == [d.recapiti EXCEPT ![k] = r]
           O == [d.optOut EXCEPT ![k] = o]
<1>1. d \in Database
  BY DEF Integro
<1>2. e = [d EXCEPT !.recapiti = R, !.optOut = O]
  BY DEF ConRecapiti
<1>3. R \in [Clienti -> SUBSET Recapiti] /\ O \in [Clienti -> SUBSET Canali]
  BY <1>1 DEF Database
<1> HIDE DEF R, O
<1>4. e \in Database
  <2>1. [d EXCEPT !.recapiti = R] \in Database
    BY <1>1, <1>3 DEF Database
  <2>2. \A y \in Database : [y EXCEPT !.optOut = O] \in Database
    BY <1>3 DEF Database
  <2> QED BY <1>2, <2>1, <2>2
<1>5. /\ e.flusso = d.flusso /\ e.posizione = d.posizione /\ e.statoPos = d.statoPos
      /\ e.com = d.com /\ e.pagamenti = d.pagamenti /\ e.stato = d.stato
  BY <1>1, <1>2 DEF Database
<1>6. Prosegue(d, e)
  BY <1>5, TipoComunicazione DEF Prosegue, STATI_TERMINALI, Integro, SenzaPendenti
<1> QED BY <1>4, <1>5, <1>6, ProsegueIntegro

\* Acknowledging notices.
LEMMA LetteConserva ==
  ASSUME NEW d, Integro(d), NEW F \in SUBSET Fatture, NEW L \in SUBSET Collegamenti,
         NEW e, e = Lette(d, F, L)
  PROVE  Integro(e) /\ Permane(d, e) /\ e.com = d.com
<1>1. d \in Database
  BY DEF Integro
<1>2. e \in Database
  BY <1>1 DEF Lette, Database
<1>3. /\ e.flusso = d.flusso /\ e.posizione = d.posizione /\ e.statoPos = d.statoPos
      /\ e.com = d.com /\ e.pagamenti = d.pagamenti /\ e.stato = d.stato
  BY <1>1 DEF Lette, Database
<1>4. Prosegue(d, e)
  BY <1>3, TipoComunicazione DEF Prosegue, STATI_TERMINALI, Integro, SenzaPendenti
<1> QED BY <1>2, <1>3, <1>4, ProsegueIntegro

\* Replacing the flow and replanning the open credits.
LEMMA FlussoSostituitoConserva ==
  ASSUME NEW d, Integro(d), NEW passi \in SUBSET Passi, d.flusso < MaxFlussi,
         NEW e, e = FlussoSostituito(d, passi)
  PROVE  Integro(e) /\ Permane(d, e) /\ NessunNuovoInvio(d, e)
<1> DEFINE F == {f \in Fatture : d.stato[f] \in STATI_CREDITO_APERTO}
           nuovo == d.flusso + 1
           a == Annulla(d, F)
           C == [c \in Comunicazioni |->
                   IF c[1] \in F /\ c[2] = nuovo /\ c[3] \in passi /\ InFuturo(c)
                   THEN "programmata" ELSE a.com[c]]
           P == [a.passi EXCEPT ![nuovo] = passi]
<1>1. d \in Database /\ d.flusso \in Nat
  BY DEF Integro, Database, Flussi
<1>2. nuovo \in Flussi /\ nuovo > d.flusso
  BY <1>1, IncassiAssumption DEF Flussi
<1>3. /\ a \in Database
      /\ a.posizione = d.posizione /\ a.statoPos = d.statoPos
      /\ a.stato = d.stato /\ a.pagamenti = d.pagamenti
      /\ \A c \in Comunicazioni :
           a.com[c] = IF c[1] \in F /\ d.com[c] = "programmata" THEN "annullata" ELSE d.com[c]
  BY <1>1, AnnullaTipo
<1>4. e = [a EXCEPT !.flusso = nuovo, !.passi = P, !.com = C]
  BY DEF FlussoSostituito, Riprogrammata
<1>5. C \in [Comunicazioni -> StatiComunicazione \cup {"assente"}]
  BY <1>3 DEF Database, StatiComunicazione
<1>6. P \in [Flussi -> SUBSET Passi]
  BY <1>2, <1>3 DEF Database
<1>7. \A c \in Comunicazioni :
        \/ c[1] \in F /\ c[2] = nuovo /\ C[c] = "programmata"
        \/ c[1] \in F /\ d.com[c] = "programmata" /\ C[c] = "annullata"
        \/ C[c] = d.com[c] /\ (c[1] \in F => d.com[c] # "programmata")
  BY <1>3
<1> HIDE DEF nuovo, a, C, P
<1>8. e \in Database
  <2>1. [a EXCEPT !.flusso = nuovo] \in Database
    BY <1>2, <1>3 DEF Database
  <2>2. \A y \in Database : [y EXCEPT !.passi = P] \in Database
    BY <1>6 DEF Database
  <2>3. \A y \in Database : [y EXCEPT !.com = C] \in Database
    BY <1>5 DEF Database
  <2> QED BY <1>4, <2>1, <2>2, <2>3
<1>9. /\ e.flusso = nuovo /\ e.posizione = d.posizione /\ e.statoPos = d.statoPos
      /\ e.com = C /\ e.pagamenti = d.pagamenti /\ e.stato = d.stato
  BY <1>3, <1>4 DEF Database
<1>10. \A f \in F : d.stato[f] # "assente" /\ d.stato[f] \notin STATI_TERMINALI
  BY DEF STATI_CREDITO_APERTO, STATI_TERMINALI
<1>11. \A c \in Comunicazioni : d.com[c] # "assente" =>
         /\ d.stato[c[1]] # "assente" /\ c[2] <= d.flusso /\ c[2] \in Int
         /\ c[2] # nuovo
  BY <1>1, <1>2, TipoComunicazione DEF Integro, ComunicazioniNate, Flussi
<1>12. \A c \in Comunicazioni : d.com[c] = "programmata" => c[1] \in F
  <2> SUFFICES ASSUME NEW c \in Comunicazioni, d.com[c] = "programmata" PROVE c[1] \in F
    OBVIOUS
  <2>1. c[1] \in Fatture /\ d.stato[c[1]] # "assente" /\ d.stato[c[1]] \notin STATI_TERMINALI
    BY <1>11, TipoComunicazione DEF Integro, SenzaPendenti
  <2>2. d.stato[c[1]] \in StatiFattura \cup {"assente"}
    BY <1>1, <2>1 DEF Database
  <2> QED BY <2>1, <2>2 DEF StatiFattura, STATI_TERMINALI, STATI_CREDITO_APERTO
<1> HIDE DEF F
<1>13. SenzaPendenti(e) /\ DelFlussoAttivo(e)
  BY <1>7, <1>9, <1>10, <1>12 DEF SenzaPendenti, DelFlussoAttivo
<1>14. ComunicazioniNate(e)
  <2> SUFFICES ASSUME NEW c \in Comunicazioni, C[c] # "assente"
               PROVE  d.stato[c[1]] # "assente" /\ c[2] <= nuovo
    BY <1>9 DEF ComunicazioniNate
  <2>1. CASE c[1] \in F /\ c[2] = nuovo /\ C[c] = "programmata"
    BY <1>2, <1>10, <2>1 DEF Flussi
  <2>2. CASE d.com[c] # "assente"
    BY <1>1, <1>2, <1>11, <2>2 DEF Flussi
  <2> QED BY <1>7, <2>1, <2>2
<1>15. PosizioniNote(e) /\ ChiuseSenzaCrediti(e) /\ UnaAperta(e)
  BY <1>9 DEF Integro, PosizioniNote, ChiuseSenzaCrediti, UnaAperta, Presenti
<1>16. Permane(d, e) /\ NessunNuovoInvio(d, e)
  BY <1>7, <1>9, <1>11 DEF Permane, NessunNuovoInvio
<1> QED BY <1>8, <1>13, <1>14, <1>15, <1>16 DEF Integro

-----------------------------------------------------------------------------
(***************************************************************************)
(* The inductive invariant: the rows are in order, committed and not; the  *)
(* transaction of the cycle only extends what is committed and sees        *)
(* nothing else between cycles; a payment still to be applied is of an     *)
(* invoice that was open when it was found.                                *)
(***************************************************************************)
QuoteNote ==
  \A mf \in Abbinamenti :
    quota[mf] # 0 =>
      fase = "incassi" /\ tx.stato[mf[2]] \in {"gestione", "pausa", "saldata"}

Inv ==
  /\ TypeOK
  /\ Integro(db) /\ Integro(tx) /\ Permane(db, tx)
  /\ fase = "ferma" => tx = db
  /\ QuoteNote
  /\ RegistroVeritiero

\* Permanence of the history composes.
LEMMA PermaneTransitiva ==
  ASSUME NEW a, NEW b, NEW c, Permane(a, b), Permane(b, c)
  PROVE  Permane(a, c)
  BY DEF Permane

\* Nothing changed, nothing lost.
LEMMA PermaneRiflessiva ==
  ASSUME NEW a
  PROVE  Permane(a, a)
  BY DEF Permane

\* A step of the cycle that only works in its transaction.
LEMMA LavoraConserva ==
  ASSUME Inv, NEW p \in Fasi \ {"ferma"}, NEW q \in Fasi \ {"ferma"},
         NEW e, Integro(e), Permane(tx, e), NessunNuovoInvio(tx, e), Lavora(p, q, e),
         quota' \in Quote, QuoteNote'
  PROVE  Inv' /\ db' = db
<1>1. db' = db /\ tx' = e /\ fase' = q
  BY DEF Lavora
<1>2. TypeOK'
  BY <1>1 DEF Inv, TypeOK, Lavora, Integro, NessunMessaggio, Messaggio
<1>3. Integro(db') /\ Integro(tx') /\ Permane(db', tx')
  BY <1>1, PermaneTransitiva DEF Inv
<1>4. RegistroVeritiero'
  <2> SUFFICES ASSUME NEW c \in Comunicazioni
               PROVE  /\ db.com[c] = "inviata" \/ e.com[c] = "inviata" => partiti[c] >= 1
                      /\ partiti[c] <= cadute + (IF e.com[c] = "inviata" THEN 1 ELSE 0)
    BY <1>1 DEF RegistroVeritiero, Lavora
  <2>1. e.com[c] = "inviata" <=> tx.com[c] = "inviata"
    BY DEF NessunNuovoInvio, Permane
  <2> QED BY <2>1 DEF Inv, RegistroVeritiero
<1> QED BY <1>1, <1>2, <1>3, <1>4 DEF Inv

\* A request of the operator that sends nothing.
LEMMA RichiestaMutaConserva ==
  ASSUME Inv, NEW e, Integro(e), Permane(db, e), NessunNuovoInvio(db, e), RichiestaMuta(e)
  PROVE  Inv' /\ Permane(db, db')
<1>1. /\ db' = e /\ tx' = e /\ fase = "ferma" /\ fase' = "ferma" /\ tx = db
      /\ quota' = quota /\ partiti' = partiti /\ cadute' = cadute
  BY DEF RichiestaMuta, Richiesta, Inv
<1>2. TypeOK'
  BY <1>1, IncassiAssumption
  DEF Inv, TypeOK, RichiestaMuta, Richiesta, Integro, NessunMessaggio, Messaggio
<1>3. Integro(db') /\ Integro(tx') /\ Permane(db', tx')
  BY <1>1, PermaneRiflessiva
<1>4. QuoteNote'
  BY <1>1 DEF Inv, QuoteNote
<1>5. RegistroVeritiero'
  <2> SUFFICES ASSUME NEW c \in Comunicazioni
               PROVE  /\ e.com[c] = "inviata" => partiti[c] >= 1
                      /\ partiti[c] <= cadute + (IF e.com[c] = "inviata" THEN 1 ELSE 0)
    BY <1>1 DEF RegistroVeritiero
  <2>1. e.com[c] = "inviata" <=> tx.com[c] = "inviata"
    BY <1>1 DEF NessunNuovoInvio, Permane
  <2> QED BY <2>1 DEF Inv, RegistroVeritiero
<1> QED BY <1>1, <1>2, <1>3, <1>4, <1>5 DEF Inv

-----------------------------------------------------------------------------
(***************************************************************************)
(* One lemma per action of the cycle.                                      *)
(***************************************************************************)
\* The initial state has no rows.
LEMMA InvInit == Init => Inv
<1> SUFFICES ASSUME Init PROVE Inv
  OBVIOUS
<1>1. db = DbVuoto /\ tx = DbVuoto
  BY DEF Init
<1>2. DbVuoto \in Database
  BY IncassiAssumption DEF DbVuoto, Database, Flussi
<1>3. /\ DbVuoto.stato = [f \in Fatture |-> "assente"]
      /\ DbVuoto.statoPos = [f \in Fatture |-> "assente"]
      /\ DbVuoto.com = [c \in Comunicazioni |-> "assente"]
  BY DEF DbVuoto
<1>4. Integro(DbVuoto)
  <2>1. SenzaPendenti(DbVuoto) /\ DelFlussoAttivo(DbVuoto) /\ ComunicazioniNate(DbVuoto)
    BY <1>3 DEF SenzaPendenti, DelFlussoAttivo, ComunicazioniNate
  <2>2. PosizioniNote(DbVuoto) /\ ChiuseSenzaCrediti(DbVuoto) /\ UnaAperta(DbVuoto)
    BY <1>3 DEF PosizioniNote, ChiuseSenzaCrediti, UnaAperta, Presenti
  <2> QED BY <1>2, <2>1, <2>2 DEF Integro
<1>5. TypeOK
  BY <1>1, <1>2, IncassiAssumption
  DEF Init, TypeOK, Fasi, Quote, NessunMessaggio, Messaggio
<1>6. QuoteNote
  BY DEF Init, QuoteNote
<1>7. RegistroVeritiero
  BY <1>1, <1>3 DEF Init, RegistroVeritiero
<1> QED BY <1>1, <1>4, <1>5, <1>6, <1>7, PermaneRiflessiva DEF Inv

\* AvviaCiclo preserves the invariant and the committed history.
LEMMA AvviaCicloInv ==
  ASSUME Inv, NEW attivi \in StatiCollegamenti, AvviaCiclo(attivi)
  PROVE  Inv' /\ Permane(db, db')
<1>1. TypeOK'
  BY IncassiAssumption
  DEF Inv, TypeOK, AvviaCiclo, Fasi, NessunMessaggio, Messaggio
<1>2. QuoteNote'
  BY DEF Inv, AvviaCiclo, QuoteNote
<1>3. RegistroVeritiero'
  BY DEF Inv, AvviaCiclo, RegistroVeritiero
<1> QED BY <1>1, <1>2, <1>3, PermaneRiflessiva DEF Inv, AvviaCiclo

\* ImportaFattura preserves the invariant and the committed history.
LEMMA ImportaFatturaInv ==
  ASSUME Inv, NEW f \in Fatture, ImportaFattura(f)
  PROVE  Inv' /\ db' = db
<1> DEFINE d == ConFlusso(tx)
           e == Importata(d, f)
<1>1. /\ Integro(d) /\ d.flusso \in Flussi /\ d.stato = tx.stato /\ d.com = tx.com
      /\ d.pagamenti = tx.pagamenti /\ d.statoPos = tx.statoPos
  BY ConFlussoConserva DEF Inv
<1>2. tx.stato[f] = "assente" /\ Lavora("import", "import", e) /\ quota' = quota
  BY DEF ImportaFattura
<1> HIDE DEF d
<1>3. Integro(e) /\ Permane(d, e) /\ NessunNuovoInvio(d, e)
  BY <1>1, <1>2, ImportataConserva
<1>4. Permane(tx, e) /\ NessunNuovoInvio(tx, e)
  BY <1>1, <1>3 DEF Permane, NessunNuovoInvio
<1>5. QuoteNote' /\ quota' \in Quote
  BY <1>2 DEF Inv, TypeOK, QuoteNote, Lavora
<1> QED BY <1>2, <1>3, <1>4, <1>5, LavoraConserva DEF Fasi

\* FineImport preserves the invariant and the committed history.
LEMMA FineImportInv ==
  ASSUME Inv, FineImport
  PROVE  Inv' /\ db' = db
<1>1. Lavora("import", "movimenti", tx) /\ quota' = quota
  BY DEF FineImport
<1>2. QuoteNote' /\ quota' \in Quote
  BY <1>1 DEF Inv, TypeOK, QuoteNote, Lavora
<1>3. Permane(tx, tx) /\ NessunNuovoInvio(tx, tx)
  BY PermaneRiflessiva DEF NessunNuovoInvio
<1> QED BY <1>1, <1>2, <1>3, LavoraConserva DEF Inv, Fasi

\* RilevaIncassi preserves the invariant and the committed history.
LEMMA RilevaIncassiInv ==
  ASSUME Inv, RilevaIncassi
  PROVE  Inv' /\ db' = db
<1>1. Lavora("movimenti", "incassi", tx)
  BY DEF RilevaIncassi
<1>2. quota' \in Quote
  BY DEF RilevaIncassi, Inv, TypeOK
<1>3. QuoteNote'
  <2> SUFFICES ASSUME NEW mf \in Abbinamenti, quota'[mf] # 0
               PROVE  tx.stato[mf[2]] \in {"gestione", "pausa", "saldata"}
    BY <1>1 DEF QuoteNote, Lavora
  <2>1. CASE "psd2" \in collegamenti
    BY <2>1 DEF RilevaIncassi, Trovati, Aperta, StatiFattura, STATI_TERMINALI
  <2>2. CASE "psd2" \notin collegamenti
    BY <1>1, <2>2 DEF RilevaIncassi, Inv, QuoteNote, Lavora
  <2> QED BY <2>1, <2>2
<1>4. Permane(tx, tx) /\ NessunNuovoInvio(tx, tx)
  BY PermaneRiflessiva DEF NessunNuovoInvio
<1> QED BY <1>1, <1>2, <1>3, <1>4, LavoraConserva DEF Inv, Fasi

\* ApplicaPagamento preserves the invariant and the committed history.
LEMMA ApplicaPagamentoInv ==
  ASSUME Inv, NEW m \in Movimenti, NEW f \in Fatture, ApplicaPagamento(m, f)
  PROVE  Inv' /\ db' = db
<1> DEFINE importo == quota[<<m, f>>]
           e == ConPagamento(tx, m, f, importo)
<1>1. /\ <<m, f>> \in Abbinamenti /\ quota \in Quote /\ importo > 0
      /\ Lavora("incassi", "incassi", e) /\ quota' = [quota EXCEPT ![<<m, f>>] = 0]
  BY DEF ApplicaPagamento, Inv, TypeOK, Abbinamenti
<1>2. importo \in 1 .. ImportoMax
  BY <1>1, IncassiAssumption DEF Quote
<1>3. tx.stato[f] \in {"gestione", "pausa", "saldata"}
  BY <1>1 DEF Inv, QuoteNote
<1> HIDE DEF importo
<1>4. /\ Integro(e) /\ Permane(tx, e) /\ NessunNuovoInvio(tx, e)
      /\ \A g \in Fatture : e.stato[g] \in {tx.stato[g], "saldata"}
  BY <1>2, <1>3, ConPagamentoConserva DEF Inv
<1>5. quota' \in Quote
  BY <1>1, IncassiAssumption DEF Quote
<1>6. QuoteNote'
  <2> SUFFICES ASSUME NEW mf \in Abbinamenti, quota'[mf] # 0
               PROVE  e.stato[mf[2]] \in {"gestione", "pausa", "saldata"}
    BY <1>1 DEF QuoteNote, Lavora
  <2>1. quota[mf] # 0 /\ mf[2] \in Fatture
    BY <1>1 DEF Quote, Abbinamenti
  <2> QED BY <1>4, <2>1 DEF Inv, QuoteNote
<1> QED BY <1>1, <1>4, <1>5, <1>6, LavoraConserva DEF Inv, Fasi

\* AggiornaPosizioni preserves the invariant and the committed history.
LEMMA AggiornaPosizioniInv ==
  ASSUME Inv, AggiornaPosizioni
  PROVE  Inv' /\ db' = db
<1> DEFINE e == PosizioniAggiornate(tx)
<1>1. Lavora("incassi", "pause", e) /\ quota' = quota /\ \A mf \in Abbinamenti : quota[mf] = 0
  BY DEF AggiornaPosizioni
<1>2. Integro(e) /\ Permane(tx, e) /\ NessunNuovoInvio(tx, e)
  BY PosizioniAggiornateConserva DEF Inv, NessunNuovoInvio
<1>3. QuoteNote' /\ quota' \in Quote
  BY <1>1 DEF Inv, TypeOK, QuoteNote
<1> QED BY <1>1, <1>2, <1>3, LavoraConserva DEF Inv, Fasi

\* RiprendiPauseScadute preserves the invariant and the committed history.
LEMMA RiprendiPauseScaduteInv ==
  ASSUME Inv, RiprendiPauseScadute
  PROVE  Inv' /\ db' = db
<1> DEFINE e == PauseRiprese(tx)
<1>1. Lavora("pause", "escalation", e) /\ quota' = quota
  BY DEF RiprendiPauseScadute
<1>2. Integro(e) /\ Permane(tx, e) /\ NessunNuovoInvio(tx, e)
  BY PauseRipreseConserva DEF Inv, NessunNuovoInvio
<1>3. QuoteNote' /\ quota' \in Quote
  BY <1>1 DEF Inv, TypeOK, QuoteNote, Lavora
<1> QED BY <1>1, <1>2, <1>3, LavoraConserva DEF Inv, Fasi

\* VagliaDovute preserves the invariant and the committed history.
LEMMA VagliaDovuteInv ==
  ASSUME Inv, VagliaDovute
  PROVE  Inv' /\ db' = db
<1> DEFINE e == DovuteVagliate(tx)
<1>1. Lavora("escalation", "invii", e) /\ quota' = quota
  BY DEF VagliaDovute
<1>2. Integro(e) /\ Permane(tx, e) /\ NessunNuovoInvio(tx, e)
  BY DovuteVagliateConserva DEF Inv
<1>3. QuoteNote' /\ quota' \in Quote
  BY <1>1 DEF Inv, TypeOK, QuoteNote, Lavora
<1> QED BY <1>1, <1>2, <1>3, LavoraConserva DEF Inv, Fasi

\* EseguiEscalation preserves the invariant and the committed history.
LEMMA EseguiEscalationInv ==
  ASSUME Inv, NEW f \in Fatture, EseguiEscalation(f)
  PROVE  Inv' /\ db' = db
<1> DEFINE e == Escalata(tx, f)
<1>1. /\ fase = "escalation" /\ fase' = "escalation" /\ db' = db /\ tx' = e
      /\ quota' = quota /\ partiti' = [c \in Comunicazioni |-> partiti[c] + 0]
      /\ cadute' = cadute /\ tx.stato[f] = "gestione"
  BY DEF EseguiEscalation, DaEscalare, Manda
<1>2. Integro(e) /\ Permane(tx, e) /\ NessunNuovoInvio(tx, e)
  BY <1>1, EscalataConserva DEF Inv
<1> HIDE DEF e
<1>3. partiti' = partiti
  BY <1>1 DEF Inv, TypeOK
<1>4. TypeOK'
  BY <1>1, <1>2, <1>3 DEF EseguiEscalation, Manda, Messaggio, Inv, TypeOK, Integro
<1>5. QuoteNote'
  BY <1>1 DEF Inv, QuoteNote
<1>6. Permane(db', tx')
  BY <1>1, <1>2, PermaneTransitiva DEF Inv
<1>7. RegistroVeritiero'
  <2> SUFFICES ASSUME NEW c \in Comunicazioni
               PROVE  /\ db.com[c] = "inviata" \/ e.com[c] = "inviata" => partiti[c] >= 1
                      /\ partiti[c] <= cadute + (IF e.com[c] = "inviata" THEN 1 ELSE 0)
    BY <1>1, <1>3 DEF RegistroVeritiero
  <2>1. e.com[c] = "inviata" <=> tx.com[c] = "inviata"
    BY <1>2 DEF NessunNuovoInvio, Permane
  <2> QED BY <2>1 DEF Inv, RegistroVeritiero
<1> QED BY <1>1, <1>2, <1>4, <1>5, <1>6, <1>7 DEF Inv

\* InviaGruppo preserves the invariant and the committed history.
LEMMA InviaGruppoInv ==
  ASSUME Inv, NEW cliente \in Clienti, NEW canale \in Canali, NEW consegnato \in BOOLEAN,
         InviaGruppo(cliente, canale, consegnato)
  PROVE  Inv' /\ db' = db
<1> DEFINE G == Gruppo(tx, cliente, canale)
           x == Esito(consegnato)
           e == ConEsito(tx, G, x)
           K == IF consegnato THEN G ELSE {}
<1>1. /\ fase = "invii" /\ fase' = "invii" /\ db' = db /\ tx' = e
      /\ quota' = quota /\ cadute' = cadute
      /\ partiti' = [c \in Comunicazioni |-> partiti[c] + (IF c \in K THEN 1 ELSE 0)]
      /\ ultimo' = Messaggio("sollecito", {c[1] : c \in G}, G)
      /\ collegamenti' = collegamenti /\ adesso' = adesso /\ azioni' = azioni
  BY DEF InviaGruppo, Manda
<1>2. G \in SUBSET Comunicazioni /\ \A c \in G : tx.com[c] = "programmata"
  BY DEF Gruppo, DaInviare, Dovuta
<1>3. x \in {"inviata", "fallita"} /\ (x = "inviata" <=> consegnato)
  BY DEF Esito
<1> HIDE DEF G, x
<1>4. /\ Integro(e) /\ Permane(tx, e)
      /\ \A c \in Comunicazioni : e.com[c] = IF c \in G THEN x ELSE tx.com[c]
  BY <1>2, <1>3, ConEsitoConserva DEF Inv
<1> HIDE DEF e
<1>5. ultimo' \in [tipo : {"nessuno", "escalation", "sollecito", "forzato"},
                   fatture : SUBSET Fatture, comunicazioni : SUBSET Comunicazioni]
  <2>1. {c[1] : c \in G} \in SUBSET Fatture
    BY <1>2, TipoComunicazione
  <2> QED BY <1>1, <1>2, <2>1 DEF Messaggio
<1>6. partiti' \in [Comunicazioni -> Nat]
  BY <1>1 DEF Inv, TypeOK
<1>7. TypeOK'
  BY <1>1, <1>4, <1>5, <1>6 DEF Inv, TypeOK, Integro
<1>8. QuoteNote'
  BY <1>1 DEF Inv, QuoteNote
<1>9. Permane(db', tx')
  BY <1>1, <1>4, PermaneTransitiva DEF Inv
<1>10. RegistroVeritiero'
  <2> SUFFICES ASSUME NEW c \in Comunicazioni
               PROVE  /\ db.com[c] = "inviata" \/ e.com[c] = "inviata" => partiti'[c] >= 1
                      /\ partiti'[c] <= cadute + (IF e.com[c] = "inviata" THEN 1 ELSE 0)
    BY <1>1 DEF RegistroVeritiero
  <2>1. partiti[c] \in Nat /\ cadute \in Nat /\ partiti'[c] = partiti[c] + (IF c \in K THEN 1 ELSE 0)
    BY <1>1, IncassiAssumption DEF Inv, TypeOK
  <2>2. /\ db.com[c] = "inviata" \/ tx.com[c] = "inviata" => partiti[c] >= 1
        /\ partiti[c] <= cadute + (IF tx.com[c] = "inviata" THEN 1 ELSE 0)
    BY DEF Inv, RegistroVeritiero
  <2>3. CASE c \in G /\ consegnato
    BY <1>2, <1>3, <1>4, <2>1, <2>2, <2>3
  <2>4. CASE c \in G /\ ~consegnato
    BY <1>2, <1>3, <1>4, <2>1, <2>2, <2>4
  <2>5. CASE c \notin G
    BY <1>2, <1>3, <1>4, <2>1, <2>2, <2>5
  <2> QED BY <2>3, <2>4, <2>5
<1> QED BY <1>1, <1>4, <1>7, <1>8, <1>9, <1>10 DEF Inv

\* ConcludiCiclo preserves the invariant and the committed history.
LEMMA ConcludiCicloInv ==
  ASSUME Inv, ConcludiCiclo
  PROVE  Inv' /\ Permane(db, db')
<1> DEFINE e == Notificate(tx, collegamenti)
<1>1. /\ fase = "invii" /\ fase' = "ferma" /\ tx' = e /\ db' = e
      /\ quota' = quota /\ partiti' = partiti /\ cadute' = cadute
  BY DEF ConcludiCiclo
<1>2. Integro(e) /\ Permane(tx, e) /\ e.com = tx.com
  BY NotificateConserva DEF Inv, TypeOK
<1> HIDE DEF e
<1>3. TypeOK'
  BY <1>1, <1>2 DEF ConcludiCiclo, Inv, TypeOK, Integro, Fasi, NessunMessaggio, Messaggio
<1>4. QuoteNote'
  BY <1>1 DEF Inv, QuoteNote
<1>5. RegistroVeritiero'
  BY <1>1, <1>2 DEF Inv, RegistroVeritiero
<1>6. Permane(db, e) /\ Permane(e, e)
  BY <1>2, PermaneTransitiva, PermaneRiflessiva DEF Inv
<1> QED BY <1>1, <1>2, <1>3, <1>4, <1>5, <1>6 DEF Inv

\* Caduta preserves the invariant and the committed history.
LEMMA CadutaInv ==
  ASSUME Inv, Caduta
  PROVE  Inv' /\ db' = db
<1>1. /\ fase' = "ferma" /\ db' = db /\ tx' = db /\ partiti' = partiti
      /\ cadute \in Nat /\ cadute' = cadute + 1
      /\ quota' = [mf \in Abbinamenti |-> 0]
  BY IncassiAssumption DEF Caduta, Inv, TypeOK
<1>2. TypeOK'
  BY <1>1, IncassiAssumption
  DEF Caduta, Inv, TypeOK, Integro, Fasi, Quote, NessunMessaggio, Messaggio
<1>3. QuoteNote'
  BY <1>1 DEF QuoteNote
<1>4. RegistroVeritiero'
  <2> SUFFICES ASSUME NEW c \in Comunicazioni
               PROVE  /\ db.com[c] = "inviata" => partiti[c] >= 1
                      /\ partiti[c] <= cadute + 1 + (IF db.com[c] = "inviata" THEN 1 ELSE 0)
    BY <1>1 DEF RegistroVeritiero
  <2>1. partiti[c] \in Nat
    BY DEF Inv, TypeOK
  <2> QED BY <1>1, <2>1 DEF Inv, RegistroVeritiero
<1> QED BY <1>1, <1>2, <1>3, <1>4, PermaneRiflessiva DEF Inv

-----------------------------------------------------------------------------
(***************************************************************************)
(* One lemma per request of the operator.                                  *)
(***************************************************************************)
\* PausaFattura preserves the invariant and the committed history.
LEMMA PausaFatturaInv ==
  ASSUME Inv, NEW f \in Fatture, NEW g \in FinePausa \cup {Mai}, PausaFattura(f, g)
  PROVE  Inv' /\ Permane(db, db')
<1> DEFINE e == ConStato(db, f, "pausa", g)
<1>1. Integro(e) /\ Permane(db, e) /\ e.com = db.com
  <2>1. "pausa" \in STATI_CREDITO_APERTO
    BY DEF STATI_CREDITO_APERTO
  <2> QED BY <2>1, PausaConserva DEF PausaFattura, Inv
<1>2. RichiestaMuta(e)
  BY DEF PausaFattura
<1> HIDE DEF e
<1> QED BY <1>1, <1>2, RichiestaMutaConserva DEF NessunNuovoInvio

\* RiprendiFattura preserves the invariant and the committed history.
LEMMA RiprendiFatturaInv ==
  ASSUME Inv, NEW f \in Fatture, RiprendiFattura(f)
  PROVE  Inv' /\ Permane(db, db')
<1> DEFINE e == ConStato(db, f, "gestione", Mai)
<1>1. Integro(e) /\ Permane(db, e) /\ e.com = db.com
  <2>1. {"gestione", db.stato[f]} \subseteq STATI_CREDITO_APERTO
    BY DEF STATI_CREDITO_APERTO, RiprendiFattura
  <2> QED BY <2>1, PausaConserva DEF Inv
<1>2. RichiestaMuta(e)
  BY DEF RiprendiFattura
<1> HIDE DEF e
<1> QED BY <1>1, <1>2, RichiestaMutaConserva DEF NessunNuovoInvio

\* AnnullaComunicazione preserves the invariant and the committed history.
LEMMA AnnullaComunicazioneInv ==
  ASSUME Inv, NEW c \in Comunicazioni, AnnullaComunicazione(c)
  PROVE  Inv' /\ Permane(db, db')
<1> DEFINE e == [db EXCEPT !.com[c] = "annullata"]
<1>1. /\ Integro(e) /\ Permane(db, e)
      /\ \A k \in Comunicazioni : e.com[k] = IF k = c THEN "annullata" ELSE db.com[k]
  BY ComunicazioneConserva DEF AnnullaComunicazione, Inv
<1>2. RichiestaMuta(e)
  BY DEF AnnullaComunicazione
<1> HIDE DEF e
<1> QED BY <1>1, <1>2, RichiestaMutaConserva DEF NessunNuovoInvio

\* RegistraPagamento preserves the invariant and the committed history.
LEMMA RegistraPagamentoInv ==
  ASSUME Inv, NEW f \in Fatture, NEW i \in ImportiManuali, NEW k \in ChiaviManuali,
         RegistraPagamento(f, i, k)
  PROVE  Inv' /\ Permane(db, db')
<1> DEFINE e == PagataAMano(db, f, i, k)
<1>1. i \in 1 .. ImportoMax /\ k \in Chiavi
  BY IncassiAssumption DEF Chiavi
<1>2. Integro(e) /\ Permane(db, e) /\ NessunNuovoInvio(db, e)
  BY <1>1, PagataAManoConserva DEF RegistraPagamento, Inv
<1>3. RichiestaMuta(e)
  BY DEF RegistraPagamento
<1> HIDE DEF e
<1> QED BY <1>2, <1>3, RichiestaMutaConserva

\* AggiornaRecapiti preserves the invariant and the committed history.
LEMMA AggiornaRecapitiInv ==
  ASSUME Inv, NEW k \in Clienti, NEW r \in NuoviRecapiti, NEW o \in NuoviOptOut,
         AggiornaRecapiti(k, r, o)
  PROVE  Inv' /\ Permane(db, db')
<1> DEFINE e == ConRecapiti(db, k, r, o)
<1>1. Integro(e) /\ Permane(db, e) /\ e.com = db.com
  <2>1. r \in SUBSET Recapiti /\ o \in SUBSET Canali
    BY IncassiAssumption
  <2> QED BY <2>1, RecapitiConserva DEF Inv
<1>2. RichiestaMuta(e)
  BY DEF AggiornaRecapiti
<1> HIDE DEF e
<1> QED BY <1>1, <1>2, RichiestaMutaConserva DEF NessunNuovoInvio

\* SostituisciFlusso preserves the invariant and the committed history.
LEMMA SostituisciFlussoInv ==
  ASSUME Inv, NEW s \in NuoviFlussi, SostituisciFlusso(s)
  PROVE  Inv' /\ Permane(db, db')
<1> DEFINE e == FlussoSostituito(db, s)
<1>1. s \in SUBSET Passi
  BY IncassiAssumption
<1>2. Integro(e) /\ Permane(db, e) /\ NessunNuovoInvio(db, e)
  BY <1>1, FlussoSostituitoConserva DEF SostituisciFlusso, Inv
<1>3. RichiestaMuta(e)
  BY DEF SostituisciFlusso
<1> HIDE DEF e
<1> QED BY <1>2, <1>3, RichiestaMutaConserva

\* MarcaLette preserves the invariant and the committed history.
LEMMA MarcaLetteInv ==
  ASSUME Inv, NEW F \in SUBSET Fatture, NEW L \in SUBSET Collegamenti, MarcaLette(F, L)
  PROVE  Inv' /\ Permane(db, db')
<1> DEFINE e == Lette(db, F, L)
<1>1. Integro(e) /\ Permane(db, e) /\ e.com = db.com
  BY LetteConserva DEF Inv
<1>2. RichiestaMuta(e)
  BY DEF MarcaLette
<1> HIDE DEF e
<1> QED BY <1>1, <1>2, RichiestaMutaConserva DEF NessunNuovoInvio

\* ForzaComunicazione preserves the invariant and the committed history.
LEMMA ForzaComunicazioneInv ==
  ASSUME Inv, NEW c \in Comunicazioni, NEW consegnato \in BOOLEAN,
         ForzaComunicazione(c, consegnato)
  PROVE  Inv' /\ Permane(db, db')
<1> DEFINE x == Esito(consegnato)
           e == [db EXCEPT !.com[c] = x]
           K == IF consegnato THEN {c} ELSE {}
<1>1. /\ fase = "ferma" /\ fase' = "ferma" /\ db' = e /\ tx' = e /\ tx = db
      /\ quota' = quota /\ cadute' = cadute
      /\ partiti' = [k \in Comunicazioni |-> partiti[k] + (IF k \in K THEN 1 ELSE 0)]
      /\ ultimo' = Messaggio("forzato", {c[1]}, {c})
      /\ collegamenti' = collegamenti /\ adesso' = adesso
      /\ azioni < MaxAzioni /\ azioni' = azioni + 1
      /\ db.com[c] = "programmata"
  BY DEF ForzaComunicazione, ForzaAmmessa, Forzato, Richiesta, Manda, Inv
<1>2. x \in {"inviata", "fallita"} /\ (x = "inviata" <=> consegnato)
  BY DEF Esito
<1> HIDE DEF x
<1>3. /\ Integro(e) /\ Permane(db, e)
      /\ \A k \in Comunicazioni : e.com[k] = IF k = c THEN x ELSE db.com[k]
  BY <1>1, <1>2, ComunicazioneConserva DEF Inv
<1> HIDE DEF e
<1>4. ultimo' \in [tipo : {"nessuno", "escalation", "sollecito", "forzato"},
                   fatture : SUBSET Fatture, comunicazioni : SUBSET Comunicazioni]
  BY <1>1, TipoComunicazione DEF Messaggio
<1>5. partiti' \in [Comunicazioni -> Nat] /\ azioni' \in 0 .. MaxAzioni
  BY <1>1, IncassiAssumption DEF Inv, TypeOK
<1>6. TypeOK'
  BY <1>1, <1>3, <1>4, <1>5 DEF Inv, TypeOK, Integro
<1>7. QuoteNote'
  BY <1>1 DEF Inv, QuoteNote
<1>8. RegistroVeritiero'
  <2> SUFFICES ASSUME NEW k \in Comunicazioni
               PROVE  /\ e.com[k] = "inviata" => partiti'[k] >= 1
                      /\ partiti'[k] <= cadute + (IF e.com[k] = "inviata" THEN 1 ELSE 0)
    BY <1>1 DEF RegistroVeritiero
  <2>1. partiti[k] \in Nat /\ cadute \in Nat /\ partiti'[k] = partiti[k] + (IF k \in K THEN 1 ELSE 0)
    BY <1>1, IncassiAssumption DEF Inv, TypeOK
  <2>2. /\ db.com[k] = "inviata" => partiti[k] >= 1
        /\ partiti[k] <= cadute + (IF db.com[k] = "inviata" THEN 1 ELSE 0)
    BY <1>1 DEF Inv, RegistroVeritiero
  <2>3. CASE k = c
    BY <1>1, <1>2, <1>3, <2>1, <2>2, <2>3
  <2>4. CASE k # c
    BY <1>3, <2>1, <2>2, <2>4
  <2> QED BY <2>3, <2>4
<1> QED BY <1>1, <1>3, <1>6, <1>7, <1>8, PermaneRiflessiva DEF Inv

\* ForzaturaPersa preserves the invariant and the committed history.
LEMMA ForzaturaPersaInv ==
  ASSUME Inv, NEW c \in Comunicazioni, ForzaturaPersa(c)
  PROVE  Inv' /\ Permane(db, db')
<1>1. /\ fase = "ferma" /\ fase' = "ferma" /\ db' = db /\ tx' = db /\ tx = db
      /\ quota' = quota /\ cadute < MaxCadute /\ cadute' = cadute + 1
      /\ partiti' = [k \in Comunicazioni |-> partiti[k] + (IF k \in {c} THEN 1 ELSE 0)]
      /\ ultimo' = Messaggio("forzato", {c[1]}, {c})
      /\ collegamenti' = collegamenti /\ adesso' = adesso
      /\ azioni < MaxAzioni /\ azioni' = azioni + 1
  BY DEF ForzaturaPersa, ForzaAmmessa, Forzato, Richiesta, Manda, Inv
<1>2. ultimo' \in [tipo : {"nessuno", "escalation", "sollecito", "forzato"},
                   fatture : SUBSET Fatture, comunicazioni : SUBSET Comunicazioni]
  BY <1>1, TipoComunicazione DEF Messaggio
<1>3. /\ partiti' \in [Comunicazioni -> Nat]
      /\ azioni' \in 0 .. MaxAzioni /\ cadute' \in 0 .. MaxCadute
  BY <1>1, IncassiAssumption DEF Inv, TypeOK
<1>4. TypeOK'
  BY <1>1, <1>2, <1>3 DEF Inv, TypeOK
<1>5. QuoteNote'
  BY <1>1 DEF Inv, QuoteNote
<1>6. RegistroVeritiero'
  <2> SUFFICES ASSUME NEW k \in Comunicazioni
               PROVE  /\ db.com[k] = "inviata" => partiti'[k] >= 1
                      /\ partiti'[k] <= cadute + 1 + (IF db.com[k] = "inviata" THEN 1 ELSE 0)
    BY <1>1 DEF RegistroVeritiero
  <2>1. partiti[k] \in Nat /\ cadute \in Nat /\ partiti'[k] \in {partiti[k], partiti[k] + 1}
    BY <1>1, IncassiAssumption DEF Inv, TypeOK
  <2> QED BY <1>1, <2>1 DEF Inv, RegistroVeritiero
<1> QED BY <1>1, <1>4, <1>5, <1>6, PermaneRiflessiva DEF Inv

\* All the requests of the operator.
LEMMA AzioneInv ==
  ASSUME Inv, Azione
  PROVE  Inv' /\ Permane(db, db')
  BY PausaFatturaInv, RiprendiFatturaInv, AnnullaComunicazioneInv, ForzaComunicazioneInv,
     ForzaturaPersaInv, RegistraPagamentoInv, AggiornaRecapitiInv, SostituisciFlussoInv,
     MarcaLetteInv
  DEF Azione

\* All the steps of a cycle.
LEMMA PassoCicloInv ==
  ASSUME Inv, PassoCiclo
  PROVE  Inv' /\ Permane(db, db')
  BY ImportaFatturaInv, FineImportInv, RilevaIncassiInv, ApplicaPagamentoInv,
     AggiornaPosizioniInv, RiprendiPauseScaduteInv, EseguiEscalationInv, VagliaDovuteInv,
     InviaGruppoInv, ConcludiCicloInv, PermaneRiflessiva
  DEF PassoCiclo

\* The passing of time touches no row.
LEMMA PassaIlTempoInv ==
  ASSUME Inv, PassaIlTempo
  PROVE  Inv' /\ Permane(db, db')
<1>1. TypeOK'
  BY DEF Inv, TypeOK, PassaIlTempo, NessunMessaggio, Messaggio
<1>2. QuoteNote' /\ RegistroVeritiero'
  BY DEF Inv, PassaIlTempo, QuoteNote, RegistroVeritiero
<1> QED BY <1>1, <1>2, PermaneRiflessiva DEF Inv, PassaIlTempo

-----------------------------------------------------------------------------
(***************************************************************************)
(* The theorems.                                                           *)
(***************************************************************************)
\* Every step preserves the invariant and the committed history.
LEMMA PassoInv == Inv /\ [Next]_vars => Inv' /\ Permane(db, db')
<1> SUFFICES ASSUME Inv, [Next]_vars PROVE Inv' /\ Permane(db, db')
  OBVIOUS
<1>1. CASE \E attivi \in StatiCollegamenti : AvviaCiclo(attivi)
  BY <1>1, AvviaCicloInv
<1>2. CASE PassoCiclo
  BY <1>2, PassoCicloInv
<1>3. CASE Caduta
  BY <1>3, CadutaInv, PermaneRiflessiva
<1>4. CASE Azione
  BY <1>4, AzioneInv
<1>5. CASE PassaIlTempo
  BY <1>5, PassaIlTempoInv
<1>6. CASE UNCHANGED vars
  <2>1. TypeOK' /\ QuoteNote' /\ RegistroVeritiero'
    BY <1>6 DEF vars, Inv, TypeOK, QuoteNote, RegistroVeritiero
  <2> QED BY <1>6, <2>1, PermaneRiflessiva DEF vars, Inv
<1> QED BY <1>1, <1>2, <1>3, <1>4, <1>5, <1>6 DEF Next

\* The inductive invariant holds in every behaviour of the tenant: any number
\* of invoices, movements, cycles, lost transactions and requests.
THEOREM Invariante == Spec => []Inv
  BY InvInit, PassoInv, PTL DEF Spec

\* Every row keeps its type, in particular the residuals stay between zero and
\* the largest amount whatever is paid, twice or in excess.
THEOREM Tipi == Spec => []TypeOK
<1>1. Inv => TypeOK
  BY DEF Inv
<1> QED BY <1>1, Invariante, PTL

\* US-08: no reminder is left planned on an invoice that was paid or escalated
\* (sync._annulla_solleciti, invii._esegui_escalation, azioni).
THEOREM MaiChiHaPagato == Spec => []NessunSollecitoPendente
<1>1. Inv => NessunSollecitoPendente
  BY DEF Inv, Integro, NessunSollecitoPendente
<1> QED BY <1>1, Invariante, PTL

\* Planned reminders belong to the active version of the flow
\* (azioni.sostituisci_flusso, azioni._riprogramma_comunicazioni).
THEOREM FlussoUnico == Spec => []SoloFlussoAttivo
<1>1. Inv => SoloFlussoAttivo
  BY DEF Inv, Integro, SoloFlussoAttivo
<1> QED BY <1>1, Invariante, PTL

\* Closed positions hold no open credit (sync._aggiorna_posizioni, the import
\* and the manual payment that settles an invoice).
THEOREM PosizioniInOrdine == Spec => []PosizioniCoerenti
<1>1. Inv => PosizioniCoerenti
  BY DEF Inv, Integro, PosizioniCoerenti
<1> QED BY <1>1, Invariante, PTL

\* A debtor has at most one open position (sync._importa_fatture).
THEOREM PosizioneUnica == Spec => []UnaPosizioneAperta
<1>1. Inv => UnaPosizioneAperta
  BY DEF Inv, Integro, UnaPosizioneAperta
<1> QED BY <1>1, Invariante, PTL

\* A reminder is recorded as sent only if it was delivered, and it is delivered
\* at most once plus one time per lost transaction (invii._invia_gruppo,
\* azioni.forza_comunicazione).
THEOREM RegistroFedele == Spec => []RegistroVeritiero
<1>1. Inv => RegistroVeritiero
  BY DEF Inv
<1> QED BY <1>1, Invariante, PTL

\* No committed step rewrites history, although a cycle decides on what its
\* own transaction saw many steps before.
THEOREM StoriaImmutabile == Spec => StoriaPermanente
  BY InvInit, PassoInv, PTL DEF Spec, StoriaPermanente

-----------------------------------------------------------------------------
(***************************************************************************)
(* The planned instants (Dominio).  The calendar is any set of days; what  *)
(* is asked of it is what CalcoliProofs shows of the real one.             *)
(***************************************************************************)
\* No stretch without sending is longer than the model's bound.
FestiviRadi(festivi) ==
  \A g \in Int : \E h \in g .. g + MaxFestiviConsecutivi : h \notin festivi

\* The first working day from a day on.
LEMMA PrimoGiornoUtile ==
  ASSUME NEW festivi, FestiviRadi(festivi), NEW giorno \in Int
  PROVE  LET g == ProssimoGiornoUtile(giorno, festivi)
         IN  /\ g \in Int /\ giorno <= g /\ g \notin festivi
             /\ \A h \in giorno .. g - 1 : h \in festivi
<1> DEFINE Utile(k) == giorno + k \notin festivi
           Primo(g) == g \notin festivi /\ \A h \in giorno .. g - 1 : h \in festivi
<1>1. \E k \in 0 .. 7 : Utile(k)
  <2>1. PICK h \in giorno .. giorno + 7 : h \notin festivi
    BY DEF FestiviRadi, MaxFestiviConsecutivi
  <2>2. h - giorno \in 0 .. 7 /\ giorno + (h - giorno) = h
    BY <2>1
  <2> QED BY <2>1, <2>2
<1>2. \E k \in 0 .. 7 : Utile(k) /\ \A j \in 0 .. 7 : j < k => ~Utile(j)
  <2> HIDE DEF Utile
  <2>1. Utile(0) \/ Utile(1) \/ Utile(2) \/ Utile(3) \/ Utile(4) \/ Utile(5) \/ Utile(6) \/ Utile(7)
    BY <1>1
  <2> QED BY <2>1
<1>3. \E g \in giorno .. giorno + MaxFestiviConsecutivi : Primo(g)
  <2>1. PICK k \in 0 .. 7 : Utile(k) /\ \A j \in 0 .. 7 : j < k => ~Utile(j)
    BY <1>2
  <2>2. giorno + k \in giorno .. giorno + MaxFestiviConsecutivi
    BY DEF MaxFestiviConsecutivi
  <2>3. ASSUME NEW h \in giorno .. (giorno + k) - 1 PROVE h \in festivi
    <3>1. h - giorno \in 0 .. 7 /\ h - giorno < k /\ giorno + (h - giorno) = h
      OBVIOUS
    <3> QED BY <2>1, <3>1
  <2> QED BY <2>1, <2>2, <2>3
<1> DEFINE g == ProssimoGiornoUtile(giorno, festivi)
<1>4. g \in giorno .. giorno + MaxFestiviConsecutivi /\ Primo(g)
  BY <1>3 DEF ProssimoGiornoUtile
<1> QED BY <1>4 DEF MaxFestiviConsecutivi

\* An instant and its day and hour.
LEMMA GiornoEOra ==
  ASSUME NEW t \in Int
  PROVE  /\ Giorno(t) \in Int /\ Ora(t) \in 0 .. 23 /\ t = 24 * Giorno(t) + Ora(t)
         /\ \A g \in Int, o \in 0 .. 23 : t = 24 * g + o => Giorno(t) = g /\ Ora(t) = o
<1>1. Giorno(t) \in Int /\ Ora(t) \in 0 .. 23 /\ t = 24 * Giorno(t) + Ora(t)
  BY DEF Giorno, Ora
<1>2. ASSUME NEW g \in Int, NEW o \in 0 .. 23, t = 24 * g + o
      PROVE  Giorno(t) = g /\ Ora(t) = o
  BY <1>1, <1>2
<1> QED BY <1>1, <1>2

\* For any calendar whose holidays leave a working day in eight: a planned
\* instant is on a working day and not after 18:00, never earlier than asked,
\* the same if that was within the window, and otherwise at 10:00 of the first
\* day that is (calendario.applica_finestra).
THEOREM IstanteNellaFinestra ==
  ASSUME NEW festivi, FestiviRadi(festivi), NEW t \in Int
  PROVE  LET u == ApplicaFinestra(t, festivi)
             nellaFinestra(i) == Giorno(i) \notin festivi /\ Ora(i) <= ORA_LIMITE
         IN  /\ u \in Int /\ t <= u /\ nellaFinestra(u)
             /\ nellaFinestra(t) => u = t
             /\ ~nellaFinestra(t) => Ora(u) = ORA_INVIO
             /\ \A g \in Giorno(t) .. Giorno(u) - 1 :
                  g \in festivi \/ (g = Giorno(t) /\ ~nellaFinestra(t))
<1> DEFINE tardi == Ora(t) > ORA_LIMITE
           giorno == Giorno(t) + (IF tardi THEN 1 ELSE 0)
           utile == ProssimoGiornoUtile(giorno, festivi)
           ora == IF tardi \/ utile # giorno THEN ORA_INVIO ELSE Ora(t)
           u == ApplicaFinestra(t, festivi)
<1>1. Giorno(t) \in Int /\ Ora(t) \in 0 .. 23 /\ t = 24 * Giorno(t) + Ora(t)
  BY GiornoEOra
<1>2. giorno \in Int
  BY <1>1
<1>3. /\ utile \in Int /\ giorno <= utile /\ utile \notin festivi
      /\ \A h \in giorno .. utile - 1 : h \in festivi
  <2> HIDE DEF giorno
  <2> QED BY <1>2, PrimoGiornoUtile
<1>4. ora \in 0 .. 18 /\ u = 24 * utile + ora
  BY <1>1 DEF ApplicaFinestra, ORA_INVIO, ORA_LIMITE
<1>5. u \in Int /\ Giorno(u) = utile /\ Ora(u) = ora
  <2>1. u \in Int /\ ora \in 0 .. 23
    <3> HIDE DEF u, utile, ora
    <3> QED BY <1>3, <1>4
  <2> HIDE DEF u, utile, ora
  <2> QED BY <1>3, <1>4, <2>1, GiornoEOra
<1>6. tardi <=> Ora(t) > 18
  BY DEF ORA_LIMITE
<1>7. utile = giorno <=> giorno \notin festivi
  <2> HIDE DEF utile, giorno
  <2> QED BY <1>2, <1>3
<1> HIDE DEF u, utile
<1>8. t <= u
  BY <1>1, <1>3, <1>4, <1>6 DEF ORA_INVIO
<1>9. Giorno(u) \notin festivi /\ Ora(u) <= ORA_LIMITE
  BY <1>3, <1>4, <1>5 DEF ORA_LIMITE
<1>10. Giorno(t) \notin festivi /\ Ora(t) <= ORA_LIMITE => u = t
  BY <1>1, <1>4, <1>7 DEF ORA_LIMITE
<1>11. ~(Giorno(t) \notin festivi /\ Ora(t) <= ORA_LIMITE) => Ora(u) = ORA_INVIO
  BY <1>1, <1>5, <1>7 DEF ORA_LIMITE
<1>12. \A g \in Giorno(t) .. Giorno(u) - 1 :
         g \in festivi \/ (g = Giorno(t) /\ ~(Giorno(t) \notin festivi /\ Ora(t) <= ORA_LIMITE))
  BY <1>1, <1>3, <1>5 DEF ORA_LIMITE
<1> QED BY <1>5, <1>8, <1>9, <1>10, <1>11, <1>12 DEF u

\* The holidays do not upset the sequence: of two steps of a flow the one with
\* the smaller offset is never planned after the other (scheduler.istante_step).
THEOREM OrdineDeiPassi ==
  ASSUME NEW festivi, FestiviRadi(festivi), NEW scadenza \in Int,
         NEW o \in Int, NEW p \in Int, o <= p
  PROVE  IstanteStep(scadenza, o, festivi) <= IstanteStep(scadenza, p, festivi)
<1> DEFINE utile(q) == ProssimoGiornoUtile(scadenza + q, festivi)
<1>1. ASSUME NEW q \in Int
      PROVE  /\ IstanteStep(scadenza, q, festivi) = 24 * utile(q) + 10
             /\ utile(q) \in Int /\ scadenza + q <= utile(q) /\ utile(q) \notin festivi
             /\ \A h \in scadenza + q .. utile(q) - 1 : h \in festivi
  <2> DEFINE t == 24 * (scadenza + q) + 10
  <2>1. t \in Int /\ scadenza + q \in Int /\ 10 \in 0 .. 23
    OBVIOUS
  <2>2. Giorno(t) = scadenza + q /\ Ora(t) = 10
    <3> DEFINE g == scadenza + q
    <3>1. t \in Int /\ g \in Int /\ t = 24 * g + 10
      OBVIOUS
    <3> HIDE DEF t, g
    <3>2. Giorno(t) = g /\ Ora(t) = 10
      BY <2>1, <3>1, GiornoEOra
    <3> QED BY <3>2 DEF g
  <2>3. /\ utile(q) \in Int /\ scadenza + q <= utile(q) /\ utile(q) \notin festivi
        /\ \A h \in scadenza + q .. utile(q) - 1 : h \in festivi
    BY <2>1, PrimoGiornoUtile
  <2>4. IstanteStep(scadenza, q, festivi) = ApplicaFinestra(t, festivi)
    BY DEF IstanteStep, ORA_INVIO
  <2>5. ApplicaFinestra(t, festivi) = 24 * ProssimoGiornoUtile(scadenza + q + 0, festivi) + 10
    BY <2>2 DEF ApplicaFinestra, ORA_INVIO, ORA_LIMITE
  <2>6. scadenza + q + 0 = scadenza + q
    OBVIOUS
  <2> QED BY <2>3, <2>4, <2>5, <2>6
<1>2. utile(o) <= utile(p)
  <2> DEFINE a == utile(o)
             b == utile(p)
  <2>1. a \in Int /\ b \in Int /\ scadenza + p <= b /\ b \notin festivi
        /\ \A h \in scadenza + o .. a - 1 : h \in festivi
    BY <1>1
  <2> HIDE DEF a, b
  <2>2. a <= b
    BY <2>1
  <2> QED BY <2>2 DEF a, b
<1> DEFINE a == utile(o)
           b == utile(p)
<1>3. /\ IstanteStep(scadenza, o, festivi) = 24 * a + 10 /\ a \in Int
      /\ IstanteStep(scadenza, p, festivi) = 24 * b + 10 /\ b \in Int /\ a <= b
  BY <1>1, <1>2
<1> HIDE DEF a, b
<1> QED BY <1>3

-----------------------------------------------------------------------------
(***************************************************************************)
(* The money: the residuals are what the payments leave of the amounts,    *)
(* the cycle registers no more of a movement than was received, a reminder *)
(* asks for money that is due, each commit moves an invoice by a step of   *)
(* its promised life (VitaFattura), the totals the readings give (Letture) *)
(* agree, and a cycle that ends leaves nothing for another one to do.      *)
(*                                                                         *)
(* Two relations carry the argument from one step to a whole transaction.  *)
(* VitaCiclo(d, e) says how the cycle may move the rows from d to e: it is *)
(* transitive, so it holds between what is committed and what the cycle's  *)
(* transaction sees, however many steps it made.  Vita(d, e) is what the   *)
(* commit of a cycle and a request of the operator have in common.         *)
(***************************************************************************)
\* The rows of the invoices agree with the payments.
Contabile(d) ==
  /\ IsFiniteSet(d.pagamenti)
  /\ \A p \in d.pagamenti : d.stato[p.fattura] # "assente"
  /\ \A f \in Fatture :
       /\ d.stato[f] = "assente" => d.residuo[f] = 0
       /\ d.stato[f] # "assente" =>
            /\ d.residuo[f] = Massimo(0, Importo[f] - Incassato(d, f))
            /\ d.stato[f] = "saldata" <=> d.residuo[f] = 0

Vita(d, e) ==
  /\ \A f \in Fatture :
       /\ d.stato[f] = "assente" => e.stato[f] # "pausa"
       /\ d.stato[f] # "assente" => e.stato[f] # "assente" /\ e.residuo[f] <= d.residuo[f]
       /\ d.stato[f] \in STATI_TERMINALI => e.stato[f] = d.stato[f] /\ e.residuo[f] = d.residuo[f]
  /\ \A c \in Comunicazioni :
       d.stato[c[1]] # "assente" /\ e.com[c] = "inviata" => d.com[c] \in {"inviata", "programmata"}

\* The cycle pauses nothing and plans reminders of new invoices only.
VitaCiclo(d, e) ==
  /\ Vita(d, e)
  /\ \A f \in Fatture : e.stato[f] = "pausa" => d.stato[f] = "pausa"
  /\ \A c \in Comunicazioni :
       d.stato[c[1]] # "assente" /\ e.com[c] = "programmata" => d.com[c] = "programmata"

\* From d to e no payment is registered, an invoice at most changes its place
\* among the unsettled ones.
Intatti(d, e) ==
  /\ e.pagamenti = d.pagamenti /\ e.residuo = d.residuo
  /\ \A f \in Fatture :
       \/ e.stato[f] = d.stato[f]
       \/ d.stato[f] \in {"gestione", "pausa"} /\ e.stato[f] \in {"gestione", "pausa", "insoluto"}

\* Reminders are withdrawn or sent, none is planned.
SenzaNuovi(d, e) ==
  \A c \in Comunicazioni : e.com[c] # d.com[c] => d.com[c] = "programmata"

\* Residuals are natural numbers.
LEMMA ResiduoNaturale ==
  ASSUME NEW d \in Database, NEW f \in Fatture
  PROVE  d.residuo[f] \in Nat /\ d.residuo[f] \in Int
  BY IncassiAssumption DEF Database

\* Unregistered changes keep the accounts.
LEMMA IntattiContabile ==
  ASSUME NEW d \in Database, Contabile(d), NEW e, Intatti(d, e)
  PROVE  Contabile(e)
<1>1. /\ e.pagamenti = d.pagamenti /\ e.residuo = d.residuo
      /\ \A f \in Fatture :
           /\ e.stato[f] = "assente" <=> d.stato[f] = "assente"
           /\ e.stato[f] = "saldata" <=> d.stato[f] = "saldata"
  BY DEF Intatti
<1>2. \A f : Incassato(e, f) = Incassato(d, f)
  BY <1>1 DEF Incassato
<1>3. \A p \in e.pagamenti : e.stato[p.fattura] # "assente"
  <2> SUFFICES ASSUME NEW p \in d.pagamenti PROVE e.stato[p.fattura] # "assente"
    BY <1>1
  <2>1. p.fattura \in Fatture
    BY DEF Database, Pagamenti
  <2> QED BY <1>1, <2>1 DEF Contabile
<1> QED BY <1>1, <1>2, <1>3 DEF Contabile

\* They are a step of the life of every invoice ...
LEMMA IntattiVita ==
  ASSUME NEW d \in Database, NEW e, Intatti(d, e),
         \A c \in Comunicazioni : e.com[c] = "inviata" => d.com[c] \in {"inviata", "programmata"}
  PROVE  Vita(d, e)
<1>1. \A f \in Fatture : d.residuo[f] <= d.residuo[f]
  BY ResiduoNaturale
<1> QED BY <1>1 DEF Intatti, Vita, STATI_TERMINALI

\* ... and one the cycle may make if they pause and plan nothing.
LEMMA IntattiVitaCiclo ==
  ASSUME NEW d \in Database, NEW e, Intatti(d, e), SenzaNuovi(d, e),
         \A f \in Fatture : e.stato[f] = "pausa" => d.stato[f] = "pausa"
  PROVE  VitaCiclo(d, e)
<1>1. \A c \in Comunicazioni : e.com[c] = "inviata" => d.com[c] \in {"inviata", "programmata"}
  BY DEF SenzaNuovi
<1>2. Vita(d, e)
  BY <1>1, IntattiVita
<1> QED BY <1>2 DEF VitaCiclo, SenzaNuovi

\* Doing nothing is a step of both kinds.
LEMMA VitaRiflessiva ==
  ASSUME NEW d \in Database
  PROVE  Vita(d, d) /\ VitaCiclo(d, d)
<1>1. VitaCiclo(d, d)
  BY IntattiVitaCiclo DEF Intatti, SenzaNuovi
<1> QED BY <1>1 DEF VitaCiclo

\* The steps of the cycle add up.
LEMMA VitaCicloTransitiva ==
  ASSUME NEW a \in Database, NEW b \in Database, NEW c \in Database,
         VitaCiclo(a, b), VitaCiclo(b, c)
  PROVE  VitaCiclo(a, c)
<1>1. ASSUME NEW f \in Fatture
      PROVE  /\ a.stato[f] = "assente" => c.stato[f] # "pausa"
             /\ a.stato[f] # "assente" =>
                  c.stato[f] # "assente" /\ c.residuo[f] <= a.residuo[f]
             /\ a.stato[f] \in STATI_TERMINALI =>
                  c.stato[f] = a.stato[f] /\ c.residuo[f] = a.residuo[f]
  <2>1. a.residuo[f] \in Int /\ b.residuo[f] \in Int /\ c.residuo[f] \in Int
    BY ResiduoNaturale
  <2> QED BY <2>1 DEF VitaCiclo, Vita
<1>2. \A x \in Comunicazioni : x[1] \in Fatture
  BY TipoComunicazione
<1>3. \A x \in Comunicazioni :
        a.stato[x[1]] # "assente" =>
          /\ c.com[x] = "inviata" => a.com[x] \in {"inviata", "programmata"}
          /\ c.com[x] = "programmata" => a.com[x] = "programmata"
  BY <1>2 DEF VitaCiclo, Vita
<1>4. Vita(a, c)
  BY <1>1, <1>3 DEF Vita
<1> QED BY <1>3, <1>4 DEF VitaCiclo

-----------------------------------------------------------------------------
(***************************************************************************)
(* What the operators of module Incassi do to the accounts.                *)
(***************************************************************************)
\* The steps of the cycle that register no payment (PauseRiprese, Escalata,
\* DovuteVagliate, ConEsito, Notificate, PosizioniAggiornate).
LEMMA PauseRipreseConti ==
  ASSUME NEW d \in Database, NEW e, e = PauseRiprese(d)
  PROVE  Intatti(d, e) /\ VitaCiclo(d, e)
<1>1. /\ e.pagamenti = d.pagamenti /\ e.residuo = d.residuo /\ e.com = d.com
      /\ \A g \in Fatture :
           e.stato[g] = d.stato[g] \/ (d.stato[g] = "pausa" /\ e.stato[g] = "gestione")
  BY DEF Database, PauseRiprese, PausaScaduta
<1>2. Intatti(d, e) /\ SenzaNuovi(d, e)
  BY <1>1 DEF Intatti, SenzaNuovi
<1> QED BY <1>1, <1>2, IntattiVitaCiclo

\* See above.
LEMMA EscalataConti ==
  ASSUME NEW d \in Database, NEW f \in Fatture, d.stato[f] = "gestione",
         NEW e, e = Escalata(d, f)
  PROVE  Intatti(d, e) /\ VitaCiclo(d, e)
<1>1. /\ e.pagamenti = d.pagamenti /\ e.residuo = d.residuo
      /\ e.stato = [d.stato EXCEPT ![f] = "insoluto"]
      /\ e.com = [c \in Comunicazioni |->
                    IF c[1] \in {f} /\ d.com[c] = "programmata" THEN "annullata" ELSE d.com[c]]
  BY DEF Database, Escalata, Annulla
<1>2. Intatti(d, e) /\ SenzaNuovi(d, e)
  BY <1>1 DEF Intatti, SenzaNuovi, Database
<1>3. \A g \in Fatture : e.stato[g] = "pausa" => d.stato[g] = "pausa"
  BY <1>1 DEF Database
<1> QED BY <1>2, <1>3, IntattiVitaCiclo

\* See above.
LEMMA DovuteVagliateConti ==
  ASSUME NEW d \in Database, NEW e, e = DovuteVagliate(d)
  PROVE  Intatti(d, e) /\ VitaCiclo(d, e) /\ e.stato = d.stato
<1>1. /\ e.pagamenti = d.pagamenti /\ e.residuo = d.residuo /\ e.stato = d.stato
      /\ \A c \in Comunicazioni : e.com[c] = d.com[c] \/ d.com[c] = "programmata"
  BY DEF Database, DovuteVagliate, Dovuta
<1>2. Intatti(d, e) /\ SenzaNuovi(d, e)
  BY <1>1 DEF Intatti, SenzaNuovi
<1> QED BY <1>1, <1>2, IntattiVitaCiclo

\* See above.
LEMMA ConEsitoConti ==
  ASSUME NEW d \in Database, NEW C, NEW x, \A c \in C : d.com[c] = "programmata",
         NEW e, e = ConEsito(d, C, x)
  PROVE  /\ Intatti(d, e) /\ VitaCiclo(d, e) /\ e.stato = d.stato
         /\ e.recapiti = d.recapiti /\ e.optOut = d.optOut
<1>1. /\ e.pagamenti = d.pagamenti /\ e.residuo = d.residuo /\ e.stato = d.stato
      /\ e.recapiti = d.recapiti /\ e.optOut = d.optOut
      /\ \A c \in Comunicazioni : e.com[c] = IF c \in C THEN x ELSE d.com[c]
  BY DEF Database, ConEsito
<1>2. Intatti(d, e) /\ SenzaNuovi(d, e)
  BY <1>1 DEF Intatti, SenzaNuovi
<1> QED BY <1>1, <1>2, IntattiVitaCiclo

\* See above.
LEMMA NotificateConti ==
  ASSUME NEW d \in Database, NEW L, NEW e, e = Notificate(d, L)
  PROVE  Intatti(d, e) /\ VitaCiclo(d, e)
<1>1. /\ e.pagamenti = d.pagamenti /\ e.residuo = d.residuo /\ e.stato = d.stato
      /\ e.com = d.com
  BY DEF Database, Notificate
<1>2. Intatti(d, e) /\ SenzaNuovi(d, e)
  BY <1>1 DEF Intatti, SenzaNuovi
<1> QED BY <1>1, <1>2, IntattiVitaCiclo

\* See above.
LEMMA PosizioniAggiornateConti ==
  ASSUME NEW d \in Database, NEW e, e = PosizioniAggiornate(d)
  PROVE  Intatti(d, e) /\ VitaCiclo(d, e)
<1>1. /\ e.pagamenti = d.pagamenti /\ e.residuo = d.residuo /\ e.stato = d.stato
      /\ e.com = d.com
  BY DEF Database, PosizioniAggiornate
<1>2. Intatti(d, e) /\ SenzaNuovi(d, e)
  BY <1>1 DEF Intatti, SenzaNuovi
<1> QED BY <1>1, <1>2, IntattiVitaCiclo

\* The reminders of some invoices are cancelled (_annulla_solleciti).
LEMMA AnnullataConti ==
  ASSUME NEW d \in Database, NEW F, NEW e, e = Annulla(d, F)
  PROVE  Intatti(d, e) /\ VitaCiclo(d, e)
<1>1. /\ e.pagamenti = d.pagamenti /\ e.residuo = d.residuo /\ e.stato = d.stato
      /\ \A c \in Comunicazioni : e.com[c] = d.com[c] \/ d.com[c] = "programmata"
  BY DEF Database, Annulla
<1>2. Intatti(d, e) /\ SenzaNuovi(d, e)
  BY <1>1 DEF Intatti, SenzaNuovi
<1> QED BY <1>1, <1>2, IntattiVitaCiclo

\* The first flow of the tenant (_flusso_default).
LEMMA ConFlussoConti ==
  ASSUME NEW d \in Database, NEW e, e = ConFlusso(d)
  PROVE  Intatti(d, e) /\ VitaCiclo(d, e)
<1>1. /\ e.pagamenti = d.pagamenti /\ e.residuo = d.residuo /\ e.stato = d.stato
      /\ e.com = d.com
  BY DEF Database, ConFlusso
<1>2. Intatti(d, e) /\ SenzaNuovi(d, e)
  BY <1>1 DEF Intatti, SenzaNuovi
<1> QED BY <1>1, <1>2, IntattiVitaCiclo

\* The requests that register no payment (ConStato, the cancelling or forcing
\* of one reminder, ConRecapiti, FlussoSostituito, Lette).
LEMMA ConStatoConti ==
  ASSUME NEW d \in Database, NEW f \in Fatture, d.stato[f] \in STATI_CREDITO_APERTO,
         NEW x \in STATI_CREDITO_APERTO, NEW g, NEW e, e = ConStato(d, f, x, g)
  PROVE  Intatti(d, e) /\ Vita(d, e)
<1>1. /\ e.pagamenti = d.pagamenti /\ e.residuo = d.residuo /\ e.com = d.com
      /\ e.stato = [d.stato EXCEPT ![f] = x]
  BY DEF Database, ConStato
<1>2. Intatti(d, e)
  BY <1>1 DEF Intatti, Database, STATI_CREDITO_APERTO
<1> QED BY <1>1, <1>2, IntattiVita

\* See above.
LEMMA ComunicazioneConti ==
  ASSUME NEW d \in Database, NEW k \in Comunicazioni, d.com[k] = "programmata", NEW x,
         NEW e, e = [d EXCEPT !.com[k] = x]
  PROVE  /\ Intatti(d, e) /\ Vita(d, e)
         /\ e.stato = d.stato /\ e.recapiti = d.recapiti /\ e.optOut = d.optOut
<1>1. /\ e.pagamenti = d.pagamenti /\ e.residuo = d.residuo /\ e.stato = d.stato
      /\ e.recapiti = d.recapiti /\ e.optOut = d.optOut
      /\ e.com = [d.com EXCEPT ![k] = x]
  BY DEF Database
<1>2. Intatti(d, e)
  BY <1>1 DEF Intatti
<1>3. \A c \in Comunicazioni : e.com[c] = "inviata" => d.com[c] \in {"inviata", "programmata"}
  BY <1>1 DEF Database
<1> QED BY <1>1, <1>2, <1>3, IntattiVita

\* See above.
LEMMA RecapitiConti ==
  ASSUME NEW d \in Database, NEW k, NEW r, NEW o, NEW e, e = ConRecapiti(d, k, r, o)
  PROVE  Intatti(d, e) /\ Vita(d, e)
<1>1. /\ e.pagamenti = d.pagamenti /\ e.residuo = d.residuo /\ e.stato = d.stato
      /\ e.com = d.com
  BY DEF Database, ConRecapiti
<1>2. Intatti(d, e)
  BY <1>1 DEF Intatti
<1> QED BY <1>1, <1>2, IntattiVita

\* See above.
LEMMA FlussoSostituitoConti ==
  ASSUME NEW d \in Database, NEW s, NEW e, e = FlussoSostituito(d, s)
  PROVE  Intatti(d, e) /\ Vita(d, e)
<1>1. /\ e.pagamenti = d.pagamenti /\ e.residuo = d.residuo /\ e.stato = d.stato
      /\ \A c \in Comunicazioni : e.com[c] \in {"programmata", "annullata", d.com[c]}
  BY DEF Database, FlussoSostituito, Riprogrammata, Annulla
<1>2. Intatti(d, e)
  BY <1>1 DEF Intatti
<1>3. \A c \in Comunicazioni : e.com[c] = "inviata" => d.com[c] \in {"inviata", "programmata"}
  BY <1>1
<1> QED BY <1>2, <1>3, IntattiVita

\* See above.
LEMMA LetteConti ==
  ASSUME NEW d \in Database, NEW F, NEW L, NEW e, e = Lette(d, F, L)
  PROVE  Intatti(d, e) /\ Vita(d, e)
<1>1. /\ e.pagamenti = d.pagamenti /\ e.residuo = d.residuo /\ e.stato = d.stato
      /\ e.com = d.com
  BY DEF Database, Lette
<1>2. Intatti(d, e)
  BY <1>1 DEF Intatti
<1> QED BY <1>1, <1>2, IntattiVita

-----------------------------------------------------------------------------
(***************************************************************************)
(* Sums of payments.                                                       *)
(***************************************************************************)
\* The amounts of payments are weights.
LEMMA ImportiNaturali ==
  ASSUME NEW P \in SUBSET Pagamenti, IsFiniteSet(P)
  PROVE  /\ Naturale([p \in P |-> p.importo], P)
         /\ SommaImporti(P) = SommaSu([p \in P |-> p.importo], P)
         /\ SommaImporti(P) \in Nat
<1>1. Naturale([p \in P |-> p.importo], P)
  BY IncassiAssumption DEF Naturale, Pagamenti
<1>2. SommaImporti(P) = SommaSu([p \in P |-> p.importo], P)
  BY DEF SommaImporti
<1> QED BY <1>1, <1>2, SommaNaturale

\* A new payment adds its amount.
LEMMA ImportiAggiunti ==
  ASSUME NEW P \in SUBSET Pagamenti, IsFiniteSet(P), NEW p \in Pagamenti, p \notin P
  PROVE  SommaImporti(P \cup {p}) = SommaImporti(P) + p.importo
<1> DEFINE Q == P \cup {p}
           w == [x \in Q |-> x.importo]
           v == [x \in P |-> x.importo]
<1>1. Q \in SUBSET Pagamenti /\ IsFiniteSet(Q)
  BY FS_AddElement
<1>2. Naturale(w, Q) /\ SommaImporti(Q) = SommaSu(w, Q)
  BY <1>1, ImportiNaturali
<1>3. Naturale(v, P) /\ SommaImporti(P) = SommaSu(v, P) /\ SommaSu(v, P) \in Nat
  BY ImportiNaturali
<1>4. w[p] = p.importo /\ \A x \in P : w[x] = v[x]
  OBVIOUS
<1>5. w[p] \in Nat
  BY <1>2 DEF Naturale
<1> HIDE DEF w, v
<1>6. SommaSu(w, P) = SommaSu(v, P)
  BY <1>4, SommaUguale
<1>7. SommaSu(w, Q) = w[p] + SommaSu(w, P)
  BY <1>2, SommaAggiungi
<1> QED BY <1>2, <1>3, <1>4, <1>5, <1>6, <1>7

\* Part of the payments is no more than all of them.
LEMMA ImportiMonotoni ==
  ASSUME NEW P \in SUBSET Pagamenti, IsFiniteSet(P), NEW R \in SUBSET P
  PROVE  SommaImporti(R) <= SommaImporti(P)
<1> DEFINE w == [x \in R |-> x.importo]
           v == [x \in P |-> x.importo]
<1>1. R \in SUBSET Pagamenti /\ IsFiniteSet(R)
  BY FS_Subset
<1>2. Naturale(w, R) /\ SommaImporti(R) = SommaSu(w, R)
  BY <1>1, ImportiNaturali
<1>3. Naturale(v, P) /\ SommaImporti(P) = SommaSu(v, P)
  BY ImportiNaturali
<1>4. \A x \in R : w[x] = v[x] /\ v[x] \in Nat
  BY <1>3 DEF Naturale
<1> HIDE DEF w, v
<1>5. \A x \in R : w[x] <= v[x]
  BY <1>4
<1> QED BY <1>2, <1>3, <1>5, SommaMonotona

\* What is collected of an invoice is an amount.
LEMMA IncassatoNaturale ==
  ASSUME NEW d \in Database, IsFiniteSet(d.pagamenti), NEW f
  PROVE  Incassato(d, f) \in Nat
<1> DEFINE P == {p \in d.pagamenti : p.fattura = f}
<1>1. P \in SUBSET Pagamenti /\ IsFiniteSet(P)
  BY FS_Subset DEF Database
<1> HIDE DEF P
<1>2. SommaImporti(P) \in Nat
  BY <1>1, ImportiNaturali
<1> QED BY <1>2 DEF Incassato, P

\* What the cycle registered of a movement.
DalMovimento(d, m) ==
  {p \in d.pagamenti : p.origine = "riconciliazione" /\ p.chiave \in {m} \X Fatture}

\* A new payment of the cycle is of one movement; one by hand of none.
LEMMA IncassataConti ==
  ASSUME NEW d \in Database, Contabile(d), NEW f \in Fatture, NEW importo \in 1 .. ImportoMax,
         NEW k \in Chiavi, ~RegistratoCon(d, k), NEW origine \in {"riconciliazione", "manuale"},
         d.stato[f] \in {"gestione", "pausa", "saldata"},
         NEW e, e = Incassata(d, f, importo, k, origine)
  PROVE  /\ Contabile(e) /\ VitaCiclo(d, e)
         /\ \A m \in Movimenti :
              SommaImporti(DalMovimento(e, m)) =
                SommaImporti(DalMovimento(d, m))
                + (IF origine = "riconciliazione" /\ k \in {m} \X Fatture THEN importo ELSE 0)
<1> DEFINE p == [chiave |-> k, fattura |-> f, importo |-> importo, origine |-> origine]
           r == ResiduoDopoIncasso(d.residuo[f], importo)
           Di(P, g) == {x \in P : x.fattura = g}
           Del(P, m) == {x \in P : x.origine = "riconciliazione" /\ x.chiave \in {m} \X Fatture}
<1>1. /\ e.pagamenti = d.pagamenti \cup {p} /\ e.com = d.com
      /\ e.residuo = [d.residuo EXCEPT ![f] = r]
      /\ e.stato = [d.stato EXCEPT ![f] = StatoDopoPagamento(@, r)]
  BY DEF Incassata, Database
<1>2. p \in Pagamenti /\ d.pagamenti \in SUBSET Pagamenti
  BY DEF Pagamenti, Database
<1>3. p \notin d.pagamenti
  BY DEF RegistratoCon
<1>4. /\ p.fattura = f /\ p.importo = importo
      /\ p.chiave = k /\ p.origine = origine
  OBVIOUS
<1> HIDE DEF p
<1>5. IsFiniteSet(d.pagamenti) /\ IsFiniteSet(e.pagamenti)
  <2>1. IsFiniteSet(d.pagamenti)
    BY DEF Contabile
  <2>2. IsFiniteSet(d.pagamenti \cup {p})
    BY <2>1, FS_AddElement
  <2> QED BY <1>1, <2>1, <2>2
<1>6. ASSUME NEW g \in Fatture
      PROVE  /\ Incassato(e, g) = Incassato(d, g) + (IF g = f THEN importo ELSE 0)
             /\ Incassato(d, g) \in Nat
  <2>1. Di(d.pagamenti, g) \in SUBSET Pagamenti /\ IsFiniteSet(Di(d.pagamenti, g))
    BY <1>2, <1>5, FS_Subset
  <2>2. Incassato(e, g) = SommaImporti(Di(e.pagamenti, g))
        /\ Incassato(d, g) = SommaImporti(Di(d.pagamenti, g))
    BY DEF Incassato
  <2>3. Incassato(d, g) \in Nat
    BY <1>5, IncassatoNaturale
  <2>4. CASE g = f
    <3>1. Di(e.pagamenti, g) = Di(d.pagamenti, g) \cup {p} /\ p \notin Di(d.pagamenti, g)
      BY <1>1, <1>3, <1>4, <2>4
    <3> HIDE DEF Di
    <3>2. SommaImporti(Di(d.pagamenti, g) \cup {p}) = SommaImporti(Di(d.pagamenti, g)) + p.importo
      BY <1>2, <2>1, <3>1, ImportiAggiunti
    <3> QED BY <1>4, <2>2, <2>3, <2>4, <3>1, <3>2
  <2>5. CASE g # f
    <3>1. Di(e.pagamenti, g) = Di(d.pagamenti, g)
      BY <1>1, <1>4, <2>5
    <3> HIDE DEF Di
    <3> QED BY <2>2, <2>3, <2>5, <3>1
  <2> QED BY <2>4, <2>5
<1>7. ASSUME NEW m \in Movimenti
      PROVE  SommaImporti(DalMovimento(e, m)) =
               SommaImporti(DalMovimento(d, m))
               + (IF origine = "riconciliazione" /\ k \in {m} \X Fatture THEN importo ELSE 0)
  <2>1. Del(d.pagamenti, m) \in SUBSET Pagamenti /\ IsFiniteSet(Del(d.pagamenti, m))
    BY <1>2, <1>5, FS_Subset
  <2>2. DalMovimento(e, m) = Del(e.pagamenti, m) /\ DalMovimento(d, m) = Del(d.pagamenti, m)
    BY DEF DalMovimento
  <2>3. CASE origine = "riconciliazione" /\ k \in {m} \X Fatture
    <3>1. Del(e.pagamenti, m) = Del(d.pagamenti, m) \cup {p} /\ p \notin Del(d.pagamenti, m)
      BY <1>1, <1>3, <1>4, <2>3
    <3> HIDE DEF Del
    <3>2. SommaImporti(Del(d.pagamenti, m) \cup {p}) = SommaImporti(Del(d.pagamenti, m)) + p.importo
      BY <1>2, <2>1, <3>1, ImportiAggiunti
    <3> QED BY <1>4, <2>2, <2>3, <3>1, <3>2
  <2>4. CASE ~(origine = "riconciliazione" /\ k \in {m} \X Fatture)
    <3>1. Del(e.pagamenti, m) = Del(d.pagamenti, m)
      BY <1>1, <1>4, <2>4
    <3> HIDE DEF Del
    <3>2. SommaImporti(Del(d.pagamenti, m)) \in Nat
      BY <2>1, ImportiNaturali
    <3> QED BY <2>2, <2>4, <3>1, <3>2
  <2> QED BY <2>3, <2>4
<1>8. d.residuo[f] \in Nat /\ Importo[f] \in Nat /\ importo \in Nat /\ importo > 0
  BY ResiduoNaturale, IncassiAssumption
<1>9. /\ d.residuo[f] = Massimo(0, Importo[f] - Incassato(d, f))
      /\ d.stato[f] = "saldata" <=> d.residuo[f] = 0
      /\ d.stato[f] # "assente"
  BY DEF Contabile
<1>10. /\ r \in Nat /\ r <= d.residuo[f] /\ (d.residuo[f] = 0 => r = 0)
       /\ r = Massimo(0, Importo[f] - Incassato(e, f))
  BY <1>6, <1>8, <1>9 DEF ResiduoDopoIncasso, Massimo
<1>11. /\ e.residuo[f] = r /\ \A g \in Fatture : g # f => e.residuo[g] = d.residuo[g]
       /\ e.stato[f] = (IF r <= 0 THEN "saldata" ELSE d.stato[f])
       /\ \A g \in Fatture : g # f => e.stato[g] = d.stato[g]
  BY <1>1 DEF Database, StatoDopoPagamento
<1> HIDE DEF r, Di, Del
<1>12. /\ e.stato[f] = "saldata" <=> e.residuo[f] = 0
       /\ e.stato[f] # "assente" /\ e.residuo[f] <= d.residuo[f]
       /\ d.stato[f] \in STATI_TERMINALI => e.stato[f] = d.stato[f] /\ e.residuo[f] = d.residuo[f]
       /\ e.stato[f] \in {d.stato[f], "saldata"}
  BY <1>9, <1>10, <1>11 DEF STATI_TERMINALI
<1>13. Contabile(e)
  <2>1. \A x \in e.pagamenti : e.stato[x.fattura] # "assente"
    <3> SUFFICES ASSUME NEW x \in e.pagamenti PROVE e.stato[x.fattura] # "assente"
      OBVIOUS
    <3>1. x.fattura \in Fatture /\ (x.fattura = f \/ d.stato[x.fattura] # "assente")
      BY <1>1, <1>2, <1>4 DEF Contabile, Pagamenti
    <3> QED BY <1>11, <1>12, <3>1
  <2>2. ASSUME NEW g \in Fatture
        PROVE  /\ e.stato[g] = "assente" => e.residuo[g] = 0
               /\ e.stato[g] # "assente" =>
                    /\ e.residuo[g] = Massimo(0, Importo[g] - Incassato(e, g))
                    /\ e.stato[g] = "saldata" <=> e.residuo[g] = 0
    <3>1. CASE g = f
      BY <1>10, <1>11, <1>12, <3>1
    <3>2. CASE g # f
      <4>1. Incassato(e, g) = Incassato(d, g)
        BY <1>6, <3>2
      <4> QED BY <1>11, <3>2, <4>1 DEF Contabile
    <3> QED BY <3>1, <3>2
  <2> QED BY <1>5, <2>1, <2>2 DEF Contabile
<1>14. VitaCiclo(d, e)
  <2>1. ASSUME NEW g \in Fatture
        PROVE  /\ d.stato[g] = "assente" => e.stato[g] # "pausa"
               /\ d.stato[g] # "assente" =>
                    e.stato[g] # "assente" /\ e.residuo[g] <= d.residuo[g]
               /\ d.stato[g] \in STATI_TERMINALI =>
                    e.stato[g] = d.stato[g] /\ e.residuo[g] = d.residuo[g]
               /\ e.stato[g] = "pausa" => d.stato[g] = "pausa"
    <3>1. CASE g = f
      BY <1>9, <1>12, <3>1
    <3>2. CASE g # f
      BY <1>11, <3>2, ResiduoNaturale
    <3> QED BY <3>1, <3>2
  <2> QED BY <1>1, <2>1 DEF VitaCiclo, Vita
<1> QED BY <1>7, <1>13, <1>14

\* Applying a reconciled payment: a registered key is skipped, else the
\* movement it came from has given that much.
LEMMA ConPagamentoConti ==
  ASSUME NEW d \in Database, Contabile(d), NEW m \in Movimenti, NEW f \in Fatture,
         NEW importo \in 1 .. ImportoMax, d.stato[f] \in {"gestione", "pausa", "saldata"},
         NEW e, e = ConPagamento(d, m, f, importo)
  PROVE  /\ Contabile(e) /\ VitaCiclo(d, e)
         /\ \A n \in Movimenti :
              SommaImporti(DalMovimento(e, n)) =
                SommaImporti(DalMovimento(d, n))
                + (IF n = m /\ ~RegistratoCon(d, <<m, f>>) THEN importo ELSE 0)
<1> DEFINE dopo == Incassata(d, f, importo, <<m, f>>, "riconciliazione")
<1>1. \A n \in Movimenti : SommaImporti(DalMovimento(d, n)) \in Nat
  <2> SUFFICES ASSUME NEW n \in Movimenti PROVE SommaImporti(DalMovimento(d, n)) \in Nat
    OBVIOUS
  <2>1. DalMovimento(d, n) \in SUBSET Pagamenti /\ IsFiniteSet(DalMovimento(d, n))
    BY FS_Subset DEF DalMovimento, Contabile, Database
  <2> QED BY <2>1, ImportiNaturali
<1>2. CASE RegistratoCon(d, <<m, f>>)
  <2>1. e = d
    BY <1>2 DEF ConPagamento
  <2> QED BY <1>1, <1>2, <2>1, VitaRiflessiva
<1>3. CASE ~RegistratoCon(d, <<m, f>>)
  <2>1. <<m, f>> \in Chiavi
    BY DEF Chiavi, Abbinamenti
  <2>2. dopo \in Database
    BY <2>1, IncassataTipo
  <2>3. /\ Contabile(dopo) /\ VitaCiclo(d, dopo)
        /\ \A n \in Movimenti :
             SommaImporti(DalMovimento(dopo, n)) =
               SommaImporti(DalMovimento(d, n))
               + (IF "riconciliazione" = "riconciliazione" /\ <<m, f>> \in {n} \X Fatture
                  THEN importo ELSE 0)
    BY <1>3, <2>1, IncassataConti
  <2>4. \A n : <<m, f>> \in {n} \X Fatture <=> n = m
    OBVIOUS
  <2>5. e = IF PuoRicevereSollecito(dopo.stato[f]) THEN dopo
            ELSE Annulla(dopo, {f})
    BY <1>3 DEF ConPagamento
  <2> HIDE DEF dopo
  <2>6. e \in Database /\ Intatti(dopo, e) /\ VitaCiclo(dopo, e)
    BY <2>2, <2>5, AnnullataConti, AnnullaTipo, VitaRiflessiva DEF Intatti
  <2>7. Contabile(e) /\ VitaCiclo(d, e)
    BY <2>2, <2>3, <2>6, IntattiContabile, VitaCicloTransitiva
  <2>8. \A n : DalMovimento(e, n) = DalMovimento(dopo, n)
    BY <2>6 DEF Intatti, DalMovimento
  <2> QED BY <1>3, <2>3, <2>4, <2>7, <2>8
<1> QED BY <1>2, <1>3

\* Applying a manual payment takes nothing from the movements.
LEMMA PagataAManoConti ==
  ASSUME NEW d, Integro(d), Contabile(d), NEW f \in Fatture, NEW importo \in 1 .. ImportoMax,
         NEW k \in Chiavi, ~RegistratoCon(d, k), d.stato[f] \in STATI_CREDITO_APERTO,
         NEW e, e = PagataAMano(d, f, importo, k)
  PROVE  /\ Contabile(e) /\ Vita(d, e)
         /\ \A n \in Movimenti :
              SommaImporti(DalMovimento(e, n)) = SommaImporti(DalMovimento(d, n))
<1> DEFINE dopo == Incassata(d, f, importo, k, "manuale")
           p == d.posizione[f]
           nuova == StatoPosizione({dopo.stato[g] : g \in InPosizione(dopo, p)})
<1>1. d \in Database /\ d.stato[f] \in {"gestione", "pausa", "saldata"}
  BY DEF Integro, STATI_CREDITO_APERTO
<1>2. dopo \in Database
  BY <1>1, IncassataTipo
<1>3. /\ Contabile(dopo) /\ VitaCiclo(d, dopo)
      /\ \A n \in Movimenti :
           SommaImporti(DalMovimento(dopo, n)) =
             SommaImporti(DalMovimento(d, n))
             + (IF "manuale" = "riconciliazione" /\ k \in {n} \X Fatture THEN importo ELSE 0)
  BY <1>1, IncassataConti
<1>4. \A n \in Movimenti : SommaImporti(DalMovimento(d, n)) \in Nat
  <2> SUFFICES ASSUME NEW n \in Movimenti PROVE SommaImporti(DalMovimento(d, n)) \in Nat
    OBVIOUS
  <2>1. DalMovimento(d, n) \in SUBSET Pagamenti /\ IsFiniteSet(DalMovimento(d, n))
    BY <1>1, FS_Subset DEF DalMovimento, Contabile, Database
  <2> QED BY <2>1, ImportiNaturali
<1>5. e = IF dopo.stato[f] # "saldata" THEN dopo
          ELSE [Annulla(dopo, {f}) EXCEPT !.statoPos[p] = nuova]
  BY DEF PagataAMano
<1>6. e \in Database
  BY <1>1, PagataAManoConserva DEF Integro
<1> HIDE DEF dopo, nuova
<1>7. Intatti(dopo, e) /\ VitaCiclo(dopo, e)
  <2> DEFINE a == Annulla(dopo, {f})
  <2>1. Intatti(dopo, a) /\ VitaCiclo(dopo, a) /\ a \in Database
    BY <1>2, AnnullataConti, AnnullaTipo
  <2> HIDE DEF a
  <2>2. CASE e = dopo
    BY <1>2, <2>2, VitaRiflessiva DEF Intatti
  <2>3. CASE e = [a EXCEPT !.statoPos[p] = nuova]
    <3>1. /\ e.pagamenti = a.pagamenti /\ e.residuo = a.residuo
          /\ e.stato = a.stato /\ e.com = a.com
      BY <2>1, <2>3 DEF Database
    <3> QED BY <2>1, <3>1 DEF Intatti, VitaCiclo, Vita
  <2> QED BY <1>5, <2>2, <2>3 DEF a
<1>8. Contabile(e) /\ VitaCiclo(d, e)
  BY <1>1, <1>2, <1>3, <1>6, <1>7, IntattiContabile, VitaCicloTransitiva
<1>9. \A n : DalMovimento(e, n) = DalMovimento(dopo, n)
  BY <1>7 DEF Intatti, DalMovimento
<1> QED BY <1>3, <1>4, <1>8, <1>9 DEF VitaCiclo

\* A new invoice owes its amount: no payment can be of it yet.
LEMMA ImportataConti ==
  ASSUME NEW d \in Database, Contabile(d), NEW f \in Fatture, d.stato[f] = "assente",
         NEW e, e = Importata(d, f)
  PROVE  Contabile(e) /\ VitaCiclo(d, e) /\ e.pagamenti = d.pagamenti
<1>1. /\ e.pagamenti = d.pagamenti
      /\ e.stato = [d.stato EXCEPT ![f] = "gestione"]
      /\ e.residuo = [d.residuo EXCEPT ![f] = Importo[f]]
      /\ \A c \in Comunicazioni : e.com[c] # d.com[c] => c[1] = f
  BY DEF Database, Importata
<1>2. /\ e.stato[f] = "gestione" /\ e.residuo[f] = Importo[f]
      /\ \A g \in Fatture : g # f => e.stato[g] = d.stato[g] /\ e.residuo[g] = d.residuo[g]
  BY <1>1 DEF Database
<1>3. \A g : Incassato(e, g) = Incassato(d, g)
  BY <1>1 DEF Incassato
<1>4. Incassato(d, f) = 0
  <2>1. {p \in d.pagamenti : p.fattura = f} = {}
    BY DEF Contabile
  <2>2. Incassato(d, f) = SommaImporti({})
    BY <2>1 DEF Incassato
  <2> QED BY <2>2, SommaVuota DEF SommaImporti
<1>5. Importo[f] \in Nat /\ Importo[f] > 0
  BY IncassiAssumption
<1>6. Contabile(e)
  <2>1. e.residuo[f] = Massimo(0, Importo[f] - Incassato(e, f)) /\ e.residuo[f] # 0
    BY <1>2, <1>3, <1>4, <1>5 DEF Massimo
  <2>2. \A p \in e.pagamenti : e.stato[p.fattura] # "assente"
    <3> SUFFICES ASSUME NEW p \in d.pagamenti PROVE e.stato[p.fattura] # "assente"
      BY <1>1
    <3>1. p.fattura \in Fatture /\ d.stato[p.fattura] # "assente"
      BY DEF Database, Pagamenti, Contabile
    <3> QED BY <1>2, <3>1
  <2>3. ASSUME NEW g \in Fatture
        PROVE  /\ e.stato[g] = "assente" => e.residuo[g] = 0
               /\ e.stato[g] # "assente" =>
                    /\ e.residuo[g] = Massimo(0, Importo[g] - Incassato(e, g))
                    /\ e.stato[g] = "saldata" <=> e.residuo[g] = 0
    <3>1. CASE g = f
      BY <1>2, <2>1, <3>1
    <3>2. CASE g # f
      BY <1>2, <1>3, <3>2 DEF Contabile
    <3> QED BY <3>1, <3>2
  <2> QED BY <1>1, <2>2, <2>3 DEF Contabile
<1>7. VitaCiclo(d, e)
  <2>1. \A g \in Fatture :
          /\ d.stato[g] # "assente" => e.stato[g] = d.stato[g] /\ e.residuo[g] = d.residuo[g]
          /\ d.stato[g] = "assente" => e.stato[g] \in {"assente", "gestione"}
    BY <1>2
  <2>2. \A c \in Comunicazioni : d.stato[c[1]] # "assente" => e.com[c] = d.com[c]
    BY <1>1
  <2>3. \A g \in Fatture : d.residuo[g] <= d.residuo[g]
    BY ResiduoNaturale
  <2> QED BY <2>1, <2>2, <2>3 DEF VitaCiclo, Vita, STATI_TERMINALI
<1> QED BY <1>1, <1>6, <1>7

-----------------------------------------------------------------------------
(***************************************************************************)
(* The accounts along a behaviour.  Besides the rows being in order, what  *)
(* the cycle has registered of a movement and what it is about to register *)
(* fit in the movement: the quotas were found within what was left of it,  *)
(* and each of them is either registered or skipped.                       *)
(***************************************************************************)
QuoteDi(m) == [f \in Fatture |-> quota[<<m, f>>]]

Capienza ==
  \A m \in Movimenti :
    /\ SommaImporti(DalMovimento(db, m)) <= Bonifico[m]
    /\ SommaImporti(DalMovimento(tx, m)) + SommaSu(QuoteDi(m), Fatture) <= Bonifico[m]

Denaro ==
  /\ Contabile(db) /\ Contabile(tx) /\ VitaCiclo(db, tx)
  /\ Capienza

\* Amounts registered and about to be registered are natural numbers.
LEMMA CapienzaTipo ==
  ASSUME Inv, Denaro, NEW m \in Movimenti
  PROVE  /\ SommaImporti(DalMovimento(db, m)) \in Nat
         /\ SommaImporti(DalMovimento(tx, m)) \in Nat
         /\ Naturale(QuoteDi(m), Fatture)
         /\ SommaSu(QuoteDi(m), Fatture) \in Nat
         /\ Bonifico[m] \in Nat
         /\ IsFiniteSet(Fatture)
<1>1. Naturale(QuoteDi(m), Fatture)
  BY IncassiAssumption DEF Naturale, QuoteDi, Inv, TypeOK, Quote, Abbinamenti
<1>2. Bonifico[m] \in Nat /\ IsFiniteSet(Fatture)
  BY IncassiAssumption
<1>3. ASSUME NEW d \in Database, Contabile(d)
      PROVE  SommaImporti(DalMovimento(d, m)) \in Nat
  <2>1. DalMovimento(d, m) \in SUBSET Pagamenti /\ IsFiniteSet(DalMovimento(d, m))
    BY <1>3, FS_Subset DEF DalMovimento, Contabile, Database
  <2> QED BY <2>1, ImportiNaturali
<1>4. SommaImporti(DalMovimento(db, m)) \in Nat /\ SommaImporti(DalMovimento(tx, m)) \in Nat
  BY <1>3 DEF Denaro, Inv, TypeOK
<1> QED BY <1>1, <1>2, <1>4, SommaNaturale

\* A step of the cycle that registers no payment.
LEMMA CicloMutoConti ==
  ASSUME Inv, Inv', Denaro, Contabile(tx'), VitaCiclo(tx, tx'), tx'.pagamenti = tx.pagamenti,
         db' = db, quota' = quota
  PROVE  Denaro' /\ Vita(db, db')
<1>1. db \in Database /\ tx \in Database /\ tx' \in Database
  BY DEF Inv, TypeOK
<1>2. VitaCiclo(db', tx')
  BY <1>1, VitaCicloTransitiva DEF Denaro
<1>3. \A m : DalMovimento(tx', m) = DalMovimento(tx, m) /\ DalMovimento(db', m) = DalMovimento(db, m)
  BY DEF DalMovimento
<1>4. Capienza'
  BY <1>3 DEF Denaro, Capienza, QuoteDi
<1>5. Vita(db, db')
  BY <1>1, VitaRiflessiva
<1> QED BY <1>2, <1>4, <1>5 DEF Denaro

\* One that leaves the residuals alone too.
LEMMA CicloIntattoConti ==
  ASSUME Inv, Inv', Denaro, Intatti(tx, tx'), VitaCiclo(tx, tx'), db' = db, quota' = quota
  PROVE  Denaro' /\ Vita(db, db')
<1>1. tx \in Database /\ Contabile(tx)
  BY DEF Inv, TypeOK, Denaro
<1>2. Contabile(tx') /\ tx'.pagamenti = tx.pagamenti
  BY <1>1, IntattiContabile DEF Intatti
<1> QED BY <1>2, CicloMutoConti

\* A request of the operator that takes nothing from the movements.
LEMMA RichiestaConti ==
  ASSUME Inv, Inv', Denaro, Contabile(db'), Vita(db, db'), fase = "ferma", tx' = db',
         quota' = quota,
         \A m \in Movimenti :
           SommaImporti(DalMovimento(db', m)) = SommaImporti(DalMovimento(db, m))
  PROVE  Denaro' /\ Vita(db, db')
<1>1. VitaCiclo(db', tx')
  BY VitaRiflessiva DEF Inv, TypeOK
<1>2. tx = db
  BY DEF Inv
<1>3. Capienza'
  BY <1>2 DEF Denaro, Capienza, QuoteDi
<1> QED BY <1>1, <1>3 DEF Denaro

\* One that registers no payment.
LEMMA RichiestaIntattaConti ==
  ASSUME Inv, Inv', Denaro, Intatti(db, db'), Vita(db, db'), fase = "ferma", tx' = db',
         quota' = quota
  PROVE  Denaro' /\ Vita(db, db')
<1>1. db \in Database /\ Contabile(db)
  BY DEF Inv, TypeOK, Denaro
<1>2. Contabile(db')
  BY <1>1, IntattiContabile
<1>3. \A m : DalMovimento(db', m) = DalMovimento(db, m)
  BY DEF DalMovimento, Intatti
<1> QED BY <1>2, <1>3, RichiestaConti

\* Without rows there is nothing to account for.
LEMMA DenaroInit == Init => Denaro
<1> SUFFICES ASSUME Init PROVE Denaro
  OBVIOUS
<1>1. db = DbVuoto /\ tx = DbVuoto /\ \A mf \in Abbinamenti : quota[mf] = 0
  BY DEF Init
<1>2. /\ DbVuoto.stato = [f \in Fatture |-> "assente"]
      /\ DbVuoto.residuo = [f \in Fatture |-> 0]
      /\ DbVuoto.pagamenti = {}
  BY DEF DbVuoto
<1>3. Contabile(DbVuoto)
  BY <1>2, FS_EmptySet DEF Contabile
<1>4. VitaCiclo(DbVuoto, DbVuoto)
  BY <1>1, InvInit, VitaRiflessiva DEF Inv, TypeOK
<1>5. Capienza
  <2> SUFFICES ASSUME NEW m \in Movimenti
               PROVE  SommaImporti(DalMovimento(DbVuoto, m)) + SommaSu(QuoteDi(m), Fatture) <= Bonifico[m]
                      /\ SommaImporti(DalMovimento(DbVuoto, m)) <= Bonifico[m]
    BY <1>1 DEF Capienza
  <2>1. SommaImporti(DalMovimento(DbVuoto, m)) = 0
    <3>1. DalMovimento(DbVuoto, m) = {}
      BY <1>2 DEF DalMovimento
    <3> QED BY <3>1, SommaVuota DEF SommaImporti
  <2>2. SommaSu(QuoteDi(m), Fatture) = 0
    <3>1. \A f \in Fatture : QuoteDi(m)[f] = 0
      BY <1>1 DEF QuoteDi, Abbinamenti
    <3> QED BY <3>1, SommaZeri, IncassiAssumption
  <2> QED BY <2>1, <2>2, IncassiAssumption
<1> QED BY <1>1, <1>3, <1>4, <1>5 DEF Denaro

-----------------------------------------------------------------------------
(***************************************************************************)
(* The two steps of the cycle that move money.                             *)
(***************************************************************************)
\* What the reconciler finds fits in what is left of the movements.
LEMMA TrovatiEntro ==
  ASSUME NEW d \in Database, Contabile(d), NEW m \in Movimenti,
         SommaImporti(DalMovimento(d, m)) <= Bonifico[m]
  PROVE  SommaImporti(DalMovimento(d, m))
           + SommaSu([f \in Fatture |-> Trovati(d)[<<m, f>>]], Fatture) <= Bonifico[m]
<1> DEFINE res == ResiduiAperti(d)
           dis == Disponibili(d)
           t == [f \in Fatture |-> Trovati(d)[<<m, f>>]]
           q == [f \in Fatture |-> Quota(res, dis, m, f)]
           R == DalMovimento(d, m)
           A == {p \in d.pagamenti : p.chiave \in {m} \X Fatture}
<1>1. Ordinate
  BY IncassiAssumption DEF Ordinate
<1>2. res \in [Fatture -> Nat]
  BY ResiduoNaturale DEF ResiduiAperti
<1>3. A \in SUBSET Pagamenti /\ IsFiniteSet(A) /\ R \in SUBSET A /\ \A n \in Movimenti :
        {p \in d.pagamenti : p.chiave \in {n} \X Fatture} \in SUBSET Pagamenti
        /\ IsFiniteSet({p \in d.pagamenti : p.chiave \in {n} \X Fatture})
  BY FS_Subset DEF Contabile, Database, DalMovimento
<1>4. \A n \in Movimenti : Allocato(d, n) \in Nat
  <2> SUFFICES ASSUME NEW n \in Movimenti PROVE Allocato(d, n) \in Nat
    OBVIOUS
  <2> DEFINE P == {p \in d.pagamenti : p.chiave \in {n} \X Fatture}
  <2>1. P \in SUBSET Pagamenti /\ IsFiniteSet(P)
    BY <1>3
  <2> HIDE DEF P
  <2>2. SommaImporti(P) \in Nat
    BY <2>1, ImportiNaturali
  <2> QED BY <2>2 DEF Allocato, P
<1>5. dis \in [Movimenti -> Nat]
  BY <1>4, IncassiAssumption DEF Disponibili, Massimo
<1>6. SommaImporti(R) <= Allocato(d, m) /\ SommaImporti(R) \in Nat
  <2> HIDE DEF R, A
  <2>1. SommaImporti(R) <= SommaImporti(A)
    BY <1>3, ImportiMonotoni
  <2>2. R \in SUBSET Pagamenti /\ IsFiniteSet(R)
    BY <1>3, FS_Subset
  <2>3. SommaImporti(R) \in Nat
    BY <2>2, ImportiNaturali
  <2> QED BY <2>1, <2>3 DEF A, Allocato
<1>7. dis[m] <= Massimo(0, Bonifico[m] - Allocato(d, m))
  BY <1>4, IncassiAssumption DEF Disponibili, Massimo
<1>8. \A f \in Fatture : t[f] = 0 \/ t[f] = q[f]
  BY DEF Trovati, Riconcilia, Abbinamenti
<1> HIDE DEF res, dis, t
<1>9. /\ \A f \in Fatture : q[f] \in Nat
      /\ SommaSu(q, Fatture) <= dis[m]
  BY <1>1, <1>2, <1>5, QuoteEntroIlDisponibile
<1> HIDE DEF q
<1>10. SommaSu(t, Fatture) <= SommaSu(q, Fatture)
  <2>1. Naturale(t, Fatture) /\ Naturale(q, Fatture) /\ \A f \in Fatture : t[f] <= q[f]
    BY <1>8, <1>9 DEF Naturale
  <2> QED BY <2>1, SommaMonotona, IncassiAssumption
<1>11. SommaSu(t, Fatture) \in Nat /\ SommaSu(q, Fatture) \in Nat
  <2>1. Naturale(t, Fatture) /\ Naturale(q, Fatture)
    BY <1>8, <1>9 DEF Naturale
  <2> QED BY <2>1, SommaNaturale, IncassiAssumption
<1>12. dis[m] \in Nat /\ Bonifico[m] \in Nat /\ Allocato(d, m) \in Nat
  BY <1>4, <1>5, IncassiAssumption
<1> HIDE DEF R
<1>13. SommaImporti(R) + SommaSu(t, Fatture) <= Bonifico[m]
  BY <1>6, <1>7, <1>9, <1>10, <1>11, <1>12 DEF Massimo, R
<1> QED BY <1>13 DEF R, t

\* RilevaIncassi preserves the accounts.
LEMMA RilevaIncassiConti ==
  ASSUME Inv, Inv', Denaro, RilevaIncassi
  PROVE  Denaro' /\ Vita(db, db')
<1>1. tx' = tx /\ db' = db
  BY DEF RilevaIncassi, Lavora
<1>2. VitaCiclo(tx, tx') /\ tx \in Database /\ Vita(db, db')
  BY <1>1, VitaRiflessiva DEF Inv, TypeOK
<1>3. Capienza'
  <2>1. CASE "psd2" \in collegamenti
    <3>1. quota' = Trovati(tx)
      BY <2>1 DEF RilevaIncassi
    <3>2. ASSUME NEW m \in Movimenti
          PROVE  SommaImporti(DalMovimento(tx, m))
                   + SommaSu([f \in Fatture |-> Trovati(tx)[<<m, f>>]], Fatture) <= Bonifico[m]
      <4>1. SommaImporti(DalMovimento(tx, m)) <= Bonifico[m]
        BY CapienzaTipo DEF Denaro, Capienza
      <4> QED BY <1>2, <4>1, TrovatiEntro DEF Denaro
    <3> QED BY <1>1, <3>1, <3>2 DEF Denaro, Capienza, QuoteDi
  <2>2. CASE "psd2" \notin collegamenti
    <3>1. quota' = quota
      BY <2>2 DEF RilevaIncassi
    <3> QED BY <1>1, <3>1 DEF Denaro, Capienza, QuoteDi
  <2> QED BY <2>1, <2>2
<1> QED BY <1>1, <1>2, <1>3 DEF Denaro

\* ApplicaPagamento preserves the accounts.
LEMMA ApplicaPagamentoConti ==
  ASSUME Inv, Inv', Denaro, NEW m \in Movimenti, NEW f \in Fatture, ApplicaPagamento(m, f)
  PROVE  Denaro' /\ Vita(db, db') /\ VitaCiclo(tx, tx')
<1> DEFINE importo == quota[<<m, f>>]
           e == ConPagamento(tx, m, f, importo)
<1>1. /\ <<m, f>> \in Abbinamenti /\ quota \in Quote /\ importo > 0
      /\ tx' = e /\ db' = db /\ quota' = [quota EXCEPT ![<<m, f>>] = 0]
  BY DEF ApplicaPagamento, Lavora, Inv, TypeOK, Abbinamenti
<1>2. importo \in 1 .. ImportoMax
  BY <1>1, IncassiAssumption DEF Quote
<1>3. tx.stato[f] \in {"gestione", "pausa", "saldata"}
  BY <1>1 DEF Inv, QuoteNote
<1>4. tx \in Database /\ Contabile(tx) /\ db \in Database /\ tx' \in Database
  BY DEF Inv, TypeOK, Denaro
<1>5. /\ Contabile(e) /\ VitaCiclo(tx, e)
      /\ \A n \in Movimenti :
           SommaImporti(DalMovimento(e, n)) =
             SommaImporti(DalMovimento(tx, n))
             + (IF n = m /\ ~RegistratoCon(tx, <<m, f>>) THEN importo ELSE 0)
  <2> HIDE DEF importo
  <2> QED BY <1>2, <1>3, <1>4, ConPagamentoConti
<1> HIDE DEF e
<1>6. VitaCiclo(db', tx') /\ Vita(db, db')
  BY <1>1, <1>4, <1>5, VitaCicloTransitiva, VitaRiflessiva DEF Denaro
<1>7. ASSUME NEW n \in Movimenti
      PROVE  SommaImporti(DalMovimento(e, n)) + SommaSu(QuoteDi(n)', Fatture) <= Bonifico[n]
  <2> DEFINE w == QuoteDi(n)
             v == QuoteDi(n)'
             R == Fatture \ {f}
             s == SommaImporti(DalMovimento(tx, n))
  <2>1. /\ w = [g \in Fatture |-> quota[<<n, g>>]]
        /\ v = [g \in Fatture |-> quota'[<<n, g>>]]
    BY DEF QuoteDi
  <2>2. /\ s \in Nat /\ Naturale(w, Fatture) /\ SommaSu(w, Fatture) \in Nat
        /\ s + SommaSu(w, Fatture) <= Bonifico[n] /\ Bonifico[n] \in Nat /\ IsFiniteSet(Fatture)
    BY CapienzaTipo DEF Denaro, Capienza
  <2>3. \A g \in Fatture : v[g] = IF n = m /\ g = f THEN 0 ELSE w[g]
    BY <1>1, <2>1 DEF Quote, Abbinamenti
  <2>4. w[f] = quota[<<n, f>>]
    BY <2>1
  <2> HIDE DEF w, v
  <2>5. CASE n # m
    <3>1. SommaSu(v, Fatture) = SommaSu(w, Fatture)
      BY <2>2, <2>3, <2>5, SommaUguale
    <3> HIDE DEF s
    <3>2. SommaImporti(DalMovimento(e, n)) = s
      BY <1>5, <2>2, <2>5 DEF s
    <3> QED BY <2>2, <3>1, <3>2 DEF v
  <2>6. CASE n = m
    <3>1. Naturale(v, Fatture)
      BY <2>2, <2>3 DEF Naturale
    <3>2. SommaSu(w, Fatture) = w[f] + SommaSu(w, R) /\ SommaSu(w, R) \in Nat
      BY <2>2, SommaTogli
    <3>3. SommaSu(v, Fatture) = v[f] + SommaSu(v, R) /\ SommaSu(v, R) \in Nat
      BY <2>2, <3>1, SommaTogli
    <3>4. SommaSu(v, R) = SommaSu(w, R)
      <4>1. IsFiniteSet(R) /\ \A g \in R : v[g] = w[g]
        BY <2>2, <2>3, FS_RemoveElement
      <4> QED BY <4>1, SommaUguale
    <3>5. v[f] = 0 /\ w[f] = importo
      BY <2>3, <2>4, <2>6
    <3>6. importo \in Nat
      BY <1>2, IncassiAssumption
    <3>7. SommaImporti(DalMovimento(e, n)) \in {s, s + importo}
      BY <1>5, <2>2, <2>6
    <3> HIDE DEF importo, s, R
    <3> QED BY <2>2, <3>2, <3>3, <3>4, <3>5, <3>6, <3>7 DEF v
  <2> QED BY <2>5, <2>6
<1>8. Capienza'
  BY <1>1, <1>7 DEF Denaro, Capienza
<1> QED BY <1>1, <1>5, <1>6, <1>8 DEF Denaro

-----------------------------------------------------------------------------
(***************************************************************************)
(* All the steps.                                                          *)
(***************************************************************************)
\* The steps of a cycle that register no payment and import nothing.
LEMMA CicloIntatto ==
  ASSUME Inv,
         \/ FineImport \/ RilevaIncassi \/ AggiornaPosizioni \/ RiprendiPauseScadute
         \/ \E f \in Fatture : EseguiEscalation(f)
         \/ VagliaDovute
         \/ \E cl \in Clienti, k \in Canali, b \in BOOLEAN : InviaGruppo(cl, k, b)
         \/ ConcludiCiclo
  PROVE  Intatti(tx, tx') /\ VitaCiclo(tx, tx')
<1>0. tx \in Database
  BY DEF Inv, TypeOK
<1>1. ASSUME FineImport \/ RilevaIncassi PROVE Intatti(tx, tx') /\ VitaCiclo(tx, tx')
  <2>1. tx' = tx
    BY <1>1 DEF FineImport, RilevaIncassi, Lavora
  <2> QED BY <1>0, <2>1, VitaRiflessiva DEF Intatti
<1>2. ASSUME AggiornaPosizioni PROVE Intatti(tx, tx') /\ VitaCiclo(tx, tx')
  <2>1. tx' = PosizioniAggiornate(tx)
    BY <1>2 DEF AggiornaPosizioni, Lavora
  <2> QED BY <1>0, <2>1, PosizioniAggiornateConti
<1>3. ASSUME RiprendiPauseScadute PROVE Intatti(tx, tx') /\ VitaCiclo(tx, tx')
  <2>1. tx' = PauseRiprese(tx)
    BY <1>3 DEF RiprendiPauseScadute, Lavora
  <2> QED BY <1>0, <2>1, PauseRipreseConti
<1>4. ASSUME NEW f \in Fatture, EseguiEscalation(f) PROVE Intatti(tx, tx') /\ VitaCiclo(tx, tx')
  <2>1. tx' = Escalata(tx, f) /\ tx.stato[f] = "gestione"
    BY <1>4 DEF EseguiEscalation, DaEscalare
  <2> QED BY <1>0, <2>1, EscalataConti
<1>5. ASSUME VagliaDovute PROVE Intatti(tx, tx') /\ VitaCiclo(tx, tx')
  <2>1. tx' = DovuteVagliate(tx)
    BY <1>5 DEF VagliaDovute, Lavora
  <2> QED BY <1>0, <2>1, DovuteVagliateConti
<1>6. ASSUME NEW cl \in Clienti, NEW k \in Canali, NEW b \in BOOLEAN, InviaGruppo(cl, k, b)
      PROVE  Intatti(tx, tx') /\ VitaCiclo(tx, tx')
  <2>1. tx' = ConEsito(tx, Gruppo(tx, cl, k), Esito(b))
    BY <1>6 DEF InviaGruppo
  <2>2. \A c \in Gruppo(tx, cl, k) : tx.com[c] = "programmata"
    BY DEF Gruppo, DaInviare, Dovuta
  <2> QED BY <1>0, <2>1, <2>2, ConEsitoConti
<1>7. ASSUME ConcludiCiclo PROVE Intatti(tx, tx') /\ VitaCiclo(tx, tx')
  <2>1. tx' = Notificate(tx, collegamenti)
    BY <1>7 DEF ConcludiCiclo
  <2> QED BY <1>0, <2>1, NotificateConti
<1> QED BY <1>1, <1>2, <1>3, <1>4, <1>5, <1>6, <1>7

\* The import of an invoice.
LEMMA ImportaFatturaConti ==
  ASSUME Inv, Denaro, NEW f \in Fatture, ImportaFattura(f)
  PROVE  /\ Contabile(tx') /\ VitaCiclo(tx, tx') /\ tx'.pagamenti = tx.pagamenti
         /\ \A g \in Fatture \ {f} : tx'.stato[g] = tx.stato[g]
<1> DEFINE d == ConFlusso(tx)
<1>0. tx \in Database /\ tx' \in Database /\ Integro(tx)
  BY ImportaFatturaInv DEF Inv, TypeOK
<1>1. tx' = Importata(d, f) /\ tx.stato[f] = "assente"
  BY DEF ImportaFattura, Lavora
<1>2. d \in Database /\ d.stato = tx.stato /\ Intatti(tx, d) /\ VitaCiclo(tx, d)
  BY <1>0, ConFlussoConserva, ConFlussoConti DEF Integro
<1> HIDE DEF d
<1>3. Contabile(d) /\ d.pagamenti = tx.pagamenti
  BY <1>0, <1>2, IntattiContabile DEF Denaro, Intatti
<1>4. Contabile(tx') /\ VitaCiclo(d, tx') /\ tx'.pagamenti = tx.pagamenti
  BY <1>1, <1>2, <1>3, ImportataConti
<1>5. VitaCiclo(tx, tx')
  BY <1>0, <1>2, <1>4, VitaCicloTransitiva
<1>6. \A g \in Fatture \ {f} : tx'.stato[g] = tx.stato[g]
  BY <1>1, <1>2 DEF Importata, Database
<1> QED BY <1>4, <1>5, <1>6

\* The steps of a cycle.
LEMMA PassoCicloConti ==
  ASSUME Inv, Inv', Denaro, PassoCiclo
  PROVE  Denaro' /\ Vita(db, db')
<1>1. ASSUME NEW f \in Fatture, ImportaFattura(f) PROVE Denaro' /\ Vita(db, db')
  <2>1. db' = db /\ quota' = quota
    BY <1>1 DEF ImportaFattura, Lavora
  <2> QED BY <1>1, <2>1, ImportaFatturaConti, CicloMutoConti
<1>2. CASE \/ FineImport \/ AggiornaPosizioni \/ RiprendiPauseScadute
           \/ \E f \in Fatture : EseguiEscalation(f)
           \/ VagliaDovute
           \/ \E cl \in Clienti, k \in Canali, b \in BOOLEAN : InviaGruppo(cl, k, b)
  <2>1. db' = db /\ quota' = quota
    BY <1>2 DEF FineImport, AggiornaPosizioni, RiprendiPauseScadute, EseguiEscalation,
                VagliaDovute, InviaGruppo, Lavora
  <2>2. Intatti(tx, tx') /\ VitaCiclo(tx, tx')
    BY <1>2, CicloIntatto
  <2> QED BY <2>1, <2>2, CicloIntattoConti
<1>3. ASSUME ConcludiCiclo PROVE Denaro' /\ Vita(db, db')
  <2>0. tx \in Database /\ db \in Database /\ tx' \in Database
    BY DEF Inv, TypeOK
  <2>1. db' = tx' /\ quota' = quota
    BY <1>3 DEF ConcludiCiclo
  <2>2. Intatti(tx, tx') /\ VitaCiclo(tx, tx')
    BY <1>3, CicloIntatto
  <2>3. Contabile(tx') /\ \A m : DalMovimento(tx', m) = DalMovimento(tx, m)
    BY <2>0, <2>2, IntattiContabile DEF Denaro, Intatti, DalMovimento
  <2>4. VitaCiclo(db, tx') /\ VitaCiclo(tx', tx')
    BY <2>0, <2>2, VitaCicloTransitiva, VitaRiflessiva DEF Denaro
  <2>5. ASSUME NEW m \in Movimenti
        PROVE  /\ SommaImporti(DalMovimento(tx, m)) <= Bonifico[m]
               /\ SommaImporti(DalMovimento(tx, m)) + SommaSu(QuoteDi(m), Fatture) <= Bonifico[m]
    BY CapienzaTipo DEF Denaro, Capienza
  <2>6. Capienza'
    BY <2>1, <2>3, <2>5 DEF Capienza, QuoteDi
  <2> QED BY <2>1, <2>3, <2>4, <2>6 DEF Denaro, VitaCiclo
<1> QED BY <1>1, <1>2, <1>3, RilevaIncassiConti, ApplicaPagamentoConti DEF PassoCiclo

\* The requests of the operator that register no payment.
LEMMA AzioneIntatta ==
  ASSUME Inv, Azione,
         ~ \E f \in Fatture, i \in ImportiManuali, k \in ChiaviManuali : RegistraPagamento(f, i, k)
  PROVE  Intatti(db, db') /\ Vita(db, db')
<1>0. db \in Database
  BY DEF Inv, TypeOK
<1>1. ASSUME NEW f \in Fatture, NEW g, PausaFattura(f, g)
      PROVE  Intatti(db, db') /\ Vita(db, db')
  <2>1. /\ db' = ConStato(db, f, "pausa", g)
        /\ db.stato[f] \in STATI_CREDITO_APERTO /\ "pausa" \in STATI_CREDITO_APERTO
    BY <1>1 DEF PausaFattura, RichiestaMuta, Richiesta, STATI_CREDITO_APERTO
  <2> QED BY <1>0, <2>1, ConStatoConti
<1>2. ASSUME NEW f \in Fatture, RiprendiFattura(f) PROVE Intatti(db, db') /\ Vita(db, db')
  <2>1. /\ db' = ConStato(db, f, "gestione", Mai)
        /\ db.stato[f] \in STATI_CREDITO_APERTO /\ "gestione" \in STATI_CREDITO_APERTO
    BY <1>2 DEF RiprendiFattura, RichiestaMuta, Richiesta, STATI_CREDITO_APERTO
  <2> QED BY <1>0, <2>1, ConStatoConti
<1>3. ASSUME NEW c \in Comunicazioni, AnnullaComunicazione(c)
      PROVE  Intatti(db, db') /\ Vita(db, db')
  <2>1. db' = [db EXCEPT !.com[c] = "annullata"] /\ db.com[c] = "programmata"
    BY <1>3 DEF AnnullaComunicazione, RichiestaMuta, Richiesta
  <2> QED BY <1>0, <2>1, ComunicazioneConti
<1>4. ASSUME NEW c \in Comunicazioni, NEW b \in BOOLEAN, ForzaComunicazione(c, b)
      PROVE  Intatti(db, db') /\ Vita(db, db')
  <2>1. db' = [db EXCEPT !.com[c] = Esito(b)] /\ db.com[c] = "programmata"
    BY <1>4 DEF ForzaComunicazione, ForzaAmmessa, Richiesta
  <2> QED BY <1>0, <2>1, ComunicazioneConti
<1>5. ASSUME NEW c \in Comunicazioni, ForzaturaPersa(c)
      PROVE  Intatti(db, db') /\ Vita(db, db')
  <2>1. db' = db
    BY <1>5 DEF ForzaturaPersa, Richiesta
  <2> QED BY <1>0, <2>1, VitaRiflessiva DEF Intatti
<1>6. ASSUME NEW k \in Clienti, NEW r \in NuoviRecapiti, NEW o \in NuoviOptOut,
             AggiornaRecapiti(k, r, o)
      PROVE  Intatti(db, db') /\ Vita(db, db')
  <2>1. db' = ConRecapiti(db, k, r, o)
    BY <1>6 DEF AggiornaRecapiti, RichiestaMuta, Richiesta
  <2> QED BY <1>0, <2>1, RecapitiConti
<1>7. ASSUME NEW s \in NuoviFlussi, SostituisciFlusso(s) PROVE Intatti(db, db') /\ Vita(db, db')
  <2>1. db' = FlussoSostituito(db, s)
    BY <1>7 DEF SostituisciFlusso, RichiestaMuta, Richiesta
  <2> QED BY <1>0, <2>1, FlussoSostituitoConti
<1>8. ASSUME NEW F \in SUBSET Fatture, NEW L \in SUBSET Collegamenti, MarcaLette(F, L)
      PROVE  Intatti(db, db') /\ Vita(db, db')
  <2>1. db' = Lette(db, F, L)
    BY <1>8 DEF MarcaLette, RichiestaMuta, Richiesta
  <2> QED BY <1>0, <2>1, LetteConti
<1> QED BY <1>1, <1>2, <1>3, <1>4, <1>5, <1>6, <1>7, <1>8 DEF Azione

\* Every request is a transaction of its own.
LEMMA AzioneDaSola ==
  ASSUME Azione
  PROVE  /\ fase = "ferma" /\ tx' = db'
         /\ fase' = fase /\ collegamenti' = collegamenti /\ quota' = quota /\ adesso' = adesso
<1> SUFFICES \E d : Richiesta(d)
  BY DEF Richiesta
<1> QED BY DEF Azione, PausaFattura, RiprendiFattura, AnnullaComunicazione, ForzaComunicazione,
               ForzaturaPersa, RegistraPagamento, AggiornaRecapiti, SostituisciFlusso, MarcaLette,
               RichiestaMuta

\* The requests of the operator.
LEMMA AzioneConti ==
  ASSUME Inv, Inv', Denaro, Azione
  PROVE  Denaro' /\ Vita(db, db')
<1>0. fase = "ferma" /\ tx' = db' /\ quota' = quota
  BY AzioneDaSola
<1>1. CASE \E f \in Fatture, i \in ImportiManuali, k \in ChiaviManuali : RegistraPagamento(f, i, k)
  <2>1. PICK f \in Fatture, i \in ImportiManuali, k \in ChiaviManuali : RegistraPagamento(f, i, k)
    BY <1>1
  <2>2. /\ db' = PagataAMano(db, f, i, k)
        /\ ~RegistratoCon(db, k) /\ db.stato[f] \in STATI_CREDITO_APERTO
    BY <2>1 DEF RegistraPagamento, RichiestaMuta, Richiesta
  <2>3. i \in 1 .. ImportoMax /\ k \in Chiavi
    BY IncassiAssumption DEF Chiavi
  <2>4. /\ Contabile(db') /\ Vita(db, db')
        /\ \A n \in Movimenti :
             SommaImporti(DalMovimento(db', n)) = SommaImporti(DalMovimento(db, n))
    BY <2>2, <2>3, PagataAManoConti DEF Denaro, Inv
  <2> QED BY <1>0, <2>4, RichiestaConti
<1>2. CASE ~ \E f \in Fatture, i \in ImportiManuali, k \in ChiaviManuali : RegistraPagamento(f, i, k)
  <2>1. Intatti(db, db') /\ Vita(db, db')
    BY <1>2, AzioneIntatta
  <2> QED BY <1>0, <2>1, RichiestaIntattaConti
<1> QED BY <1>1, <1>2

\* A lost transaction gives back what it was about to register.
LEMMA CadutaConti ==
  ASSUME Inv, Inv', Denaro, Caduta
  PROVE  Denaro' /\ Vita(db, db')
<1>1. tx' = db /\ db' = db /\ quota' = [mf \in Abbinamenti |-> 0]
  BY DEF Caduta
<1>2. VitaCiclo(db, db) /\ Vita(db, db)
  BY VitaRiflessiva DEF Inv, TypeOK
<1>3. ASSUME NEW m \in Movimenti
      PROVE  SommaImporti(DalMovimento(db, m)) + SommaSu(QuoteDi(m)', Fatture) <= Bonifico[m]
  <2>1. \A f \in Fatture : QuoteDi(m)'[f] = 0
    BY <1>1 DEF QuoteDi, Abbinamenti
  <2>2. SommaSu(QuoteDi(m)', Fatture) = 0
    BY <2>1, SommaZeri, IncassiAssumption
  <2>3. SommaImporti(DalMovimento(db, m)) \in Nat
    BY CapienzaTipo
  <2> QED BY <2>2, <2>3 DEF Denaro, Capienza
<1>4. Capienza'
  BY <1>1, <1>3 DEF Denaro, Capienza
<1> QED BY <1>1, <1>2, <1>4 DEF Denaro

\* Every step keeps the accounts and moves each invoice along its life.
LEMMA PassoDenaro == Inv /\ Inv' /\ Denaro /\ [Next]_vars => Denaro' /\ Vita(db, db')
<1> SUFFICES ASSUME Inv, Inv', Denaro, [Next]_vars PROVE Denaro' /\ Vita(db, db')
  OBVIOUS
<1>1. ASSUME tx' = tx, db' = db, quota' = quota PROVE Denaro' /\ Vita(db, db')
  <2>1. Intatti(tx, tx') /\ VitaCiclo(tx, tx')
    BY <1>1, VitaRiflessiva DEF Intatti, Inv, TypeOK
  <2> QED BY <1>1, <2>1, CicloIntattoConti
<1>2. CASE \E attivi \in StatiCollegamenti : AvviaCiclo(attivi)
  BY <1>1, <1>2 DEF AvviaCiclo
<1>3. CASE PassoCiclo
  BY <1>3, PassoCicloConti
<1>4. CASE Caduta
  BY <1>4, CadutaConti
<1>5. CASE Azione
  BY <1>5, AzioneConti
<1>6. CASE PassaIlTempo
  BY <1>1, <1>6 DEF PassaIlTempo
<1>7. CASE UNCHANGED vars
  BY <1>1, <1>7 DEF vars
<1> QED BY <1>2, <1>3, <1>4, <1>5, <1>6, <1>7 DEF Next

-----------------------------------------------------------------------------
(***************************************************************************)
(* The theorems about the money.                                           *)
(***************************************************************************)
\* The accounts are right in every behaviour of the tenant.
THEOREM InvarianteDenaro == Spec => []Denaro
  BY InvInit, PassoInv, DenaroInit, PassoDenaro, PTL DEF Spec

\* The residual of an invoice is what its payments of both origins leave of its
\* amount, and it is settled exactly at zero: paid twice, in excess, by several
\* movements or by hand, before or after lost cycles (domain/stati.py,
\* sync._applica_pagamento, azioni.registra_pagamento).
THEOREM ResiduoEsatto == Spec => []ContabilitaResiduo
<1>1. Denaro => ContabilitaResiduo
  BY DEF Denaro, Contabile, ContabilitaResiduo, Presenti
<1> QED BY <1>1, InvarianteDenaro, PTL

\* The cycle never registers more of a movement than was received, for any set
\* of invoices and movements (sync._movimenti_non_ancora_allocati and the
\* reconciler of providers.py).
THEOREM MovimentiNonSuperati == Spec => []IncassiEntroIlMovimento
<1>1. Denaro => IncassiEntroIlMovimento
  BY DEF Denaro, Capienza, IncassiEntroIlMovimento, DalMovimento
<1> QED BY <1>1, InvarianteDenaro, PTL

-----------------------------------------------------------------------------
(***************************************************************************)
(* Legitimate reminders.  A message of the cycle is written in the phase   *)
(* "invii", which starts when no invoice is left to escalate and changes   *)
(* no state of an invoice; between the steps of the cycle nobody else      *)
(* writes in its transaction.                                              *)
(***************************************************************************)
EscalationFinite == fase = "invii" => DaEscalare(tx) = {}

\* The reminders of a message, at the moment it is written.
LEMMA SollecitoDaInviare ==
  ASSUME NEW d \in Database, Contabile(d), ComunicazioniNate(d), NEW c \in Comunicazioni,
         d.com[c] = "programmata", PuoRicevereSollecito(d.stato[c[1]])
  PROVE  d.stato[c[1]] = "gestione" /\ d.residuo[c[1]] > 0
<1>1. c[1] \in Fatture /\ d.stato[c[1]] # "assente"
  BY TipoComunicazione DEF ComunicazioniNate
<1>2. d.stato[c[1]] \in StatiFattura \cup {"assente"}
  BY <1>1 DEF Database
<1>3. d.stato[c[1]] = "gestione"
  BY <1>1, <1>2 DEF PuoRicevereSollecito, STATI_NON_SOLLECITABILI, StatiFattura
<1>4. d.residuo[c[1]] # 0
  BY <1>1, <1>3 DEF Contabile
<1> QED BY <1>1, <1>3, <1>4, ResiduoNaturale

\* InviaGruppo writes to who must pay and may be written to.
LEMMA InviaGruppoLegittimo ==
  ASSUME Inv, Denaro, EscalationFinite, NEW cl \in Clienti, NEW k \in Canali, NEW b \in BOOLEAN,
         InviaGruppo(cl, k, b)
  PROVE  SollecitoLegittimo' /\ EscalationFinite'
<1> DEFINE G == Gruppo(tx, cl, k)
<1>1. /\ fase = "invii" /\ adesso' = adesso /\ tx' = ConEsito(tx, G, Esito(b))
      /\ ultimo'.comunicazioni = G
  BY DEF InviaGruppo, Manda, Messaggio
<1>2. tx \in Database /\ ComunicazioniNate(tx) /\ Contabile(tx)
  BY DEF Inv, Integro, Denaro
<1>3. G \in SUBSET Comunicazioni /\ \A c \in G :
        /\ Dovuta(tx, c) /\ PuoRicevereSollecito(tx.stato[c[1]]) /\ Raggiungibile(tx, c)
        /\ tx.com[c] = "programmata"
  BY DEF Gruppo, DaInviare, Dovuta
<1> HIDE DEF G
<1>4. /\ Intatti(tx, tx') /\ tx'.stato = tx.stato /\ tx'.residuo = tx.residuo
      /\ tx'.recapiti = tx.recapiti /\ tx'.optOut = tx.optOut
  BY <1>1, <1>2, <1>3, ConEsitoConti DEF Intatti
<1>5. DaEscalare(tx) = {}
  BY <1>1 DEF EscalationFinite
<1>6. EscalationFinite'
  BY <1>1, <1>4, <1>5 DEF EscalationFinite, DaEscalare, oggi
<1>7. ASSUME NEW c \in G
      PROVE  /\ tx'.stato[c[1]] = "gestione" /\ tx'.residuo[c[1]] > 0
             /\ Raggiungibile(tx', c)
             /\ IstanteStep(Scadenza[c[1]], Offset[c[3]], Festivi) <= adesso
             /\ ~InEscalation(oggi, Scadenza[c[1]])
  <2>1. tx.stato[c[1]] = "gestione" /\ tx.residuo[c[1]] > 0
    BY <1>2, <1>3, SollecitoDaInviare
  <2>2. Raggiungibile(tx', c)
    BY <1>3, <1>4 DEF Raggiungibile
  <2>3. c[1] \in Fatture
    BY <1>3, TipoComunicazione
  <2>4. ~InEscalation(oggi, Scadenza[c[1]])
    BY <1>5, <2>1, <2>3 DEF DaEscalare
  <2> QED BY <1>3, <1>4, <2>1, <2>2, <2>4 DEF Dovuta
<1>8. SollecitoLegittimo'
  BY <1>1, <1>7 DEF SollecitoLegittimo, oggi
<1> QED BY <1>6, <1>8

\* A forced reminder is bound by all but its instant and the escalation.
LEMMA ForzatoLegittimo ==
  ASSUME Inv, Denaro, NEW c \in Comunicazioni, ForzaAmmessa(c), ultimo' = Forzato(c),
         tx'.stato = db.stato, tx'.residuo = db.residuo,
         tx'.recapiti = db.recapiti, tx'.optOut = db.optOut
  PROVE  SollecitoLegittimo'
<1>1. ultimo'.comunicazioni = {c} /\ ultimo'.tipo = "forzato"
  BY DEF Forzato, Messaggio
<1>2. db \in Database /\ ComunicazioniNate(db) /\ Contabile(db)
  BY DEF Inv, Integro, Denaro
<1>3. db.com[c] = "programmata" /\ db.stato[c[1]] = "gestione" /\ Raggiungibile(db, c)
  BY DEF ForzaAmmessa
<1>4. db.residuo[c[1]] > 0
  BY <1>2, <1>3, SollecitoDaInviare DEF PuoRicevereSollecito, STATI_NON_SOLLECITABILI
<1>5. Raggiungibile(tx', c)
  BY <1>3 DEF Raggiungibile
<1> QED BY <1>1, <1>3, <1>4, <1>5 DEF SollecitoLegittimo

\* Every step.
LEMMA PassoLegittimo ==
  Inv /\ Denaro /\ EscalationFinite /\ SollecitoLegittimo /\ [Next]_vars
    => EscalationFinite' /\ SollecitoLegittimo'
<1> SUFFICES ASSUME Inv, Denaro, EscalationFinite, SollecitoLegittimo, [Next]_vars
             PROVE  EscalationFinite' /\ SollecitoLegittimo'
  OBVIOUS
<1>1. ASSUME ultimo'.comunicazioni = {}, fase' # "invii"
      PROVE  EscalationFinite' /\ SollecitoLegittimo'
  BY <1>1 DEF EscalationFinite, SollecitoLegittimo
<1>2. NessunMessaggio.comunicazioni = {}
  BY DEF NessunMessaggio, Messaggio
<1>3. CASE \E attivi \in StatiCollegamenti : AvviaCiclo(attivi)
  BY <1>1, <1>2, <1>3 DEF AvviaCiclo
<1>4. CASE PassoCiclo
  <2>1. CASE VagliaDovute
    <3>1. /\ fase' = "invii" /\ adesso' = adesso /\ tx' = DovuteVagliate(tx)
          /\ ultimo' = NessunMessaggio /\ DaEscalare(tx) = {}
      BY <2>1 DEF VagliaDovute, Lavora
    <3>2. tx'.stato = tx.stato
      BY <3>1, DovuteVagliateConti DEF Inv, TypeOK
    <3>3. EscalationFinite'
      BY <3>1, <3>2 DEF EscalationFinite, DaEscalare, oggi
    <3> QED BY <1>2, <3>1, <3>3 DEF SollecitoLegittimo
  <2>2. CASE \E cl \in Clienti, k \in Canali, b \in BOOLEAN : InviaGruppo(cl, k, b)
    BY <2>2, InviaGruppoLegittimo
  <2>3. CASE \E f \in Fatture : EseguiEscalation(f)
    <3>1. ultimo'.comunicazioni = {} /\ fase' # "invii"
      BY <2>3 DEF EseguiEscalation, Manda, Messaggio
    <3> QED BY <1>1, <3>1
  <2>4. CASE \/ \E f \in Fatture : ImportaFattura(f)
             \/ FineImport \/ RilevaIncassi
             \/ \E m \in Movimenti, f \in Fatture : ApplicaPagamento(m, f)
             \/ AggiornaPosizioni \/ RiprendiPauseScadute \/ ConcludiCiclo
    <3>1. ultimo' = NessunMessaggio /\ fase' # "invii"
      BY <2>4 DEF ImportaFattura, FineImport, RilevaIncassi, ApplicaPagamento,
                  AggiornaPosizioni, RiprendiPauseScadute, ConcludiCiclo, Lavora
    <3> QED BY <1>1, <1>2, <3>1
  <2> QED BY <1>4, <2>1, <2>2, <2>3, <2>4 DEF PassoCiclo
<1>5. CASE Caduta
  BY <1>1, <1>2, <1>5 DEF Caduta
<1>6. CASE Azione
  <2>1. ASSUME NEW c \in Comunicazioni, NEW b \in BOOLEAN, ForzaComunicazione(c, b)
        PROVE  SollecitoLegittimo' /\ EscalationFinite'
    <3>1. /\ ForzaAmmessa(c) /\ ultimo' = Forzato(c) /\ fase' # "invii"
          /\ tx' = [db EXCEPT !.com[c] = Esito(b)] /\ db.com[c] = "programmata"
      BY <2>1 DEF ForzaComunicazione, ForzaAmmessa, Richiesta, Manda
    <3>2. /\ tx'.stato = db.stato /\ tx'.residuo = db.residuo
          /\ tx'.recapiti = db.recapiti /\ tx'.optOut = db.optOut
      BY <3>1, ComunicazioneConti DEF Inv, TypeOK, Intatti
    <3> QED BY <3>1, <3>2, ForzatoLegittimo DEF EscalationFinite
  <2>2. ASSUME NEW c \in Comunicazioni, ForzaturaPersa(c)
        PROVE  SollecitoLegittimo' /\ EscalationFinite'
    <3>1. ForzaAmmessa(c) /\ ultimo' = Forzato(c) /\ fase' # "invii" /\ tx' = db
      BY <2>2 DEF ForzaturaPersa, Richiesta, Manda
    <3> QED BY <3>1, ForzatoLegittimo DEF EscalationFinite
  <2>3. ASSUME NEW d, RichiestaMuta(d) PROVE SollecitoLegittimo' /\ EscalationFinite'
    <3>1. ultimo' = NessunMessaggio /\ fase' # "invii"
      BY <2>3 DEF RichiestaMuta, Richiesta
    <3> QED BY <1>1, <1>2, <3>1
  <2> QED BY <1>6, <2>1, <2>2, <2>3
          DEF Azione, PausaFattura, RiprendiFattura, AnnullaComunicazione, RegistraPagamento,
              AggiornaRecapiti, SostituisciFlusso, MarcaLette
<1>7. CASE PassaIlTempo
  BY <1>1, <1>2, <1>7 DEF PassaIlTempo
<1>8. CASE UNCHANGED vars
  BY <1>8 DEF vars, EscalationFinite, SollecitoLegittimo, DaEscalare, Raggiungibile, oggi
<1> QED BY <1>3, <1>4, <1>5, <1>6, <1>7, <1>8 DEF Next

\* A reminder of the cycle is for an invoice still under management, with
\* something to pay, due by now and before T+45, on a channel the client can be
\* reached on; a forced one is bound by all but the two instants
\* (invii._esegui_invii_dovuti, azioni.forza_comunicazione).
THEOREM SollecitiLegittimi == Spec => []SollecitoLegittimo
<1>1. Init => EscalationFinite /\ SollecitoLegittimo
  BY DEF Init, EscalationFinite, SollecitoLegittimo, NessunMessaggio, Messaggio
<1> QED BY <1>1, InvInit, PassoInv, DenaroInit, PassoDenaro, PassoLegittimo, PTL DEF Spec

-----------------------------------------------------------------------------
(***************************************************************************)
(* The promised life of an invoice (module VitaFattura).                   *)
(***************************************************************************)
NelloStato(d, s, f) == {vp \in Flussi \X Passi : d.com[<<f, vp[1], vp[2]>>] = s}

\* The rows of a known invoice are those of a promised life.
LEMMA RigheInRegola ==
  ASSUME NEW d, Integro(d), Contabile(d), NEW f \in Fatture, d.stato[f] # "assente"
  PROVE  /\ d.stato[f] \in {"gestione", "pausa", "saldata", "insoluto"}
         /\ d.residuo[f] \in 0 .. Importo[f]
         /\ d.stato[f] = "saldata" <=> d.residuo[f] = 0
         /\ d.stato[f] \in {"saldata", "insoluto"} => NelloStato(d, "programmata", f) = {}
         /\ NelloStato(d, "programmata", f) \subseteq (Flussi \X Passi) \ NelloStato(d, "inviata", f)
         /\ NelloStato(d, "inviata", f) \subseteq Flussi \X Passi
<1>1. d \in Database
  BY DEF Integro
<1>2. d.stato[f] \in {"gestione", "pausa", "saldata", "insoluto"}
  BY <1>1 DEF Database, StatiFattura
<1>3. d.residuo[f] \in 0 .. Importo[f]
  <2>1. Incassato(d, f) \in Nat
    BY <1>1, IncassatoNaturale DEF Contabile
  <2>2. d.residuo[f] = Massimo(0, Importo[f] - Incassato(d, f)) /\ Importo[f] \in Nat
    BY IncassiAssumption DEF Contabile
  <2> QED BY <2>1, <2>2 DEF Massimo
<1>4. d.stato[f] = "saldata" <=> d.residuo[f] = 0
  BY DEF Contabile
<1>5. \A vp \in Flussi \X Passi : <<f, vp[1], vp[2]>> \in Comunicazioni
  BY DEF Comunicazioni
<1>6. d.stato[f] \in {"saldata", "insoluto"} => NelloStato(d, "programmata", f) = {}
  BY <1>5 DEF NelloStato, Integro, SenzaPendenti, STATI_TERMINALI
<1> QED BY <1>2, <1>3, <1>4, <1>6 DEF NelloStato

\* A step that moves the committed rows along their life is one of the promise.
LEMMA PassoPromesso ==
  ASSUME Integro(db), Integro(db'), Contabile(db), Contabile(db'),
         Vita(db, db'), Permane(db, db')
  PROVE  Promessa!Next
<1> DEFINE prima(s, f) == NelloStato(db, s, f)
           dopo(s, f) == NelloStato(db', s, f)
<1>1. db \in Database /\ db' \in Database
  BY DEF Integro
<1>2. /\ \A s : \A f \in Fatture : Nello(s, f) = prima(s, f)
      /\ \A s : \A f \in Fatture : Nello(s, f)' = dopo(s, f)
  BY DEF Nello, NelloStato
<1>3. \A f \in Fatture : \A vp \in Flussi \X Passi : <<f, vp[1], vp[2]>> \in Comunicazioni
                                                   /\ <<f, vp[1], vp[2]>>[1] = f
  BY DEF Comunicazioni
<1> SUFFICES ASSUME NEW f \in Fatture
             PROVE  Promessa!Ferma(f) \/ Promessa!Nasce(f) \/ Promessa!Procede(f)
  BY DEF Promessa!Next
<1>4. ASSUME db'.stato[f] # "assente" PROVE Promessa!InRegola(f)
  BY <1>2, <1>4, RigheInRegola DEF Promessa!InRegola, Promessa!Aperti, Promessa!Usciti
<1>5. CASE db.stato[f] = "assente" /\ db'.stato[f] = "assente"
  <2>1. db.residuo[f] = 0 /\ db'.residuo[f] = 0
    BY <1>5 DEF Contabile
  <2>2. \A s \in {"programmata", "inviata"} : prima(s, f) = {} /\ dopo(s, f) = {}
    BY <1>3, <1>5 DEF NelloStato, Integro, ComunicazioniNate
  <2> QED BY <1>2, <1>5, <2>1, <2>2 DEF Promessa!Ferma
<1>6. CASE db.stato[f] = "assente" /\ db'.stato[f] # "assente"
  <2>1. db'.stato[f] # "pausa"
    BY <1>6 DEF Vita
  <2> QED BY <1>4, <1>6, <2>1 DEF Promessa!Nasce
<1>7. ASSUME db.stato[f] # "assente"
      PROVE  /\ db'.stato[f] # "assente" /\ db'.residuo[f] <= db.residuo[f]
             /\ prima("inviata", f) \subseteq dopo("inviata", f)
             /\ dopo("inviata", f) \subseteq prima("inviata", f) \cup prima("programmata", f)
  <2>1. \A c \in Comunicazioni : c[1] = f =>
          /\ db.com[c] = "inviata" => db'.com[c] = "inviata"
          /\ db'.com[c] = "inviata" => db.com[c] \in {"inviata", "programmata"}
    BY <1>7 DEF Vita, Permane
  <2> QED BY <1>3, <1>7, <2>1 DEF Vita, NelloStato
<1>8. CASE db.stato[f] \in {"gestione", "pausa"}
  <2> HIDE DEF prima, dopo
  <2> QED BY <1>2, <1>4, <1>7, <1>8 DEF Promessa!Procede, Promessa!Aperti
<1>9. CASE db.stato[f] \in {"saldata", "insoluto"}
  <2>1. db'.stato[f] = db.stato[f] /\ db'.residuo[f] = db.residuo[f]
    BY <1>9 DEF Vita, STATI_TERMINALI
  <2>2. prima("programmata", f) = {} /\ dopo("programmata", f) = {}
    BY <1>9, <2>1, RigheInRegola
  <2>3. dopo("inviata", f) = prima("inviata", f)
    BY <1>7, <1>9, <2>2
  <2> HIDE DEF prima, dopo
  <2> QED BY <1>2, <2>1, <2>2, <2>3 DEF Promessa!Ferma
<1>10. db.stato[f] \in {"gestione", "pausa", "saldata", "insoluto", "assente"}
  BY <1>1 DEF Database, StatiFattura
<1> QED BY <1>5, <1>6, <1>8, <1>9, <1>10

\* Every commit, of a cycle of many steps or of a request, moves each invoice
\* by one step of its promised life, and nothing else of what the service does
\* is visible there: the service implements VitaFattura.
THEOREM VitaImplementata == Spec => ImplementaVita
<1>1. Init => Promessa!Init
  BY DEF Init, DbVuoto, Promessa!Init, Nello, Comunicazioni
<1>2. Inv /\ Inv' /\ Denaro /\ Denaro' /\ Vita(db, db') /\ Permane(db, db') => Promessa!Next
  BY PassoPromesso DEF Inv, Denaro
<1> QED BY <1>1, <1>2, InvInit, PassoInv, DenaroInit, PassoDenaro, PTL
        DEF Spec, ImplementaVita, Promessa!Spec

-----------------------------------------------------------------------------
(***************************************************************************)
(* The readings: the totals are sums over sets that make up others.        *)
(***************************************************************************)
\* The residuals of a set of invoices.
LEMMA ResiduiNaturali ==
  ASSUME NEW d \in Database, NEW F \in SUBSET Fatture
  PROVE  IsFiniteSet(F) /\ Naturale(d.residuo, F) /\ SommaSu(d.residuo, F) \in Nat
<1>1. IsFiniteSet(F)
  BY IncassiAssumption, FS_Subset
<1>2. Naturale(d.residuo, F)
  BY ResiduoNaturale DEF Naturale
<1> QED BY <1>1, <1>2, SommaNaturale

\* What is due can be divided between disjoint sets of invoices.
LEMMA ResiduiDivisi ==
  ASSUME NEW d \in Database, NEW F \in SUBSET Fatture, NEW G \in SUBSET Fatture, F \cap G = {}
  PROVE  SommaSu(d.residuo, F \cup G) = SommaSu(d.residuo, F) + SommaSu(d.residuo, G)
<1>1. F \cup G \in SUBSET Fatture
  OBVIOUS
<1>2. IsFiniteSet(F) /\ IsFiniteSet(G) /\ Naturale(d.residuo, F \cup G)
  BY <1>1, ResiduiNaturali
<1> QED BY <1>2, SommaUnione

\* An invoice past due is in one of the bands, one not yet due in another.
LEMMA FasceDisgiunte ==
  ASSUME NEW g \in Int
  PROVE  Fascia(g) \in Fasce /\ (Fascia(g) = "a_scadere" <=> g < 0)
BY DEF Fascia, Fasce

\* The credit still open.
Aperte(d) == {f \in Fatture : d.stato[f] \in STATI_CREDITO_APERTO}

LEMMA FasceDelleAperte ==
  ASSUME Inv
  PROVE  /\ UNION {InFascia(db, b) : b \in Fasce} = Aperte(db)
         /\ UNION {InFascia(db, b) : b \in Fasce \ {"a_scadere"}}
              = {f \in Aperte(db) : Scadenza[f] <= oggi}
         /\ \A a, b \in Fasce : a # b => InFascia(db, a) \cap InFascia(db, b) = {}
<1>1. \A f \in Fatture : oggi - Scadenza[f] \in Int /\ (oggi - Scadenza[f] < 0 <=> ~ Scadenza[f] <= oggi)
  <2>1. oggi \in Int
    BY IncassiAssumption DEF Inv, TypeOK, oggi, Giorno
  <2> QED BY <2>1, IncassiAssumption
<1>2. \A f \in Fatture : /\ Fascia(oggi - Scadenza[f]) \in Fasce
                         /\ Fascia(oggi - Scadenza[f]) = "a_scadere" <=> ~ Scadenza[f] <= oggi
  BY <1>1, FasceDisgiunte
<1>3. \A f, b : f \in InFascia(db, b) <=> f \in Aperte(db) /\ Fascia(oggi - Scadenza[f]) = b
  BY DEF InFascia, Aperte
<1>4. \A f \in Aperte(db) : f \in Fatture
  BY DEF Aperte
<1> QED BY <1>2, <1>3, <1>4

\* The five bands together are the credit still open.
LEMMA AgingTotale ==
  ASSUME Inv
  PROVE  SommaSu(Aging(db), Fasce) = SommaSu(db.residuo, Aperte(db))
<1> DEFINE I(b) == InFascia(db, b)
           a == Aging(db)
           R(F) == SommaSu(db.residuo, F)
<1>1. \A b \in Fasce : I(b) \in SUBSET Fatture
  BY DEF InFascia
<1>2. db \in Database
  BY DEF Inv, TypeOK
<1>3. ASSUME NEW b \in Fasce PROVE a[b] = R(I(b)) /\ a[b] \in Nat
  <2>1. a[b] = R(I(b))
    BY DEF Aging
  <2> HIDE DEF a, I
  <2> QED BY <1>1, <1>2, <2>1, ResiduiNaturali
<1>4. \A b, c \in Fasce : b # c => I(b) \cap I(c) = {}
  BY FasceDelleAperte
<1>5. UNION {I(b) : b \in Fasce} = Aperte(db)
  BY FasceDelleAperte
<1> HIDE DEF I, a
<1>6. /\ "a_scadere" \in Fasce /\ "0-30" \in Fasce /\ "31-60" \in Fasce /\ "61-90" \in Fasce
      /\ "90+" \in Fasce
  BY DEF Fasce
<1>7. SommaSu(a, Fasce) = a["a_scadere"] + (a["0-30"] + (a["31-60"] + (a["61-90"] + a["90+"])))
  <2>1. /\ Naturale(a, {"90+"}) /\ Naturale(a, {"61-90", "90+"})
        /\ Naturale(a, {"31-60", "61-90", "90+"}) /\ Naturale(a, {"0-30", "31-60", "61-90", "90+"})
        /\ Naturale(a, Fasce) /\ Naturale(a, {})
    BY <1>3 DEF Naturale, Fasce
  <2>2. /\ IsFiniteSet({"90+"}) /\ IsFiniteSet({"61-90", "90+"}) /\ IsFiniteSet({"31-60", "61-90", "90+"})
        /\ IsFiniteSet({"0-30", "31-60", "61-90", "90+"}) /\ IsFiniteSet({}) /\ IsFiniteSet(Fasce)
    <3>1. IsFiniteSet({}) /\ {} \cup {"90+"} = {"90+"} /\ {"90+"} \cup {"61-90"} = {"61-90", "90+"}
      BY FS_EmptySet
    <3>2. /\ {"61-90", "90+"} \cup {"31-60"} = {"31-60", "61-90", "90+"}
          /\ {"31-60", "61-90", "90+"} \cup {"0-30"} = {"0-30", "31-60", "61-90", "90+"}
          /\ {"0-30", "31-60", "61-90", "90+"} \cup {"a_scadere"} = Fasce
      BY DEF Fasce
    <3>3. IsFiniteSet({"90+"})
      BY <3>1, FS_AddElement
    <3>4. IsFiniteSet({"61-90", "90+"})
      BY <3>1, <3>3, FS_AddElement
    <3>5. IsFiniteSet({"31-60", "61-90", "90+"})
      BY <3>2, <3>4, FS_AddElement
    <3>6. IsFiniteSet({"0-30", "31-60", "61-90", "90+"})
      BY <3>2, <3>5, FS_AddElement
    <3> QED BY <3>1, <3>2, <3>3, <3>4, <3>5, <3>6, FS_AddElement
  <2>3. /\ Fasce \ {"a_scadere"} = {"0-30", "31-60", "61-90", "90+"}
        /\ {"0-30", "31-60", "61-90", "90+"} \ {"0-30"} = {"31-60", "61-90", "90+"}
        /\ {"31-60", "61-90", "90+"} \ {"31-60"} = {"61-90", "90+"}
        /\ {"61-90", "90+"} \ {"61-90"} = {"90+"} /\ {"90+"} \ {"90+"} = {}
    BY DEF Fasce
  <2>4. SommaSu(a, {"90+"}) = a["90+"]
    BY <1>3, <1>6, <2>1, <2>2, <2>3, SommaTogli, SommaVuota
  <2>5. SommaSu(a, {"61-90", "90+"}) = a["61-90"] + a["90+"]
    BY <2>1, <2>2, <2>3, <2>4, SommaTogli
  <2>6. SommaSu(a, {"31-60", "61-90", "90+"}) = a["31-60"] + (a["61-90"] + a["90+"])
    BY <2>1, <2>2, <2>3, <2>5, SommaTogli
  <2>7. SommaSu(a, {"0-30", "31-60", "61-90", "90+"}) = a["0-30"] + (a["31-60"] + (a["61-90"] + a["90+"]))
    BY <2>1, <2>2, <2>3, <2>6, SommaTogli
  <2> QED BY <1>6, <2>1, <2>2, <2>3, <2>7, SommaTogli
<1>8. R(Aperte(db)) = R(I("a_scadere")) + (R(I("0-30")) + (R(I("31-60")) + (R(I("61-90")) + R(I("90+")))))
  <2> DEFINE A == I("61-90") \cup I("90+")
             B == I("31-60") \cup A
             C == I("0-30") \cup B
  <2>1. I("a_scadere") \cup C = Aperte(db)
    BY <1>5 DEF Fasce
  <2>2. I("61-90") \cap I("90+") = {} /\ I("31-60") \cap A = {}
    BY <1>4, <1>6
  <2>3. I("0-30") \cap B = {} /\ I("a_scadere") \cap C = {}
    BY <1>4, <1>6
  <2>4. A \in SUBSET Fatture /\ B \in SUBSET Fatture /\ C \in SUBSET Fatture
    BY <1>1, <1>6
  <2>5. R(A) = R(I("61-90")) + R(I("90+"))
    BY <1>1, <1>2, <1>6, <2>2, ResiduiDivisi
  <2> HIDE DEF A
  <2>6. R(B) = R(I("31-60")) + R(A)
    BY <1>1, <1>2, <1>6, <2>2, <2>4, ResiduiDivisi
  <2> HIDE DEF B
  <2>7. R(C) = R(I("0-30")) + R(B)
    BY <1>1, <1>2, <1>6, <2>3, <2>4, ResiduiDivisi
  <2> HIDE DEF C
  <2>8. R(I("a_scadere") \cup C) = R(I("a_scadere")) + R(C)
    BY <1>1, <1>2, <1>6, <2>3, <2>4, ResiduiDivisi
  <2> QED BY <2>1, <2>5, <2>6, <2>7, <2>8
<1> QED BY <1>3, <1>6, <1>7, <1>8 DEF a


\* Recovered, still to be recovered, handed to debt recovery make the total,
\* and an invoice all recovered is settled.
LEMMA KpiCoerenti ==
  ASSUME Inv, Denaro
  PROVE  /\ Affidato(db) = Recuperato(db) + DaRecuperare(db) + PassatoARecupero(db)
         /\ DaRecuperare(db) = SommaSu(db.residuo, Aperte(db))
         /\ Affidato(db) \in Nat /\ Recuperato(db) \in Nat /\ Recuperato(db) <= Affidato(db)
         /\ Recuperato(db) = Affidato(db) =>
              {f \in Fatture : db.stato[f] = "saldata"} = Presenti(db)
<1> DEFINE P == Presenti(db)
           I == {f \in P : db.stato[f] = "insoluto"}
           S == {f \in P : db.stato[f] = "saldata"}
           NI == {f \in P : db.stato[f] # "insoluto"}
           recuperato == [f \in Fatture |-> Importo[f] - db.residuo[f]]
           R(F) == SommaSu(db.residuo, F)
<1>1. db \in Database /\ Contabile(db)
  BY DEF Inv, TypeOK, Denaro
<1>2. P \in SUBSET Fatture /\ I \in SUBSET Fatture /\ S \in SUBSET Fatture /\ NI \in SUBSET Fatture
      /\ Aperte(db) \in SUBSET Fatture
  BY DEF Presenti, Aperte
<1>3. P = NI \cup I /\ NI \cap I = {} /\ NI = Aperte(db) \cup S /\ Aperte(db) \cap S = {}
  <2>1. \A f \in Fatture : db.stato[f] \in StatiFattura \cup {"assente"}
    BY <1>1 DEF Database
  <2> QED BY <2>1 DEF Presenti, Aperte, StatiFattura, STATI_CREDITO_APERTO
<1>4. \A f \in P : db.stato[f] # "assente" /\ f \in Fatture
  BY DEF Presenti
<1>5. \A f \in S : db.stato[f] = "saldata" /\ f \in P
  OBVIOUS
<1>6. \A f \in P : db.residuo[f] = 0 <=> db.stato[f] = "saldata"
  BY <1>1, <1>4 DEF Contabile
<1>7. R(S) = 0
  BY <1>1, <1>2, <1>5, <1>6, ResiduiNaturali, SommaZeri
<1>8. ASSUME NEW f \in P
      PROVE  /\ recuperato[f] \in Nat /\ db.residuo[f] \in Nat
             /\ Importo[f] = recuperato[f] + db.residuo[f]
  <2>1. db.residuo[f] = Massimo(0, Importo[f] - Incassato(db, f))
    BY <1>1, <1>4 DEF Contabile
  <2>2. Incassato(db, f) \in Nat
    BY <1>1, <1>4, IncassatoNaturale DEF Contabile
  <2>3. Importo[f] \in Nat /\ Importo[f] > 0
    BY <1>4, IncassiAssumption
  <2> QED BY <1>4, <2>1, <2>2, <2>3 DEF Massimo
<1>9. IsFiniteSet(P) /\ Naturale(recuperato, P) /\ Naturale(db.residuo, P)
  BY <1>1, <1>2, <1>8, ResiduiNaturali DEF Naturale
<1> HIDE DEF recuperato, P, I, S, NI
<1>10. Affidato(db) = Recuperato(db) + R(P)
  <2>1. SommaSu(Importo, P) = SommaSu(recuperato, P) + SommaSu(db.residuo, P)
    BY <1>8, <1>9, SommaPiu
  <2> QED BY <2>1 DEF Affidato, Recuperato, P, recuperato
<1>11. R(P) = R(NI) + R(I) /\ R(NI) = R(Aperte(db)) + R(S)
  BY <1>1, <1>2, <1>3, ResiduiDivisi
<1>12. /\ R(P) \in Nat /\ R(NI) \in Nat /\ R(I) \in Nat /\ R(Aperte(db)) \in Nat
       /\ Recuperato(db) \in Nat
  <2>1. SommaSu(recuperato, P) \in Nat
    BY <1>9, SommaNaturale
  <2> QED BY <1>1, <1>2, <2>1, ResiduiNaturali DEF Recuperato, P, recuperato
<1>13. DaRecuperare(db) = R(NI) /\ PassatoARecupero(db) = R(I)
  BY DEF DaRecuperare, PassatoARecupero, P, NI, I
<1>14. ASSUME R(P) = 0 PROVE {f \in Fatture : db.stato[f] = "saldata"} = P
  <2>1. ASSUME NEW f \in P PROVE db.residuo[f] = 0
    <3>1. /\ R(P) = db.residuo[f] + SommaSu(db.residuo, P \ {f})
          /\ SommaSu(db.residuo, P \ {f}) \in Nat /\ db.residuo[f] \in Nat
      BY <1>9, SommaTogli
    <3> QED BY <1>14, <3>1
  <2> QED BY <1>6, <2>1 DEF P, Presenti
<1>15. /\ Affidato(db) = Recuperato(db) + DaRecuperare(db) + PassatoARecupero(db)
       /\ Affidato(db) \in Nat /\ Recuperato(db) <= Affidato(db)
       /\ Recuperato(db) = Affidato(db) => R(P) = 0
  <2> HIDE DEF R
  <2> QED BY <1>10, <1>11, <1>12, <1>13
<1>16. DaRecuperare(db) = R(Aperte(db))
  <2> HIDE DEF R
  <2> QED BY <1>7, <1>11, <1>12, <1>13
<1> QED BY <1>12, <1>14, <1>15, <1>16 DEF P

\* A percentage is one, and is full only if all was recovered.
LEMMA PercentualeEsatta ==
  ASSUME NEW a \in Nat, NEW r \in Nat, r <= a
  PROVE  /\ Percentuale(a, r) \in 0 .. 100
         /\ Percentuale(a, r) = 100 => r = a
<1>1. CASE a = 0
  BY <1>1 DEF Percentuale
<1>2. CASE a # 0
  <2> DEFINE q == (100 * r) \div a
  <2>1. q \in Int /\ a * q <= 100 * r /\ 100 * r < a * q + a
    BY <1>2
  <2>2. Percentuale(a, r) = q
    BY <1>2 DEF Percentuale
  <2> HIDE DEF q
  <2>3. q >= 0
    <3> SUFFICES ASSUME q <= -1 PROVE FALSE
      BY <2>1
    <3>1. a * q <= a * (-1)
      BY <2>1
    <3> QED BY <2>1, <3>1
  <2>4. q <= 100
    <3> SUFFICES ASSUME q >= 101 PROVE FALSE
      BY <2>1
    <3>1. a * q >= a * 101
      BY <2>1
    <3> QED BY <1>2, <2>1, <3>1
  <2>5. ASSUME q = 100 PROVE r = a
    BY <2>1, <2>5
  <2> QED BY <2>1, <2>2, <2>3, <2>4, <2>5
<1> QED BY <1>1, <1>2

\* Only of a planned reminder one is told that it is still to leave.
LEMMA RispostaNota ==
  ASSUME NEW d, NEW c, d.com[c] \in StatiComunicazione,
         Spiegazione(d, c) \in {"programmata", "in_coda", "in_attesa_ripresa"}
  PROVE  d.com[c] = "programmata"
BY DEF Spiegazione, StatiComunicazione

\* Who is told that a reminder is still to leave has an open invoice in an
\* open position.
LEMMA SpiegazioneVera ==
  ASSUME Inv, NEW c \in Comunicazioni,
         db.com[c] # "assente",
         Spiegazione(db, c) \in {"programmata", "in_coda", "in_attesa_ripresa"}
  PROVE  c[1] \in Aperte(db) /\ Posizioni(db, "aperta") > 0
<1>1. db \in Database /\ Integro(db)
  BY DEF Inv, TypeOK
<1>2. db.com[c] \in StatiComunicazione \cup {"assente"} /\ c[1] \in Fatture
  BY <1>1, TipoComunicazione DEF Database
<1>3. db.com[c] = "programmata"
  BY <1>2, RispostaNota
<1>4. db.stato[c[1]] \in STATI_CREDITO_APERTO
  <2>1. db.stato[c[1]] \in StatiFattura \cup {"assente"}
    BY <1>1, <1>2 DEF Database
  <2>2. db.stato[c[1]] # "assente" /\ db.stato[c[1]] \notin STATI_TERMINALI
    BY <1>1, <1>3 DEF Integro, ComunicazioniNate, SenzaPendenti
  <2> QED BY <2>1, <2>2 DEF StatiFattura, STATI_TERMINALI, STATI_CREDITO_APERTO
<1>5. c[1] \in Aperte(db)
  BY <1>2, <1>4 DEF Aperte
<1>6. PICK p \in Fatture : p = db.posizione[c[1]]
  BY <1>1, <1>2 DEF Database
<1>7. db.statoPos[p] = "aperta"
  <2>1. db.statoPos[p] \in {"assente", "aperta", "chiusa"}
    BY <1>1 DEF Database
  <2>2. db.statoPos[p] # "assente"
    BY <1>1, <1>2, <1>4, <1>6 DEF Integro, PosizioniNote, STATI_CREDITO_APERTO
  <2>3. db.statoPos[p] # "chiusa"
    BY <1>1, <1>2, <1>4, <1>6
       DEF Integro, ChiuseSenzaCrediti, Presenti, STATI_CREDITO_APERTO, STATI_TERMINALI
  <2> QED BY <2>1, <2>2, <2>3
<1>8. Posizioni(db, "aperta") > 0
  <2> DEFINE A == {q \in Fatture : db.statoPos[q] = "aperta"}
  <2>1. A \in SUBSET Fatture /\ p \in A
    BY <1>7
  <2>2. IsFiniteSet(A)
    BY <2>1, IncassiAssumption, FS_Subset
  <2> HIDE DEF A
  <2>3. Cardinality(A) \in Nat /\ Cardinality(A) # 0
    BY <2>1, <2>2, FS_CardinalityType, FS_EmptySet
  <2> QED BY <2>3 DEF Posizioni, A
<1> QED BY <1>5, <1>8

\* The readings agree with each other and with the rows.
THEOREM LettureConcordi == Spec => []LettureCoerenti
<1>1. ASSUME Inv, Denaro PROVE LettureCoerenti
  <2>1. DaRecuperare(db) = SommaSu(Aging(db), Fasce)
    BY <1>1, KpiCoerenti, AgingTotale
  <2>2. /\ Percentuale(Affidato(db), Recuperato(db)) \in 0 .. 100
        /\ Percentuale(Affidato(db), Recuperato(db)) = 100 =>
             FatturePerStato(db)["saldata"] = Cardinality(Presenti(db))
    <3>1. FatturePerStato(db)["saldata"] = Cardinality({f \in Fatture : db.stato[f] = "saldata"})
      BY DEF FatturePerStato, StatiFattura
    <3>2. PICK a \in Nat, r \in Nat : a = Affidato(db) /\ r = Recuperato(db) /\ r <= a
      BY <1>1, KpiCoerenti
    <3>3. /\ Percentuale(a, r) \in 0 .. 100
          /\ Percentuale(a, r) = 100 => r = a
      BY <3>2, PercentualeEsatta
    <3>4. r = a => {f \in Fatture : db.stato[f] = "saldata"} = Presenti(db)
      BY <1>1, <3>2, KpiCoerenti
    <3> QED BY <3>1, <3>2, <3>3, <3>4
  <2>3. Scadute(db) = (UNION {InFascia(db, b) : b \in Fasce \ {"a_scadere"}})
                        \ {f \in Fatture : Scadenza[f] = oggi}
    <3>1. oggi \in Int
      BY <1>1, IncassiAssumption DEF Inv, TypeOK, oggi, Giorno
    <3>2. ASSUME NEW f \in Fatture
          PROVE  Scadenza[f] < oggi <=> Scadenza[f] <= oggi /\ Scadenza[f] # oggi
      <4>1. Scadenza[f] \in Int
        BY IncassiAssumption
      <4> QED BY <3>1, <4>1
    <3>3. UNION {InFascia(db, b) : b \in Fasce \ {"a_scadere"}} = {f \in Aperte(db) : Scadenza[f] <= oggi}
      BY <1>1, FasceDelleAperte
    <3>4. \A f : f \in Scadute(db) <=>
               f \in Fatture /\ db.stato[f] \in STATI_CREDITO_APERTO /\ Scadenza[f] < oggi
      BY DEF Scadute
    <3>5. \A f : f \in Aperte(db) <=> f \in Fatture /\ db.stato[f] \in STATI_CREDITO_APERTO
      BY DEF Aperte
    <3> QED BY <3>2, <3>3, <3>4, <3>5
  <2>4. UNION {InFascia(db, b) : b \in Fasce} = Aperte(db)
    BY <1>1, FasceDelleAperte
  <2>5. ASSUME NEW c \in {k \in Comunicazioni : db.com[k] # "assente"},
               Spiegazione(db, c) \in {"programmata", "in_coda", "in_attesa_ripresa"}
        PROVE  c[1] \in Aperte(db) /\ Posizioni(db, "aperta") > 0
    BY <1>1, <2>5, SpiegazioneVera
  <2>6. Affidato(db) = Recuperato(db) + DaRecuperare(db) + PassatoARecupero(db)
    BY <1>1, KpiCoerenti
  <2>7. \A c \in {k \in Comunicazioni : db.com[k] # "assente"} :
          Spiegazione(db, c) \in {"programmata", "in_coda", "in_attesa_ripresa"}
          => /\ c[1] \in UNION {InFascia(db, b) : b \in Fasce}
             /\ Posizioni(db, "aperta") > 0
    BY <2>4, <2>5
  <2> QED BY <2>1, <2>2, <2>3, <2>6, <2>7 DEF LettureCoerenti
<1> QED BY <1>1, Invariante, InvarianteDenaro, PTL
-----------------------------------------------------------------------------
(***************************************************************************)
(* Nothing is left to do after a cycle.  While the quotas are applied, an  *)
(* open invoice that they do not cover leaves no money of its debtor out   *)
(* of them (SenzaAvanzi); so a key that is registered is either of an      *)
(* invoice that left or of a movement all of which is allocated            *)
(* (Esaurite), and the next cycle finds no payment under a key it would    *)
(* skip.                                                                   *)
(***************************************************************************)
QuoteSu(f) == [m \in Movimenti |-> quota[<<m, f>>]]

\* The keys the open cycle may still be registering.
InOpera ==
  {mf \in Abbinamenti :
     /\ fase = "incassi" /\ "psd2" \in collegamenti
     /\ MovimentoVisibile(mf[1]) /\ Mittente[mf[1]] = Debitore[mf[2]]}

\* A key of the cycle says of which invoice the payment is.
ChiaviVere(d) ==
  \A p \in d.pagamenti, mf \in Abbinamenti : p.chiave = mf => p.fattura = mf[2]

\* Nothing is left of a movement registered on an open invoice, but for K.
Esaurite(d, K) ==
  \A mf \in Abbinamenti \ K :
    RegistratoCon(d, mf) /\ Aperta(d, mf[2]) => Bonifico[mf[1]] <= Allocato(d, mf[1])

SenzaAvanzi ==
  \A m \in Movimenti, f \in Fatture :
    /\ Mittente[m] = Debitore[f] /\ Aperta(tx, f)
    /\ tx.residuo[f] > SommaSu(QuoteSu(f), Movimenti)
    => Disponibili(tx)[m] <= SommaSu(QuoteDi(m), Fatture)

DopoMovimenti == {"incassi", "pause", "escalation", "invii"}

Quiete ==
  /\ ChiaviVere(db) /\ Esaurite(db, {})
  /\ ChiaviVere(tx) /\ Esaurite(tx, InOpera)
  /\ \A mf \in Abbinamenti : quota[mf] # 0 => mf \in InOpera /\ ~RegistratoCon(tx, mf)
  /\ fase \in DopoMovimenti /\ "psd2" \in collegamenti => SenzaAvanzi

\* What is allocated of a movement is an amount.
LEMMA AllocatoNaturale ==
  ASSUME NEW d \in Database, Contabile(d), NEW n
  PROVE  Allocato(d, n) \in Nat
<1> DEFINE P == {p \in d.pagamenti : p.chiave \in {n} \X Fatture}
<1>1. P \in SUBSET Pagamenti /\ IsFiniteSet(P)
  BY FS_Subset DEF Contabile, Database
<1> HIDE DEF P
<1>2. SommaImporti(P) \in Nat
  BY <1>1, ImportiNaturali
<1> QED BY <1>2 DEF Allocato, P

\* A movement has at most what was received, and nothing if it is not listed.
LEMMA DisponibiliTipo ==
  ASSUME NEW d \in Database, Contabile(d), NEW m \in Movimenti
  PROVE  /\ Disponibili(d) \in [Movimenti -> Nat]
         /\ Disponibili(d)[m] =
              IF MovimentoVisibile(m) THEN Massimo(0, Bonifico[m] - Allocato(d, m)) ELSE 0
<1>1. \A n \in Movimenti : Allocato(d, n) \in Nat /\ Bonifico[n] \in Nat
  BY AllocatoNaturale, IncassiAssumption
<1> QED BY <1>1 DEF Disponibili, Massimo

\* Registering a payment takes it from the movement its key is of, whatever
\* its origin, and from the residual of its invoice.
LEMMA IncassataAlloca ==
  ASSUME NEW d \in Database, Contabile(d), NEW f \in Fatture, NEW importo \in 1 .. ImportoMax,
         NEW k \in Chiavi, ~RegistratoCon(d, k), NEW origine \in {"riconciliazione", "manuale"},
         NEW e, e = Incassata(d, f, importo, k, origine)
  PROVE  /\ \A n \in Movimenti :
              Allocato(e, n) = Allocato(d, n) + (IF k \in {n} \X Fatture THEN importo ELSE 0)
         /\ \A j \in Chiavi : RegistratoCon(e, j) <=> RegistratoCon(d, j) \/ j = k
         /\ \A x \in e.pagamenti : x \in d.pagamenti \/ (x.chiave = k /\ x.fattura = f)
         /\ e.residuo[f] = ResiduoDopoIncasso(d.residuo[f], importo)
         /\ \A g \in Fatture : g # f => e.residuo[g] = d.residuo[g]
         /\ \A g \in Fatture : Aperta(e, g) => Aperta(d, g)
<1> DEFINE p == [chiave |-> k, fattura |-> f, importo |-> importo, origine |-> origine]
           r == ResiduoDopoIncasso(d.residuo[f], importo)
           Di(P, n) == {x \in P : x.chiave \in {n} \X Fatture}
<1>1. /\ e.pagamenti = d.pagamenti \cup {p}
      /\ e.residuo = [d.residuo EXCEPT ![f] = r]
      /\ e.stato = [d.stato EXCEPT ![f] = StatoDopoPagamento(@, r)]
  BY DEF Incassata, Database
<1>2. p \in Pagamenti /\ d.pagamenti \in SUBSET Pagamenti
  BY DEF Pagamenti, Database
<1>3. p \notin d.pagamenti
  BY DEF RegistratoCon
<1>4. p.chiave = k /\ p.fattura = f /\ p.importo = importo
  OBVIOUS
<1> HIDE DEF p
<1>5. ASSUME NEW n \in Movimenti
      PROVE  Allocato(e, n) = Allocato(d, n) + (IF k \in {n} \X Fatture THEN importo ELSE 0)
  <2>1. Di(d.pagamenti, n) \in SUBSET Pagamenti /\ IsFiniteSet(Di(d.pagamenti, n))
    BY <1>2, FS_Subset DEF Contabile
  <2>2. Allocato(e, n) = SommaImporti(Di(e.pagamenti, n))
        /\ Allocato(d, n) = SommaImporti(Di(d.pagamenti, n))
    BY DEF Allocato
  <2>3. CASE k \in {n} \X Fatture
    <3>1. Di(e.pagamenti, n) = Di(d.pagamenti, n) \cup {p} /\ p \notin Di(d.pagamenti, n)
      BY <1>1, <1>3, <1>4, <2>3
    <3> HIDE DEF Di
    <3>2. SommaImporti(Di(d.pagamenti, n) \cup {p}) = SommaImporti(Di(d.pagamenti, n)) + p.importo
      BY <1>2, <2>1, <3>1, ImportiAggiunti
    <3> QED BY <1>4, <2>2, <2>3, <3>1, <3>2
  <2>4. CASE k \notin {n} \X Fatture
    <3>1. Di(e.pagamenti, n) = Di(d.pagamenti, n)
      BY <1>1, <1>4, <2>4
    <3>2. Allocato(d, n) \in Nat
      BY AllocatoNaturale
    <3> HIDE DEF Di
    <3> QED BY <2>2, <2>4, <3>1, <3>2
  <2> QED BY <2>3, <2>4
<1>6. \A j \in Chiavi : RegistratoCon(e, j) <=> RegistratoCon(d, j) \/ j = k
  BY <1>1, <1>4 DEF RegistratoCon
<1>7. /\ e.residuo[f] = r
      /\ \A g \in Fatture : g # f => e.residuo[g] = d.residuo[g] /\ e.stato[g] = d.stato[g]
      /\ e.stato[f] \in {d.stato[f], "saldata"}
  BY <1>1 DEF Database, StatoDopoPagamento
<1>8. \A g \in Fatture : Aperta(e, g) => Aperta(d, g)
  BY <1>7 DEF Aperta, STATI_TERMINALI
<1> QED BY <1>1, <1>4, <1>5, <1>6, <1>7, <1>8

\* What was exhausted stays so while no payment is registered.
LEMMA ChiaviConservate ==
  ASSUME NEW d \in Database, NEW e \in Database, Contabile(d), ChiaviVere(d),
         NEW K, Esaurite(d, K), e.pagamenti = d.pagamenti,
         \A g \in Fatture : Aperta(e, g) => Aperta(d, g) \/ d.stato[g] = "assente"
  PROVE  ChiaviVere(e) /\ Esaurite(e, K)
<1>1. ChiaviVere(e)
  BY DEF ChiaviVere
<1>2. \A mf \in Abbinamenti : RegistratoCon(d, mf) => d.stato[mf[2]] # "assente"
  BY DEF RegistratoCon, ChiaviVere, Contabile
<1>3. \A k : RegistratoCon(e, k) <=> RegistratoCon(d, k)
  BY DEF RegistratoCon
<1>4. \A m : Allocato(e, m) = Allocato(d, m)
  BY DEF Allocato
<1>5. \A mf \in Abbinamenti : mf[2] \in Fatture
  BY DEF Abbinamenti
<1> QED BY <1>1, <1>2, <1>3, <1>4, <1>5 DEF Esaurite

\* Unregistered changes open nothing.
LEMMA IntattiAperta ==
  ASSUME NEW d \in Database, NEW e, Intatti(d, e)
  PROVE  \A g \in Fatture : Aperta(e, g) => Aperta(d, g)
  BY DEF Intatti, Aperta, StatiFattura, STATI_TERMINALI

\* A step of the cycle that registers no payment and finds none.
LEMMA CicloQuieto ==
  ASSUME Inv, Inv', Denaro, Quiete, tx'.pagamenti = tx.pagamenti, db' = db, quota' = quota,
         collegamenti' = collegamenti, fase # "incassi", fase' # "incassi",
         \A g \in Fatture : Aperta(tx', g) => Aperta(tx, g) \/ tx.stato[g] = "assente",
         fase' \in DopoMovimenti =>
           fase \in DopoMovimenti /\ adesso' = adesso /\ Intatti(tx, tx')
  PROVE  Quiete'
<1>1. tx \in Database /\ tx' \in Database /\ Contabile(tx)
  BY DEF Inv, TypeOK, Denaro
<1>2. InOpera = {} /\ InOpera' = {}
  BY DEF InOpera
<1>3. ChiaviVere(tx') /\ Esaurite(tx', {})
  BY <1>1, <1>2, ChiaviConservate DEF Quiete
<1>4. \A mf \in Abbinamenti : quota'[mf] = 0
  BY <1>2 DEF Quiete
<1>5. ASSUME fase' \in DopoMovimenti, "psd2" \in collegamenti PROVE SenzaAvanzi'
  <2>1. SenzaAvanzi /\ Intatti(tx, tx') /\ adesso' = adesso
    BY <1>5 DEF Quiete
  <2>2. \A g \in Fatture : Aperta(tx', g) => Aperta(tx, g)
    BY <1>1, <2>1, IntattiAperta
  <2>3. tx'.residuo = tx.residuo /\ Disponibili(tx)' = Disponibili(tx)
    BY <2>1 DEF Intatti, Disponibili, Allocato, MovimentoVisibile, oggi
  <2>4. /\ \A f : QuoteSu(f)' = QuoteSu(f)
        /\ \A m : QuoteDi(m)' = QuoteDi(m)
    BY DEF QuoteSu, QuoteDi
  <2> QED BY <2>1, <2>2, <2>3, <2>4 DEF SenzaAvanzi
<1> QED BY <1>2, <1>3, <1>4, <1>5 DEF Quiete

\* What the reconciler finds is the whole of what it lists.
LEMMA TrovatiSono ==
  ASSUME NEW d \in Database, Contabile(d), NEW m \in Movimenti, NEW f \in Fatture
  PROVE  /\ Trovati(d)[<<m, f>>] = Quota(ResiduiAperti(d), Disponibili(d), m, f)
         /\ Trovati(d)[<<m, f>>] # 0 =>
              /\ Aperta(d, f) /\ Mittente[m] = Debitore[f] /\ MovimentoVisibile(m)
              /\ Allocato(d, m) < Bonifico[m]
<1> DEFINE res == ResiduiAperti(d)
           dis == Disponibili(d)
           a == InizioFattura(res, f)
           b == InizioMovimento(dis, m)
           q == Quota(res, dis, m, f)
<1>1. dis \in [Movimenti -> Nat] /\ Allocato(d, m) \in Nat /\ Bonifico[m] \in Nat
      /\ dis[m] = IF MovimentoVisibile(m) THEN Massimo(0, Bonifico[m] - Allocato(d, m)) ELSE 0
  BY DisponibiliTipo, AllocatoNaturale, IncassiAssumption
<1>2. res \in [Fatture -> Nat] /\ (~Aperta(d, f) => res[f] = 0)
  BY ResiduoNaturale DEF ResiduiAperti
<1>3. a \in Nat /\ b \in Nat
  <2> DEFINE F == {g \in Fatture : Debitore[g] = Debitore[f] /\ PrimaInScadenza(g, f)}
             M == {n \in Movimenti : Mittente[n] = Mittente[m] /\ Posto[n] < Posto[m]}
  <2> HIDE DEF res, dis
  <2>1. IsFiniteSet(F) /\ IsFiniteSet(M) /\ Naturale(res, F) /\ Naturale(dis, M)
    BY <1>1, <1>2, FS_Subset, IncassiAssumption DEF Naturale
  <2>2. a = SommaSu(res, F) /\ b = SommaSu(dis, M)
    BY DEF InizioFattura, InizioMovimento
  <2> HIDE DEF F, M, a, b
  <2> QED BY <2>1, <2>2, SommaNaturale
<1>4. Trovati(d)[<<m, f>>] = IF Aperta(d, f) THEN q ELSE 0
  BY DEF Trovati, Riconcilia, Abbinamenti
<1>5. q = IF Mittente[m] # Debitore[f] THEN 0
          ELSE Massimo(0, Minimo(a + res[f], b + dis[m]) - Massimo(a, b))
  BY DEF Quota
<1>6. res[f] \in Nat /\ dis[m] \in Nat
  BY <1>1, <1>2
<1> HIDE DEF res, dis, a, b, q
<1>7. q # 0 => Mittente[m] = Debitore[f] /\ res[f] > 0 /\ dis[m] > 0
  BY <1>3, <1>5, <1>6 DEF Massimo, Minimo
<1>8. ~Aperta(d, f) => q = 0
  BY <1>2, <1>7
<1>9. dis[m] > 0 => MovimentoVisibile(m) /\ Allocato(d, m) < Bonifico[m]
  BY <1>1 DEF Massimo
<1>10. Trovati(d)[<<m, f>>] = q
  BY <1>4, <1>8
<1> QED BY <1>7, <1>8, <1>9, <1>10 DEF q, res, dis

\* RilevaIncassi finds payments under new keys, and leaves no money of a
\* debtor while an invoice is not covered.
LEMMA RilevaIncassiQuiete ==
  ASSUME Inv, Inv', Denaro, Quiete, RilevaIncassi
  PROVE  Quiete'
<1>1. /\ tx' = tx /\ db' = db /\ adesso' = adesso /\ collegamenti' = collegamenti
      /\ fase = "movimenti" /\ fase' = "incassi"
  BY DEF RilevaIncassi, Lavora
<1>2. tx \in Database /\ Contabile(tx)
  BY DEF Inv, TypeOK, Denaro
<1>3. InOpera = {}
  BY <1>1 DEF InOpera
<1>4. Esaurite(tx, {}) /\ Esaurite(tx, InOpera')
  BY <1>3 DEF Quiete, Esaurite
<1>5. ASSUME NEW mf \in Abbinamenti, quota'[mf] # 0
      PROVE  mf \in InOpera' /\ ~RegistratoCon(tx, mf)
  <2>1. quota[mf] = 0
    BY <1>3 DEF Quiete
  <2>2. quota' = Trovati(tx) /\ "psd2" \in collegamenti
    BY <1>5, <2>1 DEF RilevaIncassi
  <2>3. PICK m \in Movimenti, f \in Fatture : mf = <<m, f>>
    BY DEF Abbinamenti
  <2>4. /\ Aperta(tx, f) /\ Mittente[m] = Debitore[f] /\ MovimentoVisibile(m)
        /\ Allocato(tx, m) < Bonifico[m]
    BY <1>2, <1>5, <2>2, <2>3, TrovatiSono
  <2>5. mf \in InOpera'
    BY <1>1, <2>2, <2>3, <2>4 DEF InOpera, MovimentoVisibile, oggi
  <2>6. Allocato(tx, m) \in Nat /\ Bonifico[m] \in Nat
    BY <1>2, AllocatoNaturale, IncassiAssumption
  <2>7. RegistratoCon(tx, mf) => Bonifico[m] <= Allocato(tx, m)
    BY <1>4, <2>3, <2>4 DEF Esaurite
  <2> QED BY <2>4, <2>5, <2>6, <2>7
<1>6. ASSUME "psd2" \in collegamenti PROVE SenzaAvanzi'
  <2>1. quota' = Trovati(tx)
    BY <1>6 DEF RilevaIncassi
  <2> SUFFICES ASSUME NEW m \in Movimenti, NEW f \in Fatture,
                      Mittente[m] = Debitore[f], Aperta(tx, f),
                      tx.residuo[f] > SommaSu(QuoteSu(f)', Movimenti)
               PROVE  Disponibili(tx)[m] <= SommaSu(QuoteDi(m)', Fatture)
    <3>1. Disponibili(tx)' = Disponibili(tx)
      BY <1>1 DEF Disponibili, Allocato, MovimentoVisibile, oggi
    <3> QED BY <1>1, <3>1 DEF SenzaAvanzi
  <2>2. PICK res, dis : res = ResiduiAperti(tx) /\ dis = Disponibili(tx)
    OBVIOUS
  <2>3. res \in [Fatture -> Nat] /\ res[f] = tx.residuo[f]
    BY <1>2, <2>2, ResiduoNaturale DEF ResiduiAperti
  <2>4. dis \in [Movimenti -> Nat]
    BY <1>2, <2>2, DisponibiliTipo
  <2>5. \A n \in Movimenti, g \in Fatture : quota'[<<n, g>>] = Quota(res, dis, n, g)
    BY <1>2, <2>1, <2>2, TrovatiSono
  <2>6. /\ QuoteSu(f)' = [n \in Movimenti |-> Quota(res, dis, n, f)]
        /\ QuoteDi(m)' = [g \in Fatture |-> Quota(res, dis, m, g)]
    BY <2>5 DEF QuoteSu, QuoteDi
  <2>7. Ordinate /\ InLista
    BY IncassiAssumption DEF Ordinate, InLista
  <2>8. res[f] > SommaSu([n \in Movimenti |-> Quota(res, dis, n, f)], Movimenti)
    BY <2>3, <2>6
  <2>9. SommaSu([g \in Fatture |-> Quota(res, dis, m, g)], Fatture) = dis[m]
    BY <2>3, <2>4, <2>7, <2>8, NullaAvanza
  <2>10. dis[m] \in Nat
    BY <2>4
  <2> QED BY <2>2, <2>6, <2>9, <2>10
<1> QED BY <1>1, <1>4, <1>5, <1>6 DEF Quiete

\* ApplicaPagamento moves a quota, whole, from what is found to what is
\* registered.
LEMMA ApplicaPagamentoQuiete ==
  ASSUME Inv, Inv', Denaro, Quiete, NEW m \in Movimenti, NEW f \in Fatture, ApplicaPagamento(m, f)
  PROVE  Quiete'
<1> DEFINE k == <<m, f>>
           importo == quota[k]
           dopo == Incassata(tx, f, importo, k, "riconciliazione")
<1>1. /\ k \in Abbinamenti /\ quota \in Quote /\ importo > 0
      /\ tx' = ConPagamento(tx, m, f, importo) /\ db' = db
      /\ quota' = [quota EXCEPT ![k] = 0]
      /\ fase = "incassi" /\ fase' = fase /\ adesso' = adesso /\ collegamenti' = collegamenti
  BY DEF ApplicaPagamento, Lavora, Inv, TypeOK, Abbinamenti
<1>2. importo \in 1 .. ImportoMax /\ importo \in Nat
  BY <1>1, IncassiAssumption DEF Quote
<1>3. tx \in Database /\ Contabile(tx) /\ tx' \in Database /\ k \in Chiavi
  BY <1>1 DEF Inv, TypeOK, Denaro, Chiavi
<1>4. k \in InOpera /\ ~RegistratoCon(tx, k)
  BY <1>1 DEF Quiete
<1>5. InOpera' = InOpera
  BY <1>1 DEF InOpera, MovimentoVisibile, oggi
<1>6. dopo \in Database /\ Intatti(dopo, tx')
  <2>1. dopo \in Database
    BY <1>2, <1>3, IncassataTipo
  <2>2. tx' = dopo \/ tx' = Annulla(dopo, {f})
    BY <1>1, <1>4 DEF ConPagamento
  <2> HIDE DEF dopo
  <2> QED BY <2>1, <2>2, AnnullataConti DEF Intatti
<1> HIDE DEF importo
<1>7. /\ \A n \in Movimenti :
           Allocato(dopo, n) = Allocato(tx, n) + (IF k \in {n} \X Fatture THEN importo ELSE 0)
      /\ \A j \in Chiavi : RegistratoCon(dopo, j) <=> RegistratoCon(tx, j) \/ j = k
      /\ \A x \in dopo.pagamenti : x \in tx.pagamenti \/ (x.chiave = k /\ x.fattura = f)
      /\ dopo.residuo[f] = ResiduoDopoIncasso(tx.residuo[f], importo)
      /\ \A g \in Fatture : g # f => dopo.residuo[g] = tx.residuo[g]
      /\ \A g \in Fatture : Aperta(dopo, g) => Aperta(tx, g)
  BY <1>2, <1>3, <1>4, IncassataAlloca
<1> HIDE DEF dopo
<1>8. /\ \A n \in Movimenti : Allocato(tx', n) = Allocato(tx, n) + (IF n = m THEN importo ELSE 0)
      /\ \A j \in Chiavi : RegistratoCon(tx', j) <=> RegistratoCon(tx, j) \/ j = k
      /\ \A x \in tx'.pagamenti : x \in tx.pagamenti \/ (x.chiave = k /\ x.fattura = f)
      /\ tx'.residuo[f] = ResiduoDopoIncasso(tx.residuo[f], importo)
      /\ \A g \in Fatture : g # f => tx'.residuo[g] = tx.residuo[g]
      /\ \A g \in Fatture : Aperta(tx', g) => Aperta(tx, g)
  <2>1. \A n \in Movimenti : k \in {n} \X Fatture <=> n = m
    OBVIOUS
  <2>2. /\ \A n : Allocato(tx', n) = Allocato(dopo, n)
        /\ \A j : RegistratoCon(tx', j) <=> RegistratoCon(dopo, j)
        /\ tx'.pagamenti = dopo.pagamenti /\ tx'.residuo = dopo.residuo
    BY <1>6 DEF Intatti, Allocato, RegistratoCon
  <2>3. \A g \in Fatture : Aperta(tx', g) => Aperta(dopo, g)
    BY <1>6, IntattiAperta
  <2> HIDE DEF k
  <2> QED BY <1>7, <2>1, <2>2, <2>3
<1>9. ChiaviVere(tx')
  BY <1>8 DEF ChiaviVere, Quiete
<1>10. Esaurite(tx', InOpera')
  <2> SUFFICES ASSUME NEW mf \in Abbinamenti \ InOpera, RegistratoCon(tx', mf), Aperta(tx', mf[2])
               PROVE  Bonifico[mf[1]] <= Allocato(tx', mf[1])
    BY <1>5 DEF Esaurite
  <2>1. mf \in Chiavi /\ mf # k /\ mf[1] \in Movimenti /\ mf[2] \in Fatture
    BY <1>4 DEF Chiavi, Abbinamenti
  <2>2. Bonifico[mf[1]] <= Allocato(tx, mf[1])
    BY <1>8, <2>1 DEF Quiete, Esaurite
  <2>3. Bonifico[mf[1]] \in Nat /\ Allocato(tx, mf[1]) \in Nat
    BY <1>3, <2>1, AllocatoNaturale, IncassiAssumption
  <2> QED BY <1>2, <1>8, <2>1, <2>2, <2>3
<1>11. ASSUME NEW mf \in Abbinamenti, quota'[mf] # 0
       PROVE  mf \in InOpera' /\ ~RegistratoCon(tx', mf)
  <2>1. mf # k /\ quota[mf] # 0 /\ mf \in Chiavi
    BY <1>1, <1>11 DEF Quote, Chiavi
  <2> QED BY <1>5, <1>8, <2>1 DEF Quiete
<1>12. "psd2" \in collegamenti /\ SenzaAvanzi /\ MovimentoVisibile(m)
  BY <1>1, <1>4 DEF Quiete, InOpera, DopoMovimenti
<1>13. ASSUME NEW n \in Movimenti
       PROVE  /\ SommaSu(QuoteDi(n), Fatture) =
                   SommaSu(QuoteDi(n)', Fatture) + (IF n = m THEN importo ELSE 0)
              /\ SommaSu(QuoteDi(n)', Fatture) \in Nat
  <2>1. \A g \in Fatture : QuoteDi(n)'[g] = IF n = m /\ g = f THEN 0 ELSE QuoteDi(n)[g]
    BY <1>1 DEF QuoteDi, Quote, Abbinamenti
  <2>2. Naturale(QuoteDi(n), Fatture) /\ IsFiniteSet(Fatture) /\ QuoteDi(n)[f] = quota[<<n, f>>]
    BY CapienzaTipo DEF QuoteDi
  <2>3. PICK w, v : w = QuoteDi(n) /\ v = QuoteDi(n)'
    OBVIOUS
  <2>4. CASE n = m
    <3>1. \A g \in Fatture : v[g] = IF g = f THEN 0 ELSE w[g]
      BY <2>1, <2>3, <2>4
    <3>2. SommaSu(w, Fatture) = w[f] + SommaSu(v, Fatture) /\ SommaSu(v, Fatture) \in Nat
      BY <2>2, <2>3, <3>1, SommaAzzerata
    <3>3. w[f] = importo
      BY <2>2, <2>3, <2>4 DEF importo
    <3> QED BY <1>2, <2>3, <2>4, <3>2, <3>3
  <2>5. CASE n # m
    <3>1. \A g \in Fatture : v[g] = w[g]
      BY <2>1, <2>3, <2>5
    <3>2. SommaSu(v, Fatture) = SommaSu(w, Fatture)
      BY <2>2, <3>1, SommaUguale
    <3>3. SommaSu(w, Fatture) \in Nat
      BY <2>2, <2>3, SommaNaturale
    <3> QED BY <2>3, <2>5, <3>2, <3>3
  <2> QED BY <2>4, <2>5
<1>14. ASSUME NEW g \in Fatture
       PROVE  /\ SommaSu(QuoteSu(g), Movimenti) =
                   SommaSu(QuoteSu(g)', Movimenti) + (IF g = f THEN importo ELSE 0)
              /\ SommaSu(QuoteSu(g)', Movimenti) \in Nat
  <2>1. \A n \in Movimenti : QuoteSu(g)'[n] = IF g = f /\ n = m THEN 0 ELSE QuoteSu(g)[n]
    BY <1>1 DEF QuoteSu, Quote, Abbinamenti
  <2>2. Naturale(QuoteSu(g), Movimenti) /\ IsFiniteSet(Movimenti) /\ QuoteSu(g)[m] = quota[<<m, g>>]
    BY <1>1, IncassiAssumption DEF QuoteSu, Quote, Abbinamenti, Naturale
  <2>3. PICK w, v : w = QuoteSu(g) /\ v = QuoteSu(g)'
    OBVIOUS
  <2>4. CASE g = f
    <3>1. \A n \in Movimenti : v[n] = IF n = m THEN 0 ELSE w[n]
      BY <2>1, <2>3, <2>4
    <3>2. SommaSu(w, Movimenti) = w[m] + SommaSu(v, Movimenti) /\ SommaSu(v, Movimenti) \in Nat
      BY <2>2, <2>3, <3>1, SommaAzzerata
    <3>3. w[m] = importo
      BY <2>2, <2>3, <2>4 DEF importo
    <3> QED BY <1>2, <2>3, <2>4, <3>2, <3>3
  <2>5. CASE g # f
    <3>1. \A n \in Movimenti : v[n] = w[n]
      BY <2>1, <2>3, <2>5
    <3>2. SommaSu(v, Movimenti) = SommaSu(w, Movimenti)
      BY <2>2, <3>1, SommaUguale
    <3>3. SommaSu(w, Movimenti) \in Nat
      BY <2>2, <2>3, SommaNaturale
    <3> QED BY <2>3, <2>5, <3>2, <3>3
  <2> QED BY <2>4, <2>5
<1>15. SenzaAvanzi'
  <2> SUFFICES ASSUME NEW n \in Movimenti, NEW g \in Fatture,
                      Mittente[n] = Debitore[g], Aperta(tx', g),
                      tx'.residuo[g] > SommaSu(QuoteSu(g)', Movimenti)
               PROVE  Disponibili(tx)'[n] <= SommaSu(QuoteDi(n)', Fatture)
    BY DEF SenzaAvanzi
  <2>1. Contabile(tx') /\ tx'.stato[g] # "saldata" /\ tx'.stato[g] # "assente"
    <3>1. Denaro'
      BY ApplicaPagamentoConti
    <3> QED BY <3>1 DEF Denaro, Aperta, STATI_TERMINALI, StatiFattura
  <2>2. tx'.residuo[g] # 0
    BY <2>1 DEF Contabile
  <2>3. tx.residuo[g] \in Nat /\ tx'.residuo[g] \in Nat
    BY <1>3, ResiduoNaturale
  <2>4. tx.residuo[g] = tx'.residuo[g] + (IF g = f THEN importo ELSE 0)
    BY <1>2, <1>8, <2>2, <2>3 DEF ResiduoDopoIncasso
  <2>5. tx.residuo[g] > SommaSu(QuoteSu(g), Movimenti)
    BY <1>2, <1>14, <2>3, <2>4
  <2>6. Disponibili(tx)[n] <= SommaSu(QuoteDi(n), Fatture)
    BY <1>8, <1>12, <2>5 DEF SenzaAvanzi
  <2>7. /\ Disponibili(tx)[n] =
             IF MovimentoVisibile(n) THEN Massimo(0, Bonifico[n] - Allocato(tx, n)) ELSE 0
        /\ Disponibili(tx)'[n] =
             IF MovimentoVisibile(n) THEN Massimo(0, Bonifico[n] - Allocato(tx', n)) ELSE 0
    BY <1>1 DEF Disponibili, MovimentoVisibile, oggi
  <2>8. Allocato(tx, n) \in Nat /\ Bonifico[n] \in Nat
    BY <1>3, AllocatoNaturale, IncassiAssumption
  <2>9. Allocato(tx', n) = Allocato(tx, n) + (IF n = m THEN importo ELSE 0)
    BY <1>8
  <2>10. PICK x, y, z : /\ x = SommaSu(QuoteDi(n), Fatture) /\ y = SommaSu(QuoteDi(n)', Fatture)
                        /\ z = Allocato(tx', n)
    OBVIOUS
  <2>11. y \in Nat /\ x = y + (IF n = m THEN importo ELSE 0)
    BY <1>13, <2>10
  <2> QED BY <1>2, <1>12, <2>6, <2>7, <2>8, <2>9, <2>10, <2>11 DEF Massimo
<1> QED BY <1>1, <1>5, <1>9, <1>10, <1>11, <1>15 DEF Quiete

\* AggiornaPosizioni finds all the quotas applied: where a key was registered
\* and the invoice is open, its movement is exhausted.
LEMMA AggiornaPosizioniQuiete ==
  ASSUME Inv, Inv', Denaro, Quiete, AggiornaPosizioni
  PROVE  Quiete'
<1>1. /\ \A mf \in Abbinamenti : quota[mf] = 0
      /\ db' = db /\ quota' = quota /\ collegamenti' = collegamenti /\ adesso' = adesso
      /\ fase = "incassi" /\ fase' = "pause"
  BY DEF AggiornaPosizioni, Lavora
<1>2. Intatti(tx, tx')
  BY CicloIntatto
<1>3. tx \in Database /\ tx' \in Database /\ Contabile(tx)
  BY DEF Inv, TypeOK, Denaro
<1>4. /\ \A f \in Fatture : SommaSu(QuoteSu(f), Movimenti) = 0
      /\ \A m \in Movimenti : SommaSu(QuoteDi(m), Fatture) = 0
  <2>1. /\ \A f \in Fatture : \A m \in Movimenti : QuoteSu(f)[m] = 0
        /\ \A m \in Movimenti : \A f \in Fatture : QuoteDi(m)[f] = 0
    BY <1>1 DEF QuoteSu, QuoteDi, Abbinamenti
  <2> QED BY <2>1, SommaZeri, IncassiAssumption
<1>5. Esaurite(tx, {})
  <2> SUFFICES ASSUME NEW mf \in Abbinamenti, RegistratoCon(tx, mf), Aperta(tx, mf[2])
               PROVE  Bonifico[mf[1]] <= Allocato(tx, mf[1])
    BY DEF Esaurite
  <2>1. CASE mf \notin InOpera
    BY <2>1 DEF Quiete, Esaurite
  <2>2. CASE mf \in InOpera
    <3>1. PICK m \in Movimenti, f \in Fatture : mf = <<m, f>>
      BY DEF Abbinamenti
    <3>2. "psd2" \in collegamenti /\ MovimentoVisibile(m) /\ Mittente[m] = Debitore[f]
      BY <2>2, <3>1 DEF InOpera
    <3>3. SenzaAvanzi
      BY <1>1, <3>2 DEF Quiete, DopoMovimenti
    <3>4. tx.residuo[f] # 0 /\ tx.residuo[f] \in Nat
      BY <1>3, <3>1, ResiduoNaturale DEF Contabile, Aperta, StatiFattura, STATI_TERMINALI
    <3>5. Disponibili(tx)[m] <= 0
      BY <1>4, <3>1, <3>2, <3>3, <3>4 DEF SenzaAvanzi
    <3>6. Disponibili(tx)[m] = Massimo(0, Bonifico[m] - Allocato(tx, m))
      BY <1>3, <3>2, DisponibiliTipo
    <3>7. Bonifico[m] \in Nat /\ Allocato(tx, m) \in Nat
      BY <1>3, AllocatoNaturale, IncassiAssumption
    <3> QED BY <3>1, <3>5, <3>6, <3>7 DEF Massimo
  <2> QED BY <2>1, <2>2
<1>6. \A g \in Fatture : Aperta(tx', g) => Aperta(tx, g)
  BY <1>2, <1>3, IntattiAperta
<1>7. ChiaviVere(tx') /\ Esaurite(tx', {})
  BY <1>2, <1>3, <1>5, <1>6, ChiaviConservate DEF Quiete, Intatti
<1>8. InOpera' = {}
  BY <1>1 DEF InOpera
<1>9. ASSUME "psd2" \in collegamenti PROVE SenzaAvanzi'
  <2>1. SenzaAvanzi
    BY <1>1, <1>9 DEF Quiete, DopoMovimenti
  <2>2. tx'.residuo = tx.residuo /\ Disponibili(tx)' = Disponibili(tx)
    BY <1>1, <1>2 DEF Intatti, Disponibili, Allocato, MovimentoVisibile, oggi
  <2>3. /\ \A f : QuoteSu(f)' = QuoteSu(f)
        /\ \A m : QuoteDi(m)' = QuoteDi(m)
    BY <1>1 DEF QuoteSu, QuoteDi
  <2> QED BY <1>6, <2>1, <2>2, <2>3 DEF SenzaAvanzi
<1> QED BY <1>1, <1>7, <1>8, <1>9 DEF Quiete

\* A key of the operator has not the form of one of the cycle.
ChiaviDistinte == ChiaviManuali \cap Abbinamenti = {}

\* A manual payment, under a key of its own, is of no movement.
LEMMA PagataAManoQuieta ==
  ASSUME ChiaviDistinte, NEW d \in Database, Contabile(d), ChiaviVere(d), Esaurite(d, {}),
         NEW f \in Fatture, NEW importo \in 1 .. ImportoMax, NEW k \in ChiaviManuali,
         ~RegistratoCon(d, k), NEW e, e = PagataAMano(d, f, importo, k)
  PROVE  ChiaviVere(e) /\ Esaurite(e, {})
<1> DEFINE dopo == Incassata(d, f, importo, k, "manuale")
<1>1. k \in Chiavi /\ k \notin Abbinamenti /\ \A n \in Movimenti : k \notin {n} \X Fatture
  BY DEF ChiaviDistinte, Chiavi, Abbinamenti
<1>2. dopo \in Database
  BY <1>1, IncassataTipo
<1>3. /\ \A n \in Movimenti :
           Allocato(dopo, n) = Allocato(d, n) + (IF k \in {n} \X Fatture THEN importo ELSE 0)
      /\ \A j \in Chiavi : RegistratoCon(dopo, j) <=> RegistratoCon(d, j) \/ j = k
      /\ \A x \in dopo.pagamenti : x \in d.pagamenti \/ (x.chiave = k /\ x.fattura = f)
      /\ \A g \in Fatture : Aperta(dopo, g) => Aperta(d, g)
  BY <1>1, IncassataAlloca
<1>4. e.pagamenti = dopo.pagamenti /\ e.stato = dopo.stato
  <2>1. PICK a : a = Annulla(dopo, {f})
    OBVIOUS
  <2>2. a \in Database /\ a.pagamenti = dopo.pagamenti /\ a.stato = dopo.stato
    BY <1>2, <2>1, AnnullaTipo
  <2>3. e = dopo \/ \E x : e = [a EXCEPT !.statoPos[d.posizione[f]] = x]
    BY <2>1 DEF PagataAMano
  <2> HIDE DEF dopo
  <2>4. \A x : LET z == [a EXCEPT !.statoPos[d.posizione[f]] = x]
               IN  z.pagamenti = a.pagamenti /\ z.stato = a.stato
    BY <2>2 DEF Database
  <2> QED BY <2>2, <2>3, <2>4
<1> HIDE DEF dopo
<1>5. \A n \in Movimenti : Allocato(d, n) \in Nat
  BY AllocatoNaturale
<1>6. /\ \A n \in Movimenti : Allocato(e, n) = Allocato(d, n)
      /\ \A mf \in Abbinamenti : RegistratoCon(e, mf) <=> RegistratoCon(d, mf)
      /\ \A g \in Fatture : Aperta(e, g) => Aperta(d, g)
  <2>1. \A n : Allocato(e, n) = Allocato(dopo, n)
    BY <1>4 DEF Allocato
  <2>2. \A j : RegistratoCon(e, j) <=> RegistratoCon(dopo, j)
    BY <1>4 DEF RegistratoCon
  <2>3. \A mf \in Abbinamenti : mf \in Chiavi /\ mf # k
    BY <1>1 DEF Chiavi
  <2>4. \A g : Aperta(e, g) <=> Aperta(dopo, g)
    BY <1>4 DEF Aperta
  <2> QED BY <1>1, <1>3, <1>5, <2>1, <2>2, <2>3, <2>4
<1>7. ChiaviVere(e)
  BY <1>1, <1>3, <1>4 DEF ChiaviVere
<1>8. \A mf \in Abbinamenti : mf[1] \in Movimenti /\ mf[2] \in Fatture
  BY DEF Abbinamenti
<1> QED BY <1>6, <1>7, <1>8 DEF Esaurite

\* Between two cycles what is committed is all there is.
LEMMA QuieteFerma ==
  ASSUME fase' = "ferma", tx' = db', ChiaviVere(db'), Esaurite(db', {}),
         \A mf \in Abbinamenti : quota'[mf] = 0
  PROVE  Quiete'
<1>1. InOpera' = {} /\ fase' \notin DopoMovimenti
  BY DEF InOpera, DopoMovimenti
<1> QED BY <1>1 DEF Quiete

\* A request of the operator.
LEMMA AzioneQuiete ==
  ASSUME ChiaviDistinte, Inv, Inv', Denaro, Quiete, Azione
  PROVE  Quiete'
<1>1. fase = "ferma" /\ fase' = "ferma" /\ tx' = db' /\ quota' = quota
  BY AzioneDaSola
<1>2. \A mf \in Abbinamenti : quota'[mf] = 0
  BY <1>1 DEF Quiete, InOpera
<1>3. db \in Database /\ db' \in Database /\ Contabile(db)
  BY DEF Inv, TypeOK, Denaro
<1>4. CASE \E f \in Fatture, i \in ImportiManuali, k \in ChiaviManuali : RegistraPagamento(f, i, k)
  <2>1. PICK f \in Fatture, i \in ImportiManuali, k \in ChiaviManuali : RegistraPagamento(f, i, k)
    BY <1>4
  <2>2. db' = PagataAMano(db, f, i, k) /\ ~RegistratoCon(db, k)
    BY <2>1 DEF RegistraPagamento, RichiestaMuta, Richiesta
  <2>3. i \in 1 .. ImportoMax
    BY IncassiAssumption
  <2>4. ChiaviVere(db') /\ Esaurite(db', {})
    BY <1>3, <2>2, <2>3, PagataAManoQuieta DEF Quiete
  <2> QED BY <1>1, <1>2, <2>4, QuieteFerma
<1>5. CASE ~ \E f \in Fatture, i \in ImportiManuali, k \in ChiaviManuali : RegistraPagamento(f, i, k)
  <2>1. Intatti(db, db')
    BY <1>5, AzioneIntatta
  <2>2. \A g \in Fatture : Aperta(db', g) => Aperta(db, g)
    BY <1>3, <2>1, IntattiAperta
  <2>3. ChiaviVere(db') /\ Esaurite(db', {})
    BY <1>3, <2>1, <2>2, ChiaviConservate DEF Quiete, Intatti
  <2> QED BY <1>1, <1>2, <2>3, QuieteFerma
<1> QED BY <1>4, <1>5

\* No rows, nothing registered.
LEMMA QuieteInit == Init => Quiete
<1> SUFFICES ASSUME Init PROVE Quiete
  OBVIOUS
<1>1. db.pagamenti = {} /\ tx.pagamenti = {} /\ fase \notin DopoMovimenti
      /\ \A mf \in Abbinamenti : quota[mf] = 0
  BY DEF Init, DbVuoto, DopoMovimenti
<1> QED BY <1>1 DEF Quiete, ChiaviVere, Esaurite, RegistratoCon

\* Every step.
LEMMA PassoQuiete ==
  ASSUME ChiaviDistinte, Inv, Inv', Denaro, Quiete, [Next]_vars
  PROVE  Quiete'
<1>0. tx \in Database /\ db \in Database /\ tx' \in Database
  BY DEF Inv, TypeOK
<1>1. CASE \E attivi \in StatiCollegamenti : AvviaCiclo(attivi)
  <2>1. /\ fase = "ferma" /\ fase' \in {"import", "movimenti"}
        /\ db' = db /\ tx' = tx /\ quota' = quota
    BY <1>1 DEF AvviaCiclo
  <2>2. InOpera = {} /\ InOpera' = {} /\ fase' \notin DopoMovimenti
    BY <2>1 DEF InOpera, DopoMovimenti
  <2> QED BY <2>1, <2>2 DEF Quiete
<1>2. CASE \E f \in Fatture : ImportaFattura(f)
  <2>1. PICK f \in Fatture : ImportaFattura(f)
    BY <1>2
  <2>2. /\ fase = "import" /\ fase' = "import" /\ tx.stato[f] = "assente"
        /\ db' = db /\ quota' = quota /\ collegamenti' = collegamenti
    BY <2>1 DEF ImportaFattura, Lavora
  <2>3. tx'.pagamenti = tx.pagamenti /\ \A g \in Fatture \ {f} : tx'.stato[g] = tx.stato[g]
    BY <2>1, ImportaFatturaConti
  <2>4. \A g \in Fatture : Aperta(tx', g) => Aperta(tx, g) \/ tx.stato[g] = "assente"
    BY <2>2, <2>3 DEF Aperta
  <2> QED BY <2>2, <2>3, <2>4, CicloQuieto DEF DopoMovimenti
<1>3. CASE \/ FineImport \/ RiprendiPauseScadute
           \/ \E f \in Fatture : EseguiEscalation(f)
           \/ VagliaDovute
           \/ \E cl \in Clienti, k \in Canali, b \in BOOLEAN : InviaGruppo(cl, k, b)
  <2>1. Intatti(tx, tx')
    BY <1>3, CicloIntatto
  <2>2. /\ db' = db /\ quota' = quota /\ collegamenti' = collegamenti /\ adesso' = adesso
        /\ fase # "incassi" /\ fase' # "incassi"
        /\ fase' \in DopoMovimenti => fase \in DopoMovimenti
    BY <1>3 DEF FineImport, RiprendiPauseScadute, EseguiEscalation, VagliaDovute, InviaGruppo,
                Lavora, DopoMovimenti
  <2>3. \A g \in Fatture : Aperta(tx', g) => Aperta(tx, g)
    BY <1>0, <2>1, IntattiAperta
  <2> QED BY <2>1, <2>2, <2>3, CicloQuieto DEF Intatti
<1>4. CASE ConcludiCiclo
  <2>1. fase = "invii" /\ fase' = "ferma" /\ db' = tx' /\ quota' = quota
    BY <1>4 DEF ConcludiCiclo
  <2>2. Intatti(tx, tx')
    BY <1>4, CicloIntatto
  <2>3. \A g \in Fatture : Aperta(tx', g) => Aperta(tx, g)
    BY <1>0, <2>2, IntattiAperta
  <2>4. InOpera = {}
    BY <2>1 DEF InOpera
  <2>5. ChiaviVere(tx') /\ Esaurite(tx', {})
    BY <1>0, <2>2, <2>3, <2>4, ChiaviConservate DEF Quiete, Denaro, Intatti
  <2>6. \A mf \in Abbinamenti : quota'[mf] = 0
    BY <2>1, <2>4 DEF Quiete
  <2> QED BY <2>1, <2>5, <2>6, QuieteFerma
<1>5. CASE Caduta
  <2>1. fase' = "ferma" /\ tx' = db /\ db' = db /\ quota' = [mf \in Abbinamenti |-> 0]
    BY <1>5 DEF Caduta
  <2> QED BY <2>1, QuieteFerma DEF Quiete
<1>6. CASE PassaIlTempo
  <2>1. fase = "ferma" /\ fase' = "ferma" /\ tx' = tx /\ db' = db /\ quota' = quota /\ tx = db
    BY <1>6 DEF PassaIlTempo, Inv
  <2>2. InOpera = {}
    BY <2>1 DEF InOpera
  <2> QED BY <2>1, <2>2, QuieteFerma DEF Quiete
<1>7. CASE UNCHANGED vars
  <2>1. /\ InOpera' = InOpera /\ SenzaAvanzi' = SenzaAvanzi
    BY <1>7 DEF vars, InOpera, SenzaAvanzi, MovimentoVisibile, oggi, Disponibili, Allocato, QuoteSu, QuoteDi
  <2> QED BY <1>7, <2>1 DEF vars, Quiete
<1> QED BY <1>1, <1>2, <1>3, <1>4, <1>5, <1>6, <1>7, RilevaIncassiQuiete, ApplicaPagamentoQuiete,
           AggiornaPosizioniQuiete, AzioneQuiete DEF Next, PassoCiclo

-----------------------------------------------------------------------------
(***************************************************************************)
(* The rest of what a cycle has done at each of its phases.                *)
(***************************************************************************)
DopoImport == DopoMovimenti \cup {"movimenti"}

Fatto ==
  /\ fase \in DopoImport /\ "ade" \in collegamenti =>
       \A f \in Fatture : Visibile(f) => tx.stato[f] # "assente"
  /\ fase \in {"escalation", "invii"} => \A f \in Fatture : ~PausaScaduta(tx, f)
  /\ fase = "invii" =>
       \A c \in Comunicazioni :
         Dovuta(tx, c) => tx.stato[c[1]] = "pausa" \/ c \in DaInviare(tx)

\* Import, pauses and reminders of a cycle are finished in their order.
LEMMA PassoFatto ==
  ASSUME Inv, Inv', Denaro, Fatto, [Next]_vars
  PROVE  Fatto'
<1>0. tx \in Database /\ tx' \in Database
  BY DEF Inv, TypeOK
<1>1. ASSUME fase' \notin DopoImport PROVE Fatto'
  BY <1>1 DEF Fatto, DopoImport, DopoMovimenti
<1>2. ASSUME VitaCiclo(tx, tx'), adesso' = adesso, collegamenti' = collegamenti,
             fase \in DopoImport
      PROVE  "ade" \in collegamenti' => \A f \in Fatture : Visibile(f)' => tx'.stato[f] # "assente"
  BY <1>2 DEF Fatto, VitaCiclo, Vita, Visibile, oggi
<1>3. CASE \/ \E attivi \in StatiCollegamenti : AvviaCiclo(attivi)
           \/ \E f \in Fatture : ImportaFattura(f)
           \/ ConcludiCiclo \/ Caduta \/ Azione \/ PassaIlTempo
  <2>1. fase' \in {"ferma", "import"} \/ (fase' = "movimenti" /\ "ade" \notin collegamenti')
    BY <1>3, AzioneDaSola DEF AvviaCiclo, ImportaFattura, ConcludiCiclo, Caduta, PassaIlTempo, Lavora
  <2> QED BY <2>1 DEF Fatto, DopoImport, DopoMovimenti
<1>4. CASE FineImport
  BY <1>4 DEF FineImport, Lavora, Fatto, Visibile, oggi
<1>5. CASE RilevaIncassi \/ AggiornaPosizioni
  <2>1. /\ fase \in DopoImport /\ fase' \in {"incassi", "pause"}
        /\ adesso' = adesso /\ collegamenti' = collegamenti
    BY <1>5 DEF RilevaIncassi, AggiornaPosizioni, Lavora, DopoImport, DopoMovimenti
  <2>2. VitaCiclo(tx, tx')
    BY <1>5, CicloIntatto
  <2> QED BY <1>2, <2>1, <2>2 DEF Fatto
<1>6. CASE \E m \in Movimenti, f \in Fatture : ApplicaPagamento(m, f)
  <2>1. PICK m \in Movimenti, f \in Fatture : ApplicaPagamento(m, f)
    BY <1>6
  <2>2. /\ fase = "incassi" /\ fase' = "incassi" /\ adesso' = adesso
        /\ collegamenti' = collegamenti /\ db' = db
    BY <2>1 DEF ApplicaPagamento, Lavora
  <2>3. VitaCiclo(tx, tx')
    BY <2>1, ApplicaPagamentoConti
  <2> QED BY <1>2, <2>2, <2>3 DEF Fatto, DopoImport, DopoMovimenti
<1>7. CASE RiprendiPauseScadute
  <2>1. /\ fase = "pause" /\ fase' = "escalation" /\ tx' = PauseRiprese(tx)
        /\ adesso' = adesso /\ collegamenti' = collegamenti
    BY <1>7 DEF RiprendiPauseScadute, Lavora
  <2>2. VitaCiclo(tx, tx')
    BY <1>7, CicloIntatto
  <2>3. \A f \in Fatture : ~PausaScaduta(tx, f)'
    BY <1>0, <2>1 DEF PauseRiprese, PausaScaduta, Database, oggi
  <2> QED BY <1>2, <2>1, <2>2, <2>3 DEF Fatto, DopoImport, DopoMovimenti
<1>8. CASE \E f \in Fatture : EseguiEscalation(f)
  <2>1. PICK f \in Fatture : EseguiEscalation(f)
    BY <1>8
  <2>2. /\ fase = "escalation" /\ fase' = "escalation" /\ tx' = Escalata(tx, f)
        /\ adesso' = adesso /\ collegamenti' = collegamenti
    BY <2>1 DEF EseguiEscalation
  <2>3. VitaCiclo(tx, tx')
    BY <1>8, CicloIntatto
  <2>4. \A g \in Fatture : ~PausaScaduta(tx, g)'
    <3>1. /\ tx'.pausaFinoA = tx.pausaFinoA
          /\ tx'.stato = [tx.stato EXCEPT ![f] = "insoluto"]
      BY <1>0, <2>2 DEF Escalata, Annulla, Database
    <3>2. \A g \in Fatture : tx'.stato[g] = "pausa" => tx.stato[g] = "pausa"
      BY <1>0, <3>1 DEF Database
    <3> QED BY <2>2, <3>1, <3>2 DEF Fatto, PausaScaduta, oggi
  <2> QED BY <1>2, <2>2, <2>3, <2>4 DEF Fatto, DopoImport, DopoMovimenti
<1>9. CASE VagliaDovute
  <2>1. /\ fase = "escalation" /\ fase' = "invii" /\ tx' = DovuteVagliate(tx)
        /\ adesso' = adesso /\ collegamenti' = collegamenti
    BY <1>9 DEF VagliaDovute, Lavora
  <2>2. VitaCiclo(tx, tx')
    BY <1>9, CicloIntatto
  <2>3. /\ tx'.stato = tx.stato /\ tx'.pausaFinoA = tx.pausaFinoA
        /\ tx'.recapiti = tx.recapiti /\ tx'.optOut = tx.optOut
        /\ \A c \in Comunicazioni :
             tx'.com[c] = "programmata" =>
               /\ tx.com[c] = "programmata"
               /\ Dovuta(tx, c) => tx.stato[c[1]] = "pausa" \/ c \in DaInviare(tx)
    BY <1>0, <2>1 DEF DovuteVagliate, Database
  <2>4. \A f \in Fatture : ~PausaScaduta(tx, f)'
    BY <2>1, <2>3 DEF Fatto, PausaScaduta, oggi
  <2>5. ASSUME NEW c \in Comunicazioni, Dovuta(tx, c)'
        PROVE  tx'.stato[c[1]] = "pausa" \/ c \in DaInviare(tx)'
    <3>1. Dovuta(tx, c)
      BY <2>1, <2>3, <2>5 DEF Dovuta
    <3>2. Raggiungibile(tx, c)' <=> Raggiungibile(tx, c)
      BY <2>3 DEF Raggiungibile
    <3> QED BY <2>3, <2>5, <3>1, <3>2 DEF DaInviare, Dovuta
  <2> QED BY <1>2, <2>1, <2>2, <2>4, <2>5 DEF Fatto, DopoImport, DopoMovimenti
<1>10. CASE \E cl \in Clienti, k \in Canali, b \in BOOLEAN : InviaGruppo(cl, k, b)
  <2>1. PICK cl \in Clienti, k \in Canali, b \in BOOLEAN : InviaGruppo(cl, k, b)
    BY <1>10
  <2>2. /\ fase = "invii" /\ fase' = "invii" /\ tx' = ConEsito(tx, Gruppo(tx, cl, k), Esito(b))
        /\ adesso' = adesso /\ collegamenti' = collegamenti
    BY <2>1 DEF InviaGruppo
  <2>3. VitaCiclo(tx, tx')
    BY <1>10, CicloIntatto
  <2>4. /\ tx'.stato = tx.stato /\ tx'.pausaFinoA = tx.pausaFinoA
        /\ tx'.recapiti = tx.recapiti /\ tx'.optOut = tx.optOut
        /\ \A c \in Comunicazioni : tx'.com[c] = "programmata" => tx.com[c] = "programmata"
    BY <1>0, <2>2 DEF ConEsito, Esito, Database
  <2>5. \A f \in Fatture : ~PausaScaduta(tx, f)'
    BY <2>2, <2>4 DEF Fatto, PausaScaduta, oggi
  <2>6. ASSUME NEW c \in Comunicazioni, Dovuta(tx, c)'
        PROVE  tx'.stato[c[1]] = "pausa" \/ c \in DaInviare(tx)'
    <3>1. tx.stato[c[1]] = "pausa" \/ c \in DaInviare(tx)
      BY <2>2, <2>4, <2>6 DEF Fatto, Dovuta
    <3>2. Raggiungibile(tx, c)' <=> Raggiungibile(tx, c)
      BY <2>4 DEF Raggiungibile
    <3> QED BY <2>4, <2>6, <3>1, <3>2 DEF DaInviare, Dovuta
  <2> QED BY <1>2, <2>2, <2>3, <2>5, <2>6 DEF Fatto, DopoImport, DopoMovimenti
<1>11. CASE UNCHANGED vars
  BY <1>11 DEF vars, Fatto, Visibile, PausaScaduta, Dovuta, DaInviare, Raggiungibile, oggi
<1> QED BY <1>3, <1>4, <1>5, <1>6, <1>7, <1>8, <1>9, <1>10, <1>11 DEF Next, PassoCiclo

\* What a cycle with both links has committed leaves nothing to a second one.
LEMMA CicloConcluso ==
  ASSUME Inv, Inv', Denaro, Denaro', Quiete, Fatto, EscalationFinite,
         ConcludiCiclo, collegamenti = Collegamenti
  PROVE  NullaDaFare'
<1>1. /\ fase = "invii" /\ DaInviare(tx) = {} /\ adesso' = adesso
      /\ db' = tx' /\ tx' = Notificate(tx, collegamenti)
      /\ "ade" \in collegamenti /\ "psd2" \in collegamenti
  BY DEF ConcludiCiclo, Collegamenti
<1>2. tx \in Database /\ db' \in Database /\ Contabile(db') /\ Contabile(tx)
  BY DEF Inv, TypeOK, Denaro
<1>3. /\ db'.stato = tx.stato /\ db'.residuo = tx.residuo /\ db'.pagamenti = tx.pagamenti
      /\ db'.com = tx.com /\ db'.pausaFinoA = tx.pausaFinoA
  BY <1>1, <1>2 DEF Notificate, Database
<1>4. \A f \in Fatture : Visibile(f)' => db'.stato[f] # "assente"
  BY <1>1, <1>3 DEF Fatto, DopoImport, DopoMovimenti, Visibile, oggi
<1>5. ASSUME NEW m \in Movimenti, NEW f \in Fatture PROVE Trovati(db)'[<<m, f>>] = 0
  <2>1. Trovati(db)' = Trovati(tx)
    BY <1>1, <1>3 DEF Trovati, ResiduiAperti, Disponibili, Aperta, Allocato, MovimentoVisibile, oggi
  <2> SUFFICES ASSUME Trovati(tx)[<<m, f>>] # 0 PROVE FALSE
    BY <2>1
  <2>2. /\ Aperta(tx, f) /\ Mittente[m] = Debitore[f] /\ MovimentoVisibile(m)
        /\ Allocato(tx, m) < Bonifico[m]
    BY <1>2, TrovatiSono
  <2>3. SommaSu(QuoteSu(f), Movimenti) = 0 /\ SommaSu(QuoteDi(m), Fatture) = 0
    <3>1. \A mf \in Abbinamenti : quota[mf] = 0
      BY <1>1 DEF Quiete, InOpera
    <3>2. /\ \A n \in Movimenti : QuoteSu(f)[n] = 0
          /\ \A g \in Fatture : QuoteDi(m)[g] = 0
      BY <3>1 DEF QuoteSu, QuoteDi, Abbinamenti
    <3> QED BY <3>2, SommaZeri, IncassiAssumption
  <2>4. tx.residuo[f] > 0
    BY <1>2, <2>2, ResiduoNaturale DEF Contabile, Aperta, StatiFattura, STATI_TERMINALI
  <2>5. Disponibili(tx)[m] <= 0
    BY <1>1, <2>2, <2>3, <2>4 DEF Quiete, SenzaAvanzi, DopoMovimenti
  <2>6. Disponibili(tx)[m] = Massimo(0, Bonifico[m] - Allocato(tx, m))
    BY <1>2, <2>2, DisponibiliTipo
  <2>7. Allocato(tx, m) \in Nat /\ Bonifico[m] \in Nat
    BY <1>2, AllocatoNaturale, IncassiAssumption
  <2> QED BY <2>2, <2>5, <2>6, <2>7 DEF Massimo
<1>6. \A mf \in Abbinamenti : Trovati(db)'[mf] = 0
  BY <1>5 DEF Abbinamenti
<1>7. DaEscalare(db)' = {}
  BY <1>1, <1>3 DEF EscalationFinite, DaEscalare, oggi
<1>8. \A f \in Fatture : ~PausaScaduta(db, f)'
  BY <1>1, <1>3 DEF Fatto, PausaScaduta, oggi
<1>9. \A c \in Comunicazioni : Dovuta(db, c)' => db'.stato[c[1]] = "pausa"
  BY <1>1, <1>3 DEF Fatto, Dovuta
<1> QED BY <1>4, <1>6, <1>7, <1>8, <1>9 DEF NullaDaFare

\* "Safely re-runnable": whatever happened before, lost cycles and requests of
\* the operator included, a cycle that found both links active leaves nothing
\* for a second one at the same instant to import, allocate, resume, escalate
\* or send, provided that the operator's keys have not the form of the cycle's
\* (sync.esegui_sync, invii.MotoreInvii).
THEOREM CicloRieseguibile ==
  ASSUME ChiaviDistinte
  PROVE  Spec => Rieseguibile
<1>1. Init => Inv /\ Denaro /\ Quiete /\ Fatto /\ EscalationFinite
  <2>1. Init => Fatto /\ EscalationFinite
    BY DEF Init, Fatto, EscalationFinite, DopoImport, DopoMovimenti
  <2> QED BY <2>1, InvInit, DenaroInit, QuieteInit
<1>2. Inv /\ Inv' /\ Denaro /\ Quiete /\ [Next]_vars => Quiete'
  BY PassoQuiete
<1>3. Inv /\ Inv' /\ Denaro /\ Fatto /\ [Next]_vars => Fatto'
  BY PassoFatto
<1>4. Inv /\ Inv' /\ Denaro /\ Denaro' /\ Quiete /\ Fatto /\ EscalationFinite
        => (ConcludiCiclo /\ collegamenti = Collegamenti => NullaDaFare')
  BY CicloConcluso
<1>5. Init => SollecitoLegittimo
  BY DEF Init, SollecitoLegittimo, NessunMessaggio, Messaggio
<1> QED BY <1>1, <1>2, <1>3, <1>4, <1>5, PassoInv, PassoDenaro, PassoLegittimo, PTL
        DEF Spec, Rieseguibile
=============================================================================
