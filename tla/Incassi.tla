------------------------------ MODULE Incassi ------------------------------
(***************************************************************************)
(* The business state of one tenant of IREC and everything that changes    *)
(* it: the daily cycle (services/sync.py, services/invii.py,               *)
(* services/notifiche.py) and the confirmed actions of the operator        *)
(* (services/azioni.py, reached through api/azioni.py and                  *)
(* api/proattivo.py).                                                      *)
(*                                                                         *)
(* The cycle runs in one database transaction and is modelled loop body by *)
(* loop body: "tx" is what its session sees, "db" what is committed.  The  *)
(* commit is its last step; a fault before it (Caduta) loses tx, while the *)
(* messages already handed to the channel are gone.  The requests of the   *)
(* operator are one transaction each and run between cycles.               *)
(***************************************************************************)
EXTENDS Dominio, Riconciliatore, FiniteSets

CONSTANTS
  Clienti,            \* clients (debtors)
  Importo,            \* [Fatture -> Nat]: cents due
  Emissione,          \* [Fatture -> Nat]: day of issue
  Bonifico,           \* [Movimenti -> Nat]: cents received
  DataMovimento,      \* [Movimenti -> Nat]: day of the movement
  MaxFlussi,          \* bound: versions the flow may go through
  Passi,              \* the steps a flow can be made of
  Offset,             \* [Passi -> Int]: days from T
  CanalePasso,        \* [Passi -> Canali]
  PassiDefault,       \* the steps of FLUSSO_DEFAULT
  Pacchetto,          \* the package of the mandante
  RecapitiImportati,  \* [Clienti -> SUBSET Recapiti]: contacts on the invoices
  Festivi,            \* days without sending
  Istanti,            \* the instants at which something may happen
  Inizio              \* the first of them

\* Inputs of the operator, and bounds.
CONSTANTS
  FinePausa,          \* the dates a pause may be given ("until")
  PauseSenzaData,     \* TRUE if a pause without a date may be asked for
  ImportiManuali,     \* amounts of manual payments
  ChiaviManuali,      \* Idempotency-Keys the operator's client sends
  NuoviRecapiti,      \* contact sets the operator may write
  NuoviOptOut,        \* opt-out lists the operator may write
  NuoviFlussi,        \* the sets of steps a replacement flow may have
  StatiCollegamenti,  \* the sets of links a cycle may find active
  MaxAzioni,          \* bound: requests of the operator
  MaxCadute,          \* bound: transactions that may be lost
  ImportoMax          \* bound: largest amount

LOOKBACK_GIORNI == 30   \* LOOKBACK_GIORNI_DEFAULT
LATENZA_SDI_GIORNI == 2 \* LATENZA_SDI_GIORNI_DEFAULT
Mai == -1               \* pausa_fino_a is None

Flussi == 1 .. MaxFlussi
Collegamenti == {"ade", "psd2"}
StatiComunicazione == {"programmata", "inviata", "annullata", "fallita", "saltata"}
Comunicazioni == Fatture \X Flussi \X Passi
Abbinamenti == Movimenti \X Fatture
Chiavi == Abbinamenti \cup ChiaviManuali
Quote == [Abbinamenti -> 0 .. ImportoMax]

\* The invoices of a debtor are served in a total order: the code sorts them
\* by due date and number, and its sort keeps the order of the list on ties.
\* A place in the list of movements is of one movement.
ASSUME IncassiAssumption ==
  /\ IsFiniteSet(Fatture) /\ IsFiniteSet(Movimenti)
  /\ Debitore \in [Fatture -> Clienti] /\ Mittente \in [Movimenti -> Clienti]
  /\ Importo \in [Fatture -> 1 .. ImportoMax] /\ Bonifico \in [Movimenti -> 1 .. ImportoMax]
  /\ Scadenza \in [Fatture -> Nat] /\ Emissione \in [Fatture -> Nat]
  /\ Numero \in [Fatture -> Nat] /\ Posto \in [Movimenti -> Nat]
  /\ \A f, g \in Fatture :
       f # g /\ Debitore[f] = Debitore[g] => PrimaInScadenza(f, g) \/ PrimaInScadenza(g, f)
  /\ \A m, n \in Movimenti : m # n => Posto[m] # Posto[n]
  /\ \A f \in Fatture : Emissione[f] <= Scadenza[f]
  /\ DataMovimento \in [Movimenti -> Nat]
  /\ MaxFlussi \in Nat \ {0}
  /\ Offset \in [Passi -> Int] /\ CanalePasso \in [Passi -> Canali]
  /\ PassiDefault \subseteq Passi /\ NuoviFlussi \subseteq SUBSET Passi
  /\ Pacchetto \in Pacchetti
  /\ RecapitiImportati \in [Clienti -> SUBSET Recapiti]
  /\ NuoviRecapiti \subseteq SUBSET Recapiti /\ NuoviOptOut \subseteq SUBSET Canali
  /\ Istanti \subseteq Nat /\ Inizio \in Istanti
  /\ FinePausa \subseteq Nat /\ PauseSenzaData \in BOOLEAN
  /\ ImportiManuali \subseteq 1 .. ImportoMax
  /\ StatiCollegamenti \subseteq SUBSET Collegamenti
  /\ ImportoMax \in Nat /\ MaxAzioni \in Nat /\ MaxCadute \in Nat

VARIABLES
  db,            \* the committed rows of the tenant
  tx,            \* what the transaction of the cycle sees (db between cycles)
  fase,          \* where the cycle stands
  collegamenti,  \* the external links the cycle found active
  quota,         \* reconciliation results still to be applied
  adesso,        \* the current instant; fixed while a cycle runs
  partiti,       \* [Comunicazioni -> Nat]: reminders the channel delivered
  ultimo,        \* the message the last step handed to the channel
  azioni,        \* requests of the operator so far
  cadute         \* transactions lost so far

vars == <<db, tx, fase, collegamenti, quota, adesso, partiti, ultimo, azioni, cadute>>

Fasi == {"ferma", "import", "movimenti", "incassi", "pause", "escalation", "invii"}

oggi == Giorno(adesso)

-----------------------------------------------------------------------------
(***************************************************************************)
(* The rows of a tenant.  A row that does not exist has state "assente".   *)
(* A position is named by the invoice whose import opened it.              *)
(***************************************************************************)
DbVuoto ==
  [stato     |-> [f \in Fatture |-> "assente"],
   residuo   |-> [f \in Fatture |-> 0],
   pausaFinoA |-> [f \in Fatture |-> Mai],
   posizione |-> [f \in Fatture |-> f],
   statoPos  |-> [p \in Fatture |-> "assente"],
   com       |-> [c \in Comunicazioni |-> "assente"],
   flusso    |-> 0,
   passi     |-> [v \in Flussi |-> {}],
   pagamenti |-> {},
   recapiti  |-> RecapitiImportati,
   optOut    |-> [c \in Clienti |-> {}],
   preavviso |-> [f \in Fatture |-> "assente"],
   avviso    |-> [l \in Collegamenti |-> "assente"]]

Pagamenti ==
  [chiave : Chiavi, fattura : Fatture, importo : 1 .. ImportoMax,
   origine : {"riconciliazione", "manuale"}]

Database ==
  [stato      : [Fatture -> StatiFattura \cup {"assente"}],
   residuo    : [Fatture -> 0 .. ImportoMax],
   pausaFinoA : [Fatture -> FinePausa \cup {Mai}],
   posizione  : [Fatture -> Fatture],
   statoPos   : [Fatture -> {"assente", "aperta", "chiusa"}],
   com        : [Comunicazioni -> StatiComunicazione \cup {"assente"}],
   flusso     : Flussi \cup {0},
   passi      : [Flussi -> SUBSET Passi],
   pagamenti  : SUBSET Pagamenti,
   recapiti   : [Clienti -> SUBSET Recapiti],
   optOut     : [Clienti -> SUBSET Canali],
   preavviso  : [Fatture -> {"assente", "viva", "letta"}],
   avviso     : [Collegamenti -> {"assente", "viva", "letta"}]]

Presenti(d) == {f \in Fatture : d.stato[f] # "assente"}
InPosizione(d, p) == {f \in Presenti(d) : d.posizione[f] = p}

\* The reminders of the invoices in F that are still planned get cancelled.
Annulla(d, F) ==
  [d EXCEPT !.com = [c \in Comunicazioni |->
     IF c[1] \in F /\ @[c] = "programmata" THEN "annullata" ELSE @[c]]]

RegistratoCon(d, k) == \E p \in d.pagamenti : p.chiave = k
SommaImporti(P) == SommaSu([p \in P |-> p.importo], P)

Messaggio(tipo, F, C) == [tipo |-> tipo, fatture |-> F, comunicazioni |-> C]
NessunMessaggio == Messaggio("nessuno", {}, {})
-----------------------------------------------------------------------------
(***************************************************************************)
(* The cycle, phase 1: import of the invoices in the tax drawer.           *)
(***************************************************************************)
Visibile(f) ==
  /\ oggi - LOOKBACK_GIORNI <= Emissione[f]
  /\ Emissione[f] <= oggi - LATENZA_SDI_GIORNI

\* _flusso_default: the active flow, or the standard one at the first import.
ConFlusso(d) ==
  IF d.flusso # 0 THEN d
  ELSE [d EXCEPT !.flusso = 1, !.passi[1] = PassiDefault]

\* Fault: closed positions are offered to new invoices too.
PosizioniAperte_tutte(d, cliente) ==
  {p \in Fatture : d.statoPos[p] # "assente" /\ Debitore[p] = cliente}

PosizioniAperte(d, cliente) ==
  {p \in Fatture : d.statoPos[p] = "aperta" /\ Debitore[p] = cliente}

\* Fault: the import does not look for an open position.
PosizionePer_nuova(d, f) == f

PosizionePer(d, f) ==
  IF PosizioniAperte(d, Debitore[f]) # {}
  THEN CHOOSE p \in PosizioniAperte(d, Debitore[f]) : TRUE
  ELSE f

\* A new position is open, an existing one is left as it is; one reminder per
\* step of the flow, whatever its instant.
Importata(d, f) ==
  LET p == PosizionePer(d, f) IN
  [d EXCEPT !.stato[f] = "gestione",
            !.residuo[f] = Importo[f],
            !.posizione[f] = p,
            !.statoPos[p] = IF @ = "assente" THEN "aperta" ELSE @,
            !.com = [c \in Comunicazioni |->
                       IF c[1] = f /\ c[2] = d.flusso /\ c[3] \in d.passi[c[2]]
                       THEN "programmata" ELSE @[c]]]

(***************************************************************************)
(* Phase 2: movements, reconciliation, application of the payments.        *)
(***************************************************************************)
Aperta(d, f) == d.stato[f] \in StatiFattura \ STATI_TERMINALI

ResiduiAperti(d) == [f \in Fatture |-> IF Aperta(d, f) THEN d.residuo[f] ELSE 0]

MovimentoVisibile(m) ==
  oggi - LOOKBACK_GIORNI <= DataMovimento[m] /\ DataMovimento[m] <= oggi

\* _movimenti_non_ancora_allocati: what the payments registered under a key
\* of this movement, whatever their origin, leave of it.
Allocato(d, m) == SommaImporti({p \in d.pagamenti : p.chiave \in {m} \X Fatture})

\* Fault: the movements are offered whole again at every cycle.
Disponibili_interi(d) ==
  [m \in Movimenti |-> IF MovimentoVisibile(m) THEN Bonifico[m] ELSE 0]

Disponibili(d) ==
  [m \in Movimenti |->
     IF MovimentoVisibile(m) THEN Massimo(0, Bonifico[m] - Allocato(d, m)) ELSE 0]

\* The payments the cycle takes into account: one for an invoice that was not
\* among the open ones is only an anomaly.
Trovati(d) ==
  LET pagamenti == Riconcilia(ResiduiAperti(d), Disponibili(d))
  IN  [mf \in Abbinamenti |-> IF Aperta(d, mf[2]) THEN pagamenti[mf] ELSE 0]

Incassata(d, f, importo, chiave, origine) ==
  LET residuo == ResiduoDopoIncasso(d.residuo[f], importo) IN
  [d EXCEPT !.pagamenti = @ \cup {[chiave |-> chiave, fattura |-> f,
                                   importo |-> importo, origine |-> origine]},
            !.residuo[f] = residuo,
            !.stato[f] = StatoDopoPagamento(@, residuo)]

\* _applica_pagamento: an already registered key is skipped.
ConPagamento(d, m, f, importo) ==
  IF RegistratoCon(d, <<m, f>>) THEN d
  ELSE LET dopo == Incassata(d, f, importo, <<m, f>>, "riconciliazione") IN
       IF PuoRicevereSollecito(dopo.stato[f]) THEN dopo
       ELSE Annulla(dopo, {f})

\* _aggiorna_posizioni: it closes, it never reopens.
PosizioniAggiornate(d) ==
  [d EXCEPT !.statoPos =
     [p \in Fatture |->
        IF /\ @[p] # "assente"
           /\ StatoPosizione({d.stato[f] : f \in InPosizione(d, p)}) = "chiusa"
        THEN "chiusa" ELSE @[p]]]

(***************************************************************************)
(* Phase 3, MotoreInvii: expired pauses, escalations, due reminders.       *)
(***************************************************************************)
PausaScaduta(d, f) ==
  d.stato[f] = "pausa" /\ d.pausaFinoA[f] # Mai /\ d.pausaFinoA[f] <= oggi

PauseRiprese(d) ==
  [d EXCEPT !.stato = [f \in Fatture |-> IF PausaScaduta(d, f) THEN "gestione" ELSE @[f]],
            !.pausaFinoA = [f \in Fatture |-> IF PausaScaduta(d, f) THEN Mai ELSE @[f]]]

DaEscalare(d) ==
  {f \in Fatture : d.stato[f] = "gestione" /\ InEscalation(oggi, Scadenza[f])}

\* Fault: the escalation forgets the planned reminders.
Escalata_conPendenti(d, f) == [d EXCEPT !.stato[f] = "insoluto"]

Escalata(d, f) ==
  [Annulla(d, {f}) EXCEPT !.stato[f] = "insoluto"]

Dovuta(d, c) ==
  /\ d.com[c] = "programmata"
  /\ IstanteStep(Scadenza[c[1]], Offset[c[3]], Festivi) <= adesso

Raggiungibile(d, c) ==
  LET cliente == Debitore[c[1]] IN
  CanaleUtilizzabile(CanalePasso[c[3]], Pacchetto, d.recapiti[cliente], d.optOut[cliente])

DaInviare(d) ==
  {c \in Comunicazioni :
     Dovuta(d, c) /\ PuoRicevereSollecito(d.stato[c[1]]) /\ Raggiungibile(d, c)}

\* Fault: a reminder on an unusable channel is left as it is.
DovuteVagliate_senzaSalto(d) ==
  [d EXCEPT !.com = [c \in Comunicazioni |->
     IF Dovuta(d, c) /\ d.stato[c[1]] \in STATI_TERMINALI THEN "annullata" ELSE @[c]]]

\* The just-in-time check: of what is due, a paused invoice keeps it planned,
\* one that cannot be reminded loses it, an unusable channel skips it.
DovuteVagliate(d) ==
  LET scartate == {c \in Comunicazioni \ DaInviare(d) :
                     Dovuta(d, c) /\ d.stato[c[1]] # "pausa"}
  IN  [d EXCEPT !.com = [c \in Comunicazioni |->
         IF c \notin scartate THEN @[c]
         ELSE IF PuoRicevereSollecito(d.stato[c[1]]) THEN "saltata" ELSE "annullata"]]

\* consolida: one message per client and channel.
Gruppo(d, cliente, canale) ==
  {c \in DaInviare(d) : Debitore[c[1]] = cliente /\ CanalePasso[c[3]] = canale}

\* The total written in a message: one residual per reminder it carries.
TotaleMessaggio(d, C) == MapThenSumSet(LAMBDA c : d.residuo[c[1]], C)

Esito(consegnato) == IF consegnato THEN "inviata" ELSE "fallita"

\* Fault: of a consolidated message only one reminder is marked.
ConEsito_soloUno(d, C, esito) ==
  [d EXCEPT !.com[CHOOSE c \in C : TRUE] = esito]

ConEsito(d, C, esito) ==
  [d EXCEPT !.com = [c \in Comunicazioni |-> IF c \in C THEN esito ELSE @[c]]]

(***************************************************************************)
(* Phase 4: the proactive notices.  emetti creates a notice or revives one *)
(* that was read; a link that works again resolves its notice.             *)
(***************************************************************************)
Risolta(notifica) == IF notifica = "viva" THEN "letta" ELSE notifica

Notificate(d, attivi) ==
  [d EXCEPT
     !.avviso = [l \in Collegamenti |-> IF l \in attivi THEN Risolta(@[l]) ELSE "viva"],
     !.preavviso = [f \in Fatture |->
        IF d.stato[f] = "gestione" /\ EscalationImminente(oggi, Scadenza[f])
        THEN "viva" ELSE @[f]]]
-----------------------------------------------------------------------------
Init ==
  /\ db = DbVuoto /\ tx = DbVuoto
  /\ fase = "ferma"
  /\ collegamenti = {}
  /\ quota = [mf \in Abbinamenti |-> 0]
  /\ adesso = Inizio
  /\ partiti = [c \in Comunicazioni |-> 0]
  /\ ultimo = NessunMessaggio
  /\ azioni = 0 /\ cadute = 0

\* A step of the cycle that only works in its own transaction.
Lavora(prima, dopo, d) ==
  /\ fase = prima /\ fase' = dopo
  /\ tx' = d
  /\ ultimo' = NessunMessaggio
  /\ UNCHANGED <<db, collegamenti, adesso, partiti, azioni, cadute>>

\* A step that hands a message to the channel; C are the reminders delivered.
Manda(messaggio, C) ==
  /\ ultimo' = messaggio
  /\ partiti' = [c \in Comunicazioni |-> partiti[c] + (IF c \in C THEN 1 ELSE 0)]

AvviaCiclo(attivi) ==
  /\ fase = "ferma"
  /\ fase' = IF "ade" \in attivi THEN "import" ELSE "movimenti"
  /\ collegamenti' = attivi
  /\ ultimo' = NessunMessaggio
  /\ UNCHANGED <<db, tx, quota, adesso, partiti, azioni, cadute>>

ImportaFattura(f) ==
  /\ Visibile(f) /\ tx.stato[f] = "assente"
  /\ Lavora("import", "import", Importata(ConFlusso(tx), f))
  /\ UNCHANGED quota

FineImport ==
  /\ \A f \in Fatture : Visibile(f) => tx.stato[f] # "assente"
  /\ Lavora("import", "movimenti", tx)
  /\ UNCHANGED quota

\* Without the PSD2 consent there is nothing to reconcile.  That the answer is
\* always in Quote is shown by the absence of deadlock.
RilevaIncassi ==
  /\ IF "psd2" \in collegamenti
     THEN Trovati(tx) \in Quote /\ quota' = Trovati(tx)
     ELSE UNCHANGED quota
  /\ Lavora("movimenti", "incassi", tx)

ApplicaPagamento(m, f) ==
  /\ quota[<<m, f>>] > 0
  /\ quota' = [quota EXCEPT ![<<m, f>>] = 0]
  /\ Lavora("incassi", "incassi", ConPagamento(tx, m, f, quota[<<m, f>>]))

AggiornaPosizioni ==
  /\ \A mf \in Abbinamenti : quota[mf] = 0
  /\ Lavora("incassi", "pause", PosizioniAggiornate(tx))
  /\ UNCHANGED quota

RiprendiPauseScadute ==
  /\ Lavora("pause", "escalation", PauseRiprese(tx))
  /\ UNCHANGED quota

\* The two mails of an escalation leave before the state changes; whether
\* they are delivered does not matter to it.
EseguiEscalation(f) ==
  /\ fase = "escalation"
  /\ f \in DaEscalare(tx)
  /\ tx' = Escalata(tx, f)
  /\ Manda(Messaggio("escalation", {f}, {}), {})
  /\ UNCHANGED <<db, fase, collegamenti, quota, adesso, azioni, cadute>>

\* Fault: reminders are examined before the escalations are finished.
VagliaDovute_anticipata ==
  /\ Lavora("escalation", "invii", DovuteVagliate(tx))
  /\ UNCHANGED quota

VagliaDovute ==
  /\ DaEscalare(tx) = {}
  /\ Lavora("escalation", "invii", DovuteVagliate(tx))
  /\ UNCHANGED quota

InviaGruppo(cliente, canale, consegnato) ==
  LET gruppo == Gruppo(tx, cliente, canale) IN
  /\ fase = "invii"
  /\ gruppo # {}
  /\ tx' = ConEsito(tx, gruppo, Esito(consegnato))
  /\ Manda(Messaggio("sollecito", {c[1] : c \in gruppo}, gruppo),
           IF consegnato THEN gruppo ELSE {})
  /\ UNCHANGED <<db, fase, collegamenti, quota, adesso, azioni, cadute>>

\* The notices, then the commit of the whole cycle.
ConcludiCiclo ==
  /\ fase = "invii" /\ fase' = "ferma"
  /\ DaInviare(tx) = {}
  /\ tx' = Notificate(tx, collegamenti)
  /\ db' = tx'
  /\ collegamenti' = {}
  /\ ultimo' = NessunMessaggio
  /\ UNCHANGED <<quota, adesso, partiti, azioni, cadute>>

\* An exception (a provider, a constraint, the commit) or the death of the
\* process: the transaction is rolled back, what was sent stays sent.
Caduta ==
  /\ fase # "ferma" /\ fase' = "ferma"
  /\ cadute < MaxCadute /\ cadute' = cadute + 1
  /\ tx' = db
  /\ quota' = [mf \in Abbinamenti |-> 0]
  /\ collegamenti' = {}
  /\ ultimo' = NessunMessaggio
  /\ UNCHANGED <<db, adesso, partiti, azioni>>

PassoCiclo ==
  \/ \E f \in Fatture : ImportaFattura(f)
  \/ FineImport
  \/ RilevaIncassi
  \/ \E m \in Movimenti, f \in Fatture : ApplicaPagamento(m, f)
  \/ AggiornaPosizioni
  \/ RiprendiPauseScadute
  \/ \E f \in Fatture : EseguiEscalation(f)
  \/ VagliaDovute
  \/ \E cl \in Clienti, k \in Canali, b \in BOOLEAN : InviaGruppo(cl, k, b)
  \/ ConcludiCiclo

-----------------------------------------------------------------------------
(***************************************************************************)
(* The confirmed actions of the operator: one transaction each.            *)
(***************************************************************************)
Richiesta(d) ==
  /\ fase = "ferma"
  /\ azioni < MaxAzioni /\ azioni' = azioni + 1
  /\ db' = d /\ tx' = d
  /\ UNCHANGED <<fase, collegamenti, quota, adesso>>

RichiestaMuta(d) ==
  /\ Richiesta(d)
  /\ ultimo' = NessunMessaggio
  /\ UNCHANGED <<partiti, cadute>>

ConStato(d, f, stato, fino) == [d EXCEPT !.stato[f] = stato, !.pausaFinoA[f] = fino]

\* Fault: any invoice of the tenant can be paused.
PausaFattura_senzaControllo(f, fino) ==
  /\ db.stato[f] # "assente"
  /\ RichiestaMuta(ConStato(db, f, "pausa", fino))

PausaFattura(f, fino) ==
  /\ db.stato[f] \in STATI_CREDITO_APERTO
  /\ RichiestaMuta(ConStato(db, f, "pausa", fino))

RiprendiFattura(f) ==
  /\ db.stato[f] = "pausa"
  /\ RichiestaMuta(ConStato(db, f, "gestione", Mai))

AnnullaComunicazione(c) ==
  /\ db.com[c] = "programmata"
  /\ RichiestaMuta([db EXCEPT !.com[c] = "annullata"])

ForzaAmmessa(c) ==
  /\ db.com[c] = "programmata"
  /\ db.stato[c[1]] = "gestione"
  /\ Raggiungibile(db, c)

Forzato(c) == Messaggio("forzato", {c[1]}, {c})

ForzaComunicazione(c, consegnato) ==
  /\ ForzaAmmessa(c)
  /\ Richiesta([db EXCEPT !.com[c] = Esito(consegnato)])
  /\ Manda(Forzato(c), IF consegnato THEN {c} ELSE {})
  /\ UNCHANGED cadute

\* The forced reminder leaves and the request's own commit is lost.
ForzaturaPersa(c) ==
  /\ ForzaAmmessa(c)
  /\ cadute < MaxCadute /\ cadute' = cadute + 1
  /\ Richiesta(db)
  /\ Manda(Forzato(c), {c})

\* Only a payment that settles the invoice updates its position, and it may
\* leave it open.
PagataAMano(d, f, importo, chiave) ==
  LET dopo == Incassata(d, f, importo, chiave, "manuale")
      p == d.posizione[f]
      stati == {dopo.stato[g] : g \in InPosizione(dopo, p)}
  IN  IF dopo.stato[f] # "saldata" THEN dopo
      ELSE [Annulla(dopo, {f}) EXCEPT !.statoPos[p] = StatoPosizione(stati)]

\* Fault: an invoice handed to debt recovery takes payments too.
RegistraPagamento_ancheInsoluta(f, importo, chiave) ==
  /\ ~RegistratoCon(db, chiave)
  /\ db.stato[f] \in STATI_CREDITO_APERTO \cup {"insoluto"}
  /\ RichiestaMuta(PagataAMano(db, f, importo, chiave))

\* A known key answers "already registered", whatever the invoice: nothing
\* changes.
RegistraPagamento(f, importo, chiave) ==
  /\ ~RegistratoCon(db, chiave)
  /\ db.stato[f] \in STATI_CREDITO_APERTO
  /\ RichiestaMuta(PagataAMano(db, f, importo, chiave))

\* Contacts and opt-outs as they are after the fields that were passed.  A
\* client is known from the import of its first invoice.
ConRecapiti(d, cliente, recapiti, optOut) ==
  [d EXCEPT !.recapiti[cliente] = recapiti, !.optOut[cliente] = optOut]

AggiornaRecapiti(cliente, recapiti, optOut) ==
  /\ \E f \in Presenti(db) : Debitore[f] = cliente
  /\ RichiestaMuta(ConRecapiti(db, cliente, recapiti, optOut))

InFuturo(c) == IstanteStep(Scadenza[c[1]], Offset[c[3]], Festivi) > adesso

\* The flow of the tenant becomes "passi"; on the invoices in F what was planned
\* is cancelled and the new steps are planned only if still to come.
Riprogrammata(d, F, passi) ==
  LET nuovo == d.flusso + 1 IN
  [Annulla(d, F) EXCEPT
     !.flusso = nuovo,
     !.passi[nuovo] = passi,
     !.com = [c \in Comunicazioni |->
        IF c[1] \in F /\ c[2] = nuovo /\ c[3] \in passi /\ InFuturo(c)
        THEN "programmata" ELSE @[c]]]

\* Fault: reminders of paused invoices stay under the replaced version.
FlussoSostituito_soloGestione(d, passi) ==
  Riprogrammata(d, {f \in Fatture : d.stato[f] = "gestione"}, passi)

\* _riprogramma_comunicazioni looks at the open credits.
FlussoSostituito(d, passi) ==
  Riprogrammata(d, {f \in Fatture : d.stato[f] \in STATI_CREDITO_APERTO}, passi)

SostituisciFlusso(passi) ==
  /\ Pacchetto \in PACCHETTI_CON_FLUSSO_PERSONALIZZABILE
  /\ passi # {}
  /\ \A p \in passi : CanalePasso[p] \in CANALI_PER_PACCHETTO[Pacchetto]
  /\ db.flusso < MaxFlussi
  /\ RichiestaMuta(FlussoSostituito(db, passi))

Lette(d, F, L) ==
  [d EXCEPT !.preavviso = [f \in Fatture |-> IF f \in F THEN "letta" ELSE @[f]],
            !.avviso = [l \in Collegamenti |-> IF l \in L THEN "letta" ELSE @[l]]]

\* The acknowledgement of delivered notices; a read one is left alone.
MarcaLette(F, L) ==
  /\ \A f \in F : db.preavviso[f] = "viva"
  /\ \A l \in L : db.avviso[l] = "viva"
  /\ F # {} \/ L # {}
  /\ RichiestaMuta(Lette(db, F, L))

Azione ==
  \/ \E f \in Fatture, g \in FinePausa : PausaFattura(f, g)
  \/ \E f \in Fatture : PauseSenzaData /\ PausaFattura(f, Mai)
  \/ \E f \in Fatture : RiprendiFattura(f)
  \/ \E c \in Comunicazioni : AnnullaComunicazione(c)
  \/ \E c \in Comunicazioni, b \in BOOLEAN : ForzaComunicazione(c, b)
  \/ \E c \in Comunicazioni : ForzaturaPersa(c)
  \/ \E f \in Fatture, i \in ImportiManuali, k \in ChiaviManuali : RegistraPagamento(f, i, k)
  \/ \E cl \in Clienti, r \in NuoviRecapiti, o \in NuoviOptOut : AggiornaRecapiti(cl, r, o)
  \/ \E s \in NuoviFlussi : SostituisciFlusso(s)
  \/ \E F \in SUBSET Fatture, L \in SUBSET Collegamenti : MarcaLette(F, L)

-----------------------------------------------------------------------------
PassaIlTempo ==
  /\ fase = "ferma"
  /\ \E i \in Istanti :
       /\ i > adesso /\ \A j \in Istanti : j > adesso => i <= j
       /\ adesso' = i
  /\ ultimo' = NessunMessaggio
  /\ UNCHANGED <<db, tx, fase, collegamenti, quota, partiti, azioni, cadute>>

Next ==
  \/ \E attivi \in StatiCollegamenti : AvviaCiclo(attivi)
  \/ PassoCiclo
  \/ Caduta
  \/ Azione
  \/ PassaIlTempo

Spec == Init /\ [][Next]_vars

-----------------------------------------------------------------------------
(***************************************************************************)
(* Properties.                                                             *)
(***************************************************************************)
TypeOK ==
  /\ db \in Database /\ tx \in Database
  /\ fase \in Fasi
  /\ collegamenti \subseteq Collegamenti
  /\ quota \in Quote
  /\ adesso \in Istanti
  /\ partiti \in [Comunicazioni -> Nat]
  /\ ultimo \in [tipo : {"nessuno", "escalation", "sollecito", "forzato"},
                 fatture : SUBSET Fatture, comunicazioni : SUBSET Comunicazioni]
  /\ azioni \in 0 .. MaxAzioni /\ cadute \in 0 .. MaxCadute

\* US-08, "never remind who has paid": an invoice that left the flow, by
\* payment or by escalation, has no reminder left planned, whichever of the
\* cycle and the operator made it leave and whatever flow it was under.
SenzaPendenti(d) ==
  \A c \in Comunicazioni :
    d.stato[c[1]] \in STATI_TERMINALI => d.com[c] # "programmata"

NessunSollecitoPendente == SenzaPendenti(db) /\ SenzaPendenti(tx)

\* "The new version replaces every other" (azioni.py, sostituisci_flusso): what
\* is still to be sent was planned by the active version of the flow, also for
\* invoices that were paused when it was replaced.
DelFlussoAttivo(d) ==
  \A c \in Comunicazioni : d.com[c] = "programmata" => c[2] = d.flusso

SoloFlussoAttivo == DelFlussoAttivo(db) /\ DelFlussoAttivo(tx)

\* A closed position holds no open invoice: the import never adds to one, and
\* neither the cycle nor a manual payment closes one too early.
ChiuseSenzaCrediti(d) ==
  \A f \in Presenti(d) :
    d.statoPos[d.posizione[f]] = "chiusa" => d.stato[f] \in STATI_TERMINALI

PosizioniCoerenti == ChiuseSenzaCrediti(db) /\ ChiuseSenzaCrediti(tx)

\* A client has at most one open position, so a new invoice has one place to
\* go (the import keeps a single open position per client in its map).
UnaAperta(d) ==
  \A p, q \in Fatture :
    /\ d.statoPos[p] = "aperta" /\ d.statoPos[q] = "aperta"
    /\ Debitore[p] = Debitore[q]
    => p = q

UnaPosizioneAperta == UnaAperta(db) /\ UnaAperta(tx)

\* The residual is what the registered payments, of both origins, leave of the
\* amount, and an invoice is settled exactly when it is zero.
Incassato(d, f) == SommaImporti({p \in d.pagamenti : p.fattura = f})

ContabilitaResiduo ==
  \A f \in Presenti(db) :
    /\ db.residuo[f] = Massimo(0, Importo[f] - Incassato(db, f))
    /\ db.stato[f] = "saldata" <=> db.residuo[f] = 0

\* However often the cycle is run or lost, what it registers from a movement
\* never exceeds the movement.
IncassiEntroIlMovimento ==
  \A m \in Movimenti :
    SommaImporti({p \in db.pagamenti : p.origine = "riconciliazione"
                                       /\ p.chiave \in {m} \X Fatture}) <= Bonifico[m]

\* The just-in-time check: a reminder of the cycle concerns invoices still
\* under management, with something to pay, planned for no later than now and
\* not yet at T+45, on a channel the client can be reached on; a forced one
\* may come early and late but is bound by the rest.
SollecitoLegittimo ==
  \A c \in ultimo.comunicazioni :
    /\ tx.stato[c[1]] = "gestione" /\ tx.residuo[c[1]] > 0
    /\ Raggiungibile(tx, c)
    /\ ultimo.tipo = "sollecito" =>
         /\ IstanteStep(Scadenza[c[1]], Offset[c[3]], Festivi) <= adesso
         /\ ~InEscalation(oggi, Scadenza[c[1]])

\* The log of the reminders tells the truth: what it records as sent was
\* delivered, and what was delivered is recorded, except for one delivery per
\* lost transaction.  In particular nothing is delivered twice without a loss.
RegistroVeritiero ==
  \A c \in Comunicazioni :
    /\ db.com[c] = "inviata" \/ tx.com[c] = "inviata" => partiti[c] >= 1
    /\ partiti[c] <= cadute + (IF tx.com[c] = "inviata" THEN 1 ELSE 0)

\* History is permanent: no committed step reopens a settled or escalated
\* invoice, revives a reminder that left "programmata", forgets a payment or
\* reopens a closed position, whatever the cycle did in its transaction.
Permane(d, e) ==
  /\ \A f \in Fatture : d.stato[f] \in STATI_TERMINALI => e.stato[f] = d.stato[f]
  /\ \A c \in Comunicazioni :
       d.com[c] \notin {"assente", "programmata"} => e.com[c] = d.com[c]
  /\ d.pagamenti \subseteq e.pagamenti
  /\ \A p \in Fatture : d.statoPos[p] = "chiusa" => e.statoPos[p] = "chiusa"

StoriaPermanente == [][Permane(db, db')]_vars

\* "Safely re-runnable" (sync.py:5): a cycle that found both links active
\* leaves nothing for a second one at the same instant to import, allocate,
\* resume, escalate or send.
NullaDaFare ==
  /\ \A f \in Fatture : Visibile(f) => db.stato[f] # "assente"
  /\ \A mf \in Abbinamenti : Trovati(db)[mf] = 0
  /\ DaEscalare(db) = {}
  /\ \A f \in Fatture : ~PausaScaduta(db, f)
  /\ \A c \in Comunicazioni : Dovuta(db, c) => db.stato[c[1]] = "pausa"

Rieseguibile ==
  [][ConcludiCiclo /\ collegamenti = Collegamenti => NullaDaFare']_vars

(***************************************************************************)
(* What is promised of an invoice, implemented: of the rows of a tenant,   *)
(* what is committed of each invoice and of its reminders.                 *)
(***************************************************************************)
Nello(stato, f) == {vp \in Flussi \X Passi : db.com[<<f, vp[1], vp[2]>>] = stato}

Promessa ==
  INSTANCE VitaFattura WITH
    Solleciti <- Flussi \X Passi,
    stato <- db.stato,
    residuo <- db.residuo,
    daInviare <- [f \in Fatture |-> Nello("programmata", f)],
    inviati <- [f \in Fatture |-> Nello("inviata", f)]

\* Every commit, of a cycle or of a request, moves each invoice by a step of
\* its promised life; everything else the service does is invisible there.
ImplementaVita == Promessa!Spec

(***************************************************************************)
(* Liveness.  The daily call of Mind keeps starting cycles, a started      *)
(* cycle goes on unless it is lost, and time passes whatever the service   *)
(* does (cycles and requests only hold the clock while they run).          *)
(***************************************************************************)
Fairness ==
  /\ WF_vars(\E attivi \in StatiCollegamenti : AvviaCiclo(attivi))
  /\ WF_vars(PassoCiclo)
  /\ SF_vars(PassaIlTempo)

FairSpec == Spec /\ Fairness

\* No invoice is reminded for ever: one under management, or paused until a
\* date, ends up paid, handed to debt recovery or paused without a date,
\* although no cycle may run on the very day T+45 and some cycles are lost.
OgniFatturaEsce ==
  \A f \in Fatture :
    db.stato[f] \in STATI_CREDITO_APERTO
    ~> \/ db.stato[f] \in STATI_TERMINALI
       \/ db.stato[f] = "pausa" /\ db.pausaFinoA[f] = Mai

\* A position whose invoices have all left the flow is closed sooner or later,
\* although a cycle closes positions before it escalates invoices.
PosizioneFinitaSiChiude ==
  \A p \in Fatture :
    (/\ db.statoPos[p] = "aperta"
     /\ \A f \in InPosizione(db, p) : db.stato[f] \in STATI_TERMINALI)
    ~> (\/ db.statoPos[p] = "chiusa"
        \/ \E f \in InPosizione(db, p) : db.stato[f] \in STATI_CREDITO_APERTO)

-----------------------------------------------------------------------------
(***************************************************************************)
(* A statement of the docs that the code does not keep.                    *)
(***************************************************************************)

\* domain/stati.py:58, "Pagamento parziale -> la fattura resta dov'e': il flusso
\* prosegue con l'importo aggiornato, salvo pausa", and services/invii.py:225,
\* "in Pausa lo step resta programmato e ripartira' alla ripresa": the cycle
\* cancels reminders only of invoices that leave the flow.
SollecitiSopravvivonoAlParziale ==
  [][\A c \in Comunicazioni :
       /\ fase # "ferma"
       /\ tx.com[c] = "programmata" /\ tx'.com[c] = "annullata"
       => tx'.stato[c[1]] \in STATI_TERMINALI]_vars
=============================================================================
