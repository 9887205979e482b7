------------------------- MODULE IncassiConcorrenti -------------------------
(***************************************************************************)
(* The requests of the operator while the daily cycle's transaction is     *)
(* open, and among themselves (adapters/db/session.py: transactions of     *)
(* PostgreSQL at READ COMMITTED, no versions on the rows, no explicit      *)
(* locks).                                                                 *)
(*                                                                         *)
(* A session keeps the rows it has read in memory and at the flush writes  *)
(* the columns it changed (the "dirty" cells), with the values computed    *)
(* from what it had read; a row it wrote stays locked until its commit.    *)
(* What happens in memory is given by the operators of Incassi; here is    *)
(* when each session reads, when it writes, and over what.                 *)
(*                                                                         *)
(* The cycle reads at the start of each phase ("tx" is what it has in      *)
(* memory, "mie" the cells it wrote) and loads the reminders of an invoice *)
(* when it needs them.  One cycle runs at a time; contacts, flow and       *)
(* notices are changed between cycles only (module Incassi).               *)
(***************************************************************************)
EXTENDS Incassi

CONSTANT Sessioni  \* the operator's requests that may be open together

VARIABLES
  mie,       \* cells written by the cycle and not yet committed
  sessione,  \* [Sessioni -> ...]: what each open request does and has in memory
  pagate     \* the settled invoices when the reminders of the cycle were read

varsC == <<vars, mie, sessione, pagate>>

(***************************************************************************)
(* Rows, cells, locks.                                                     *)
(***************************************************************************)
ColonneFattura == {"stato", "residuo", "pausaFinoA"}
Colonne == ColonneFattura \cup {"posizione", "statoPos", "com"}

Celle(d, e) == UNION {{<<k, r>> : r \in {q \in DOMAIN d[k] : d[k][q] # e[k][q]}} : k \in Colonne}

Riga(cella) == IF cella[1] \in ColonneFattura THEN <<"fattura", cella[2]>> ELSE cella
Righe(S) == {Riga(cella) : cella \in S}

\* The rows of d, with the cells S as they are in e and the payments e adds.
\* The flow and its steps are created by the first import only.
Sovrascritto(d, e, S) ==
  LET Colonna(k) == [r \in DOMAIN d[k] |-> IF <<k, r>> \in S THEN e[k][r] ELSE d[k][r]]
  IN  [d EXCEPT !.stato = Colonna("stato"), !.residuo = Colonna("residuo"),
                !.pausaFinoA = Colonna("pausaFinoA"), !.posizione = Colonna("posizione"),
                !.statoPos = Colonna("statoPos"), !.com = Colonna("com"),
                !.pagamenti = @ \cup e.pagamenti,
                !.flusso = e.flusso, !.passi = e.passi,
                !.preavviso = e.preavviso, !.avviso = e.avviso]

\* What a new query of the cycle returns: the committed rows and its own.
Fresca == Sovrascritto(db, tx, mie)

\* Memory of the cycle when the reminders of an invoice are loaded.
ConSollecitiFreschi == [tx EXCEPT !.com = Fresca.com]

-----------------------------------------------------------------------------
(***************************************************************************)
(* The cycle.  A row held by a request that is about to commit makes the   *)
(* cycle wait.                                                             *)
(***************************************************************************)
Libera == [passo |-> "libera"]
Trattenute == {<<"fattura", sessione[s].op.fattura>> : s \in {q \in Sessioni :
                 sessione[q].passo = "pronta" /\ sessione[q].op.tipo = "paga"}}

\* From the rows "letta" of its memory the cycle computes "nuova" and writes
\* the difference.
Scrive(letta, nuova) ==
  /\ mie' = mie \cup Celle(letta, nuova)
  /\ Righe(Celle(letta, nuova)) \cap Trattenute = {}

\* The last write of a phase, and the queries of the next one.
FaseSuccessiva(prima, dopo, letta, nuova) ==
  /\ fase = prima /\ fase' = dopo
  /\ Scrive(letta, nuova)
  /\ tx' = Sovrascritto(db, nuova, mie')

CicloMuto ==
  /\ ultimo' = NessunMessaggio
  /\ UNCHANGED <<db, collegamenti, adesso, partiti, azioni, cadute, sessione>>

AvviaCicloC(attivi) == AvviaCiclo(attivi) /\ UNCHANGED <<mie, sessione, pagate>>

\* The open positions were read before the loop over the invoices.
ImportaFatturaC(f) ==
  /\ fase = "import" /\ fase' = "import"
  /\ Visibile(f) /\ tx.stato[f] = "assente"
  /\ tx' = Importata(ConFlusso(tx), f)
  /\ Scrive(tx, tx')
  /\ CicloMuto /\ UNCHANGED <<quota, pagate>>

FineImportC ==
  /\ \A f \in Fatture : Visibile(f) => tx.stato[f] # "assente"
  /\ FaseSuccessiva("import", "movimenti", tx, tx)
  /\ CicloMuto /\ UNCHANGED <<quota, pagate>>

RilevaIncassiC ==
  /\ FaseSuccessiva("movimenti", "incassi", tx, tx)
  /\ quota' = IF "psd2" \in collegamenti THEN Trovati(tx') ELSE quota
  /\ CicloMuto /\ UNCHANGED pagate

\* A key that a request registered since the payments were read makes the
\* insert fail (CadutaC).
ApplicaPagamentoC(m, f) ==
  /\ fase = "incassi" /\ fase' = "incassi"
  /\ quota[<<m, f>>] > 0
  /\ RegistratoCon(db, <<m, f>>) => RegistratoCon(tx, <<m, f>>)
  /\ quota' = [quota EXCEPT ![<<m, f>>] = 0]
  /\ tx' = ConPagamento(ConSollecitiFreschi, m, f, quota[<<m, f>>])
  /\ Scrive(ConSollecitiFreschi, tx')
  /\ CicloMuto /\ UNCHANGED pagate

AggiornaPosizioniC ==
  /\ \A mf \in Abbinamenti : quota[mf] = 0
  /\ FaseSuccessiva("incassi", "pause", Fresca, PosizioniAggiornate(Fresca))
  /\ CicloMuto /\ UNCHANGED <<quota, pagate>>

RiprendiPauseScaduteC ==
  /\ FaseSuccessiva("pause", "escalation", tx, PauseRiprese(tx))
  /\ CicloMuto /\ UNCHANGED <<quota, pagate>>

EseguiEscalationC(f) ==
  /\ fase = "escalation"
  /\ f \in DaEscalare(tx)
  /\ tx' = Escalata(ConSollecitiFreschi, f)
  /\ Scrive(ConSollecitiFreschi, tx')
  /\ Manda(Messaggio("escalation", {f}, {}), {})
  /\ UNCHANGED <<db, fase, collegamenti, quota, adesso, azioni, cadute, sessione, pagate>>

\* Fault: the reminders use the rows the escalations had read.
VagliaDovuteC_daMemoria ==
  /\ DaEscalare(tx) = {}
  /\ fase = "escalation" /\ fase' = "invii"
  /\ tx' = DovuteVagliate(tx)
  /\ Scrive(tx, tx')
  /\ pagate' = {f \in Fatture : db.stato[f] = "saldata"}
  /\ CicloMuto /\ UNCHANGED quota

\* The rows of the reminders are read and examined in one go.
VagliaDovuteC ==
  /\ DaEscalare(tx) = {}
  /\ FaseSuccessiva("escalation", "invii", Fresca, DovuteVagliate(Fresca))
  /\ pagate' = {f \in Fatture : db.stato[f] = "saldata"}
  /\ CicloMuto /\ UNCHANGED quota

InviaGruppoC(cliente, canale, consegnato) ==
  LET gruppo == Gruppo(tx, cliente, canale) IN
  /\ fase = "invii"
  /\ gruppo # {}
  /\ tx' = ConEsito(tx, gruppo, Esito(consegnato))
  /\ Scrive(tx, tx')
  /\ Manda(Messaggio("sollecito", {c[1] : c \in gruppo}, gruppo),
           IF consegnato THEN gruppo ELSE {})
  /\ UNCHANGED <<db, fase, collegamenti, quota, adesso, azioni, cadute, sessione, pagate>>

ConcludiCicloC ==
  /\ fase = "invii" /\ fase' = "ferma"
  /\ DaInviare(tx) = {}
  /\ db' = Notificate(Fresca, collegamenti)
  /\ tx' = db' /\ mie' = {}
  /\ collegamenti' = {} /\ pagate' = {}
  /\ ultimo' = NessunMessaggio
  /\ UNCHANGED <<quota, adesso, partiti, azioni, cadute, sessione>>

CadutaC == Caduta /\ mie' = {} /\ pagate' = {} /\ UNCHANGED sessione

PassoCicloC ==
  \/ \E f \in Fatture : ImportaFatturaC(f) \/ EseguiEscalationC(f)
  \/ FineImportC \/ RilevaIncassiC \/ AggiornaPosizioniC
  \/ \E m \in Movimenti, f \in Fatture : ApplicaPagamentoC(m, f)
  \/ RiprendiPauseScaduteC \/ VagliaDovuteC
  \/ \E cl \in Clienti, k \in Canali, b \in BOOLEAN : InviaGruppoC(cl, k, b)
  \/ ConcludiCicloC

-----------------------------------------------------------------------------
(***************************************************************************)
(* The requests: read (and answer 404 or 409, which changes nothing), then *)
(* for a payment the flush of the invoice and the loading of its reminders *)
(* and position, for a forced reminder the message, then the commit.       *)
(***************************************************************************)
Operazioni ==
  [tipo : {"paga"}, fattura : Fatture, importo : ImportiManuali, chiave : ChiaviManuali]
  \cup [tipo : {"pausa"}, fattura : Fatture, fino : FinePausa]
  \cup [tipo : {"riprendi"}, fattura : Fatture]
  \cup [tipo : {"annulla"}, com : Comunicazioni]
  \cup [tipo : {"forza"}, com : Comunicazioni, consegnato : BOOLEAN]

Ammessa(o) ==
  \/ /\ o.tipo = "paga"
     /\ ~RegistratoCon(db, o.chiave) /\ db.stato[o.fattura] \in STATI_CREDITO_APERTO
  \/ o.tipo = "pausa" /\ db.stato[o.fattura] \in STATI_CREDITO_APERTO
  \/ o.tipo = "riprendi" /\ db.stato[o.fattura] = "pausa"
  \/ o.tipo = "annulla" /\ db.com[o.com] = "programmata"
  \/ o.tipo = "forza" /\ ForzaAmmessa(o.com)

Eseguita(d, o) ==
  CASE o.tipo = "paga" -> PagataAMano(d, o.fattura, o.importo, o.chiave)
    [] o.tipo = "pausa" -> ConStato(d, o.fattura, "pausa", o.fino)
    [] o.tipo = "riprendi" -> ConStato(d, o.fattura, "gestione", Mai)
    [] o.tipo = "annulla" -> [d EXCEPT !.com[o.com] = "annullata"]
    [] o.tipo = "forza" -> [d EXCEPT !.com[o.com] = Esito(o.consegnato)]

RichiestaFerma ==
  UNCHANGED <<tx, fase, collegamenti, quota, adesso, cadute, mie, pagate>>

Chiede(s, o) ==
  /\ sessione[s] = Libera
  /\ azioni < MaxAzioni /\ azioni' = azioni + 1
  /\ Ammessa(o)
  /\ sessione' = [sessione EXCEPT ![s] = [passo |-> "letta", op |-> o, letto |-> db]]
  /\ RichiestaFerma /\ UNCHANGED <<db, partiti, ultimo>>

\* The new residual and state of the invoice are computed from what was read
\* of it and flushed; reminders, position and its other invoices are read now.
RegistraIncasso(s) ==
  LET o == sessione[s].op
      f == o.fattura
      letto == sessione[s].letto IN
  /\ sessione[s].passo = "letta" /\ o.tipo = "paga"
  /\ <<"fattura", f>> \notin Righe(mie) \cup Trattenute
  /\ sessione' = [sessione EXCEPT ![s].passo = "pronta",
       ![s].letto = [db EXCEPT !.stato[f] = letto.stato[f], !.residuo[f] = letto.residuo[f],
                               !.pausaFinoA[f] = letto.pausaFinoA[f]]]
  /\ RichiestaFerma /\ UNCHANGED <<db, partiti, ultimo, azioni>>

Spedisce(s) ==
  LET o == sessione[s].op IN
  /\ sessione[s].passo = "letta" /\ o.tipo = "forza"
  /\ sessione' = [sessione EXCEPT ![s].passo = "pronta"]
  /\ Manda(Forzato(o.com), IF o.consegnato THEN {o.com} ELSE {})
  /\ RichiestaFerma /\ UNCHANGED <<db, azioni>>

Pronta(s) ==
  sessione[s].passo = IF sessione[s].op.tipo \in {"paga", "forza"} THEN "pronta" ELSE "letta"

\* The key is registered, or the cycle has inserted it and not committed yet.
ChiaveOccupata(s) ==
  /\ sessione[s].op.tipo = "paga"
  /\ \E d \in {db, tx} : RegistratoCon(d, sessione[s].op.chiave)

\* The rows a request commits: its cells over what is committed by now.
Confermato(s) ==
  LET nuovo == Eseguita(sessione[s].letto, sessione[s].op)
  IN  [Sovrascritto(db, nuovo, Celle(sessione[s].letto, nuovo)) EXCEPT
         !.flusso = db.flusso, !.passi = db.passi,
         !.preavviso = db.preavviso, !.avviso = db.avviso]

RigheRichiesta(s) ==
  Righe(Celle(sessione[s].letto, Eseguita(sessione[s].letto, sessione[s].op)))

\* Fault: nothing stops two payments with one key.
Conferma_senzaVincolo(s) ==
  /\ sessione[s] # Libera /\ Pronta(s)
  /\ RigheRichiesta(s) \cap Righe(mie) = {}
  /\ db' = Confermato(s)
  /\ tx' = IF fase = "ferma" THEN db' ELSE tx
  /\ sessione' = [sessione EXCEPT ![s] = Libera]
  /\ UNCHANGED <<fase, collegamenti, quota, adesso, partiti, ultimo, azioni, cadute, mie, pagate>>

\* Fault: the payment is refused, the new residual stays.
Conferma_senzaRollback(s) ==
  /\ sessione[s] # Libera /\ Pronta(s)
  /\ RigheRichiesta(s) \cap Righe(mie) = {}
  /\ db' = IF ChiaveOccupata(s) THEN [Confermato(s) EXCEPT !.pagamenti = db.pagamenti]
           ELSE Confermato(s)
  /\ tx' = IF fase = "ferma" THEN db' ELSE tx
  /\ sessione' = [sessione EXCEPT ![s] = Libera]
  /\ UNCHANGED <<fase, collegamenti, quota, adesso, partiti, ultimo, azioni, cadute, mie, pagate>>

\* The commit, once no row it writes is held by the cycle.
Conferma(s) ==
  /\ sessione[s] # Libera /\ Pronta(s)
  /\ RigheRichiesta(s) \cap Righe(mie) = {}
  /\ ~ChiaveOccupata(s)
  /\ db' = Confermato(s)
  /\ tx' = IF fase = "ferma" THEN db' ELSE tx
  /\ sessione' = [sessione EXCEPT ![s] = Libera]
  /\ UNCHANGED <<fase, collegamenti, quota, adesso, partiti, ultimo, azioni, cadute, mie, pagate>>

\* The IntegrityError of a key registered in the meantime, the victim of a
\* deadlock with the cycle, any other exception: rollback and 500.
RichiestaFallita(s) ==
  /\ sessione[s] # Libera
  /\ sessione' = [sessione EXCEPT ![s] = Libera]
  /\ RichiestaFerma /\ UNCHANGED <<db, partiti, ultimo, azioni>>

-----------------------------------------------------------------------------
InitC ==
  /\ Init
  /\ mie = {} /\ pagate = {}
  /\ sessione = [s \in Sessioni |-> Libera]

\* A request lasts less than the time between two instants of the model.
PassaIlTempoC ==
  /\ \A s \in Sessioni : sessione[s] = Libera
  /\ PassaIlTempo
  /\ UNCHANGED <<mie, sessione, pagate>>

NextC ==
  \/ \E attivi \in StatiCollegamenti : AvviaCicloC(attivi)
  \/ PassoCicloC \/ CadutaC
  \/ \E s \in Sessioni, o \in Operazioni : Chiede(s, o)
  \/ \E s \in Sessioni :
       RegistraIncasso(s) \/ Spedisce(s) \/ Conferma(s) \/ RichiestaFallita(s)
  \/ PassaIlTempoC

SpecC == InitC /\ [][NextC]_varsC

-----------------------------------------------------------------------------
(***************************************************************************)
(* What survives the interleavings.                                        *)
(***************************************************************************)

\* A lost update may leave a residual too high, never too low: whatever
\* interleaves, an invoice owes at least what its registered payments leave,
\* and it is taken as settled only if they cover it.
MaiCondonato ==
  \A f \in Presenti(db) :
    /\ db.residuo[f] >= Importo[f] - Incassato(db, f)
    /\ db.stato[f] = "saldata" => Incassato(db, f) >= Importo[f]

\* A retry of a manual payment never counts twice, also when it overlaps the
\* first attempt (azioni.py:220): one key, one payment.
UnPagamentoPerChiave ==
  \A p, q \in db.pagamenti : p.chiave = q.chiave => p = q

\* "Who has paid gets nothing" (sync.py:201): an invoice settled when the cycle
\* turns to the reminders gets none, although its transaction began before.
ChiHaPagatoNonRiceve ==
  ultimo.tipo = "sollecito" => ultimo.fatture \cap pagate = {}

(***************************************************************************)
(* What does not: services/azioni.py:221, "la coesistenza con la           *)
(* riconciliazione automatica e' garantita dal residuo".  The residual of  *)
(* an open invoice is what its payments, of both origins, leave of it.     *)
(***************************************************************************)
ResiduoDeiPagamenti ==
  \A f \in Presenti(db) :
    Aperta(db, f) => db.residuo[f] = Massimo(0, Importo[f] - Incassato(db, f))
=============================================================================
