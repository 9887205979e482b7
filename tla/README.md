# IREC in TLA+

IREC is the credit-reminder service behind the assistant "Mind": for each
tenant (a company, the *mandante*) it imports the invoices from the tax drawer,
reconciles the bank movements with them, reminds the debtors along a flow of
steps (T-2 ... T+35), and hands an unpaid invoice to debt recovery at T+45.
This directory holds the specification of that behaviour in TLA+, the
configurations that model-check it with TLC and proofs checked by TLAPS. Paths
below are relative to the repository; definitions keep the names of the code.

## 1. The system

| Part | Source | State it keeps | Operations |
|---|---|---|---|
| Domain rules | `irec/domain/{stati,enums,scheduler,calendario,flusso_default}.py` | none | effect of a payment, states of positions, escalation thresholds, channels, sending window |
| Reconciliation | `irec/adapters/mock/providers.py`, `irec/domain/porte.py` | none | movements poured into open invoices, oldest first |
| Daily cycle | `irec/services/sync.py`, `irec/services/invii.py` | rows of the tenant, one transaction per cycle | import, reconcile, close positions, resume pauses, escalate, send, notify |
| Operator actions | `irec/services/azioni.py`, `irec/api/azioni.py` | the same rows, one transaction per request | pause, resume, cancel, force, manual payment, contacts, replace the flow, report |
| Proactive notices | `irec/services/notifiche.py`, `irec/api/proattivo.py` | table `notifica` | emit, revive, resolve, acknowledge |
| Asynchronous runs | `irec/api/reconciliations.py`, `irec/services/sync_run.py` | table `sync_run`, background tasks in memory | start (with Idempotency-Key), execute in three transactions, poll |
| GDPR deletion | `irec/api/tenant.py`, `irec/adapters/db/repository.py` | all tables | delete table by table |
| Persistence | `irec/adapters/db/*` | PostgreSQL, READ COMMITTED, row-level security; the pool's connections | tenant filter, guard before the flush, composite and unique keys, rollback |
| Authentication | `irec/auth/*` | cache of the JWKS, one per process, no lock | verify a call token |
| Readings, KPI | `irec/services/letture.py`, `irec/api/letture.py` | none | portfolio, aging, explanation of a state |
| Shell | `main.py`, `config.py`, `middleware.py`, ... | none | wiring, logging, health |

**How they interact.** Mind calls `POST /v1/reconciliations` daily; the handler
commits a row of `sync_run` and leaves a background task, which runs the daily
cycle in one transaction and records its outcome on the row. The cycle calls
the providers, the reconciler and the sending channel synchronously, through
the ports of `domain/porte.py`: what the channel delivered stays delivered if
the transaction is lost. Operator requests and the deletion work on the same
rows from other threads; nothing takes an explicit lock.

**What is hard.** Messages sent inside a transaction that may roll back;
cycles that are re-run, lost, skipped or late; the same movements presented
again for 30 days; manual and bank payments of the same cash; reminders
planned weeks before they are due; checks and inserts of runs in separate
steps; a deletion between the transactions of a task; requests that commit
while a cycle works on rows it read before; confirmations that arrive late or
twice; a cache of keys shared by threads; connections that change tenant. The list, line by line,
is in `PROJECT.json` under "hazards".

**What makes each part correct.**

* Cycle and actions: no reminder is left to send on an invoice that was paid or
  escalated, or under a replaced flow; what leaves is due, payable, reachable and
  before the escalation (at any hour: the window is not applied at that point,
  section 5); one open position per client and no open invoice in a closed one;
  residual = amount - payments; the cycle never counts a movement twice (the
  same cash registered also by hand is another matter, section 5); the log of the
  reminders is true; a completed cycle is idempotent; history is permanent; every
  invoice leaves the flow.
* The same under requests concurrent with a cycle: no debt is written off, no
  key counts twice, who has paid gets nothing. Part of the rest is lost
  (section 5).
* Runs: one run and one execution per key, all-or-nothing effects, final
  outcomes, every run ends.
* Notices: what is announced, or announced again because it returned, stays in
  the queue until Mind receives it or it is over (but for returns that cross an
  older confirmation, section 5); no notice is closed unseen, each is read.
* Deletion: a deleted run never comes back, no row is left without its parent.
* Isolation: nobody reads, writes or refers to another tenant's rows, through
  the repository or round it.
* Authentication: a withdrawn key expires, a published key is recognised.
* Algorithms: the allocation, the calendar and the KPIs compute what they say.

## 2. The modules

    Dominio            pure rules (no variables)
    Riconciliatore     the reconciler, in closed form
    Incassi            one tenant's rows, the daily cycle and the operator
      extends Dominio, Riconciliatore; implements VitaFattura
    VitaFattura        what is promised of an invoice
    Letture            the readings, over the rows of Incassi
    IncassiConcorrenti the operator's transactions inside the cycle's one
      extends Incassi
    SommeProofs        lemmas on sums over finite sets; Riconciliatore
    IncassiProofs      proofs about the rows, the money and the messages of Incassi
      extends Letture, SommeProofs
    IncassiConcorrentiProofs   proofs about IncassiConcorrenti
      extends IncassiProofs
    SyncRun            runs, their tasks and the GDPR deletion
      implements ChiaveIdempotente
    ChiaveIdempotente  what is promised of an Idempotency-Key
    SyncRunProofs      proofs about SyncRun
    Notifiche          the queue of notices, the cycle and Mind over a network
    JwksCache          the cache of keys under concurrent threads
    IsolamentoTenant   sessions, pool, policies, guard, keys of two tenants
    NotificheProofs, JwksCacheProofs, IsolamentoTenantProofs   their proofs
    Calendario         Easter, holidays, the clock of Rome, the sending window
    Scorrimento        the reconciler's loop, turn by turn
      extends Riconciliatore
    Giorni             every day, and what Calendario promises of it
      extends Calendario; instance of Dominio
    CalcoliProofs      proofs about the loop and the calendar
      extends Giorni, Scorrimento, SommeProofs
    MCIncassi, MCConcorrenti, MCSyncRun, MCNotifiche, MCJwksCache,
    MCIsolamento, MCCalcoli      small instances for TLC

### Incassi

`db` is what is committed, `tx` what the transaction of the cycle sees; both
are one record of functions (`Database`): states and residuals of invoices,
pauses, positions, reminders (one per invoice, version of the flow and step),
flow, payments, contacts, notices. `fase` is the place of the cycle:

    ferma -> import -> movimenti -> incassi -> pause -> escalation -> invii -> ferma

Each loop body of the code is one step of the cycle (`ImportaFattura`,
`ApplicaPagamento`, `EseguiEscalation`, `InviaGruppo`), each whole-table pass
one step (`RilevaIncassi`, `AggiornaPosizioni`, `RiprendiPauseScadute`,
`VagliaDovute`), and `ConcludiCiclo` writes the notices and commits.
`session_scope` rolls back on any exception: `Caduta` may happen at any point of
the cycle and gives `tx` up, while `partiti`, the deliveries, stays. A forced
reminder can be lost in the same way (`ForzaturaPersa`). The operator's
requests are one step each, between cycles.

Choices that matter for reading it:

* **Order.** The code walks its lists in the order of the database or of the
  provider; the model lets the loop bodies come in any order, so what is shown
  holds for all of them. Phases keep the order of the code.
* **Due reminders.** `_esegui_invii_dovuti` selects, filters and then sends;
  the filter is one step (`VagliaDovute`), each consolidated message another.
  `programmata_per` is not stored: it is a function of due date, offset and
  calendar (`IstanteStep`), and no code changes a due date
  (`ricalcola_schedule` has no caller).
* **Payments.** The code's key `"<movement>:<number>"` is the pair
  `<<movement, invoice>>`; manual keys are other values, and both are in one
  space, as in the unique constraint. The reconciler's loop has a closed form
  (intervals laid end to end, see `Riconciliatore`), so the module needs no
  recursion; `Scorrimento` is the loop itself, and section 4 proves that it
  computes that form. Each (debtor,
  number) is presented once, as the ports assume.
* **Amounts** are whole cents and **instants** whole local hours; run `calcoli`
  shows that the real calendar agrees with `Dominio` at whole hours. `oggi` is
  the day of the instant, while the code takes the UTC date
  (`services/sync_run.py:50`): between midnight in Rome and midnight UTC the
  code's today is still yesterday, one day later than the model for every
  threshold in the same way.
* **The clock** stands still during a cycle and between two chosen instants;
  the code fixes `oggi` and `adesso` when the run starts. The cycle finds a
  mandante (without one it does nothing).

### IncassiConcorrenti

The same rows and operators, cut into what each session reads and when. A
SQLAlchemy session keeps what it read, computes in memory, and at the flush
writes only the columns that changed; `Celle` is that difference,
`Sovrascritto` writes it over what is committed by then, and a row written but
not committed is locked (`Righe(mie)`, `Trattenute`). The cycle keeps `tx` from
one phase to the next and reads afresh where the code queries afresh. A
request reads (`Chiede`), for a payment flushes the invoice and only then loads
reminders and position (`RegistraIncasso`), for a forced reminder sends
(`Spedisce`), and commits (`Conferma`) or fails (`RichiestaFallita`: a key taken
meanwhile, a deadlock that the database resolves). Keys are taken by the
uncommitted payments of the cycle as by the committed ones: the insert that
comes second waits and fails, and a cycle that would register a key it does not
see is lost (`CadutaC`). A request whose guard
answers 404 or 409 changes nothing and is left out. One cycle runs at a time:
two overlapping ones (finding `una_attiva`) are not composed here.

### SyncRun

Handlers and tasks are interleaved read by read and commit by commit, because
the code works at READ COMMITTED with no locks. `CercaChiave`, `CercaAttive`,
`InserisceRun` and `Rilegge` are the statements of `start_reconciliation`;
`AvviaRun`, `EntraNelCiclo` / `ConcludeCiclo` and `SegnaFallita` are the three
transactions of `esegui_run`. The cycle is abstracted to what it leaves: rows
(`dati`) and notices (`notifiche`), since `notifica` is the one table that is
deleted before `sync_run` and has no foreign key. `Riavvio` is a restart of
the process: tasks and open requests are lost, rows stay.

### Notifiche

One row per situation (`riga`), as the unique key imposes. The cycle is a
transaction that reads the links at its start (`visti`), writes the rows near
its end (`scritte`, locked until the commit) and may fail. Mind's side is
external, and as free as a polling client can be: answers are lost or late,
what it received it confirms until it has a 200, in requests that may overlap,
so that a confirmation can be repeated after its effect. `marca_lette` reads the
live rows in one step and writes them in another.

History that constrains nothing says what Mind knows of each announcement. A
cycle announces what it finds and has no live row for (`daAnnunciare`), and from
its commit on that is `nuove`, until Mind receives an answer with it or a cycle
closes it. A return has the id of the notice before: if an answer with that one, or
a confirmation of it, is still to come at the announcement (`InSospeso`), it is
`incrociate` instead, since the code cannot tell which of the two the confirmation
is for.

### JwksCache

One step per access to the three attributes of the verifier: nothing
synchronises the threads `anyio.to_thread` runs `verify` in. Time is counted in
intervals of the forced refresh, and dates kept as ages cut at the last value
that makes a difference, so the state space is finite with no bound on time.
Whatever a thread does takes less than an instant, but for a fetch.

### IsolamentoTenant

A session has its tenant (`info`), the connection of its transaction and the
value of `irec.tenant_id` in it (`locale`), what it wrote, one loaded object and
the tenants of what it read. `variabile` is what a connection carries when
the pool gives it to the next session. Each net is an operator: `Filtro`, `Guardia`,
`ChiaveEsterna`, `Passa` (the policies; `rls` is FALSE on a superuser or another
database). Code that goes round the repository is modelled (`...Grezza`,
`Altera`) because the other nets exist for it. Where the policies do not apply
such code may read anything, and is only held to what it may write. A `cliente`
and its `mandante` stand for every pair of tables with a composite key.

### VitaFattura and ChiaveIdempotente

What a reader of the API may rely on, with no cycle, phases or tasks.
`Incassi!ImplementaVita` maps the committed state and residual of each invoice
to themselves, and the rows of its reminders to those still to be sent and
those sent; every commit is one step of every invoice. `SyncRun!ImplementaChiave` maps
a key to the state of its run in the database, "libera" if it has none.

## 3. Runs

| Run | Instance | Shows |
|---|---|---|
| `base` | 2 invoices, 1 transfer, 2 steps, 6 instants, 2 requests | safety of the rows and of each message, readings that agree, the refinement of `VitaFattura` |
| `guasti` | 2 invoices, 2 transfers, 2 lost transactions, links down, 1 request | truth of the log, no double counting, idempotence |
| `vita` | 1 invoice, 2 flows, 1 lost transaction, 2 requests, fairness | liveness, only the active flow |
| `concorrenti` | 2 invoices, 1 transfer, 1 step, 3 instants, 1 lost transaction, 2 overlapping requests | what survives requests inside a cycle |
| `run` | 3 requests, 2 keys, 2 errors, 1 restart, 1 deletion, fairness | idempotency of runs, all-or-nothing, finality, the refinement of `ChiaveIdempotente`, every run ends |
| `notifiche` | 1 link, 1 invoice, 3 cycles, 3 changes, 1 loss, 2 confirmations, fairness | the queue of notices loses no announcement that crosses nothing older, stays faithful and empties |
| `jwks` | 2 threads, 2 keys, 2 rotations, 1 failed fetch | freshness of the keys, no thread looks into an empty cache |
| `tenant` | 2 tenants, 2 ids, 2 sessions, 2 connections, policies on and off | isolation of reads, writes and references |
| `calcoli` | every day of 29 years; 4 invoices of 3 amounts, every list of up to 3 of 36 movements | the algorithms |
| `parziale`, `residuo`, `una_attiva` | small | a documented rule is not kept (section 5) |

Every property of a passing run has a mutant in `PROJECT.json`: a definition
named with a suffix (`Escalata_conPendenti`, comment "Fault") that replaces
the correct one and under which TLC must find the property violated. No
specification uses them. `TypeOK` of `Notifiche` and `IsolamentoTenant` is in no
run, but proved (theorem `Tipi`); `IncassiConcorrenti` has that of `Incassi`.

**Bounds.** `MaxAzioni` (requests), `MaxCadute` (lost transactions), `MaxFlussi`
(versions of the flow), `ImportoMax`, `Istanti` (instants), `Sessioni`
(overlapping requests), `MaxErrori`, `MaxRiavvii`, `MaxCancellazioni`,
`MaxCicli`, `MaxCambi`, `MaxPerdite` (notices), `MaxRotazioni`, `MaxGuasti`,
`DurataFetch` (keys), `Anni`, `Lunghezza` (algorithms), `MaxFestiviConsecutivi`
(longest stretch without sending; `CalendarioDiDominio` shows it is right).
They are enough because:

* the actors meet on one client: the only things invoices share are a position,
  a transfer and a message, and two invoices with a transfer that covers one
  and half of the other (`base`) exercise each; in `concorrenti` the transfer
  covers half of one invoice, and the requests are what competes for the rest;
* the instants are the days on which something changes: first import, a step
  falling on a holiday (day 8 moves to 9, seen at 9:00 and at 11:00 around the
  sending hour), the second import with the transfer and the end of a pause,
  T+44 and T+45 of the two invoices (days 54-55 for F1; F2 is still not due for
  escalation). Instants may be skipped by the cycle, so no cycle is guaranteed
  on any of them;
* two requests are enough to pause and then pay, or force and then pay; in
  `vita`, to pause and then replace the flow; in `concorrenti`, to race with
  each other and with the cycle, and one key is then the interesting case;
* two lost transactions are enough to lose one cycle before and one after a
  delivery. `partiti` counts them, so the bound on duplicates is exact;
* three requests with two keys have two racing with the same key against a
  third with another;
* a link that falls, returns and falls again is three changes; three cycles see
  each of them, and an invoice announced, read and announced again twice; two
  confirmations are enough for one to be repeated late, one loss for the
  repetition;
* two fetches are enough for one to be overtaken; a cache that lives three
  intervals separates its expiry from the interval, as five in the code;
* two connections and two sessions are enough for a connection to change
  hands, and for an insert to meet a deletion; a tenant with a row and one
  without are the two sides of a leak;
* three invoices of one debtor, two of them due together and numbered against
  the order of the list, and one of another, with amounts below, at and above
  zero: a transfer can cover one, end inside another and leave money over; a
  list of three has a movement that comes again with another sender or amount,
  and movements of two debtors or of nobody between two of one;
* the years hold every weekday for 1 January, leap years, a century that is
  not one, and the two years of this century in which the correction of Easter
  bites.

All the safety under every value of the bounds is what section 4 proves.

**Deadlock.** It is checked but where a run really stops: `SyncRun` once all the
requests are answered and their tasks done, `MCCalcoli` when the year
or the list ends. Locks of the database are the guards on written rows of
`IncassiConcorrenti`, `Notifiche`, `IsolamentoTenant`; a cycle of waits is broken
by `RichiestaFallita`, `CadutaC` or `Annulla`, as PostgreSQL does.

**Fairness.** Incassi: weak fairness of starting a cycle (Mind's daily call),
weak fairness of the steps of a cycle (a background task goes on unless it is
lost), strong fairness of the clock, because the model's clock waits for cycles
and requests to be over, while the real one does not wait. Operator requests
and lost transactions are never fair. `vita` shows that every open invoice ends
up settled, escalated or paused without a date (a pause without a date is
resumed only by hand), even with no cycle on day T+45, and that positions
close although a cycle closes positions before it escalates. The conclusion
rests on the clock reaching T+45 and a cycle completing after it: `MaxCadute`
bounds the losses, a tenant whose every cycle fails gets nothing. SyncRun: weak
fairness of each handler and of each task; `OgniRunFinisce` excuses a restart
or a second exception, each of which really leaves a run active for ever
(section 5). Notifiche: Mind polls and confirms for ever
(`api/proattivo.py:77`), requests and transactions under way end, losses are
finitely many; that any cycle starts is not assumed.

## 4. Proofs

TLAPS proves, for every value of the constants that satisfies the module's
assumption, the theorems below. Each property that also appears in a run is
shown there on a small instance and here for any number of invoices, movements,
requests, threads, tenants. `Invariante` (of each module) is the inductive
invariant the others follow from.

| Theorem of IncassiProofs, the rows | States |
|---|---|
| `Tipi` | `TypeOK` |
| `MaiChiHaPagato` | `NessunSollecitoPendente` |
| `FlussoUnico` | `SoloFlussoAttivo` |
| `PosizioniInOrdine`, `PosizioneUnica` | `PosizioniCoerenti`, `UnaPosizioneAperta` |
| `RegistroFedele` | `RegistroVeritiero` |
| `StoriaImmutabile` | `StoriaPermanente` |
| `IstanteNellaFinestra` | a planned instant is in the sending window, and no later than it must be |
| `OrdineDeiPassi` | the steps of a flow are planned in the order of their offsets |

| Theorem of SommeProofs, CalcoliProofs | States |
|---|---|
| `QuoteEntroIlDisponibile` | the closed form gives of a movement no more than it has, for any lists |
| `NullaAvanza` | while the closed form leaves an invoice uncovered it gives the debtor's movements whole |
| `AbbinamentoGiusto` | `AbbinamentoCorretto`: the loop of the code computes the closed form and forgets nothing |
| `PasquaSempreDellaChiesa` | `PasquaDellaChiesa`, in every year after 1970 |
| `FinestraSempreUtile` | `FinestraUtile`, on every day of them; its lemma `FinestraPerOgniIstante` says it of every minute |
| `CalendarioDiDominioFedele` | `CalendarioDiDominio`, on every day of them |

| Theorem of IncassiProofs, the money | States |
|---|---|
| `InvarianteDenaro` | the inductive invariant of the accounts |
| `ResiduoEsatto` | `ContabilitaResiduo` |
| `MovimentiNonSuperati` | `IncassiEntroIlMovimento` |
| `SollecitiLegittimi` | `SollecitoLegittimo` |
| `LettureConcordi` | `LettureCoerenti` of module Letture |
| `CicloRieseguibile` | `Rieseguibile`, if no key of the operator has the form of the cycle's |
| `VitaImplementata` | `ImplementaVita`: Incassi implements VitaFattura |

| Theorem of IncassiConcorrentiProofs | States |
|---|---|
| `TipiC` | `TypeOK` |
| `PagamentoUnico` | `UnPagamentoPerChiave` |
| `CreditoMaiCondonato` | `MaiCondonato` |
| `PagatoNonRiceve` | `ChiHaPagatoNonRiceve` |
| `NessunPendenteC` | `NessunSollecitoPendente` |

| Theorem of SyncRunProofs | States |
|---|---|
| `Tipi` | `TypeOK` |
| `RiprovaSicura` | `StessaChiaveStessaRun` |
| `EsecuzioneUnica` | `UnaEsecuzionePerChiave` |
| `TuttoONiente` | `EffettiSoloSeCompletata` |
| `EsitoStabile` | `EsitoDefinitivo` |
| `ChiaveImplementata` | `ImplementaChiave`: SyncRun implements ChiaveIdempotente |

| Theorem | States |
|---|---|
| NotificheProofs: `Tipi`, `LettaPercheRicevuta`, `NulladiPerso`, `CodaFedele` | `TypeOK`, `LettaSeRicevuta`, `NessunaSituazionePersa`, `AvvisoFedele` |
| JwksCacheProofs: `Tipi`, `ChiaveRitirataScade`, `ChiavePubblicataServe` | `TypeOK`, `RitirataScade`, `PubblicataRiconosciuta` |
| IsolamentoTenantProofs: `Tipi`, `LettureIsolate`, `ScrittureIsolate`, `NessunArco` | `TypeOK`, `IsolamentoLetture`, `IsolamentoScritture`, `NessunArcoFraTenant` |

**Assumptions.** They give types and bounds of the constants, nothing about their
size, and beside them only what the code has: `IncassiAssumption` that lists of
invoices and movements are finite, that the amounts fit in `ImportoMax`, that an
invoice is not due before it is issued, and that the invoices of one debtor are
served in a total order (the reconciler sorts by due date and number with a
stable sort, so ties keep the order of the list), and that no two movements have
one place in their list; `ScorrimentoAssumption` the same, and that what
`Riconciliatore` calls sender and place of a movement are those of its first
arrival in the list, which defines them: any list satisfies it with the `Mittente`
and `Posto` read off it; `AnniAssumption` that the years come after 1970, where
days are counted from; `NotificheAssumption` that links
and invoices are different things; `JwksAssumption` that no set of keys is the
absent one; `IsolamentoAssumption` that no tenant is NULL and that the rows
there at the start belong to their mandante. The last is what the composite
key imposed when they were inserted.

Two theorems have a hypothesis of their own. `CicloRieseguibile` asks for
`ChiaviDistinte`: the cycle's key is `movement:invoice` (sync.py:469) and the
Idempotency-Key of a manual payment is any string the client sends; one of that
form would make the cycle skip a payment it found, as registered already. The
keys of the instances satisfy it. `IstanteNellaFinestra` and `OrdineDeiPassi` ask
for `FestiviRadi`, a working day in every eight: the first part of
`CalendarioDiDominio`, which `CalendarioDiDominioFedele` proves of the Italian
calendar.

**The rows of Incassi.** The inductive invariant `Inv` is `Integro` of both `db`
and `tx`, `Permane(db, tx)`, the equality of the two between cycles,
`QuoteNote` and `RegistroVeritiero`. None of the checked invariants is inductive
alone:

* that an import does not plan reminders on a finished invoice needs that
  reminders belong to imported invoices (`ComunicazioniNate`);
* that a new version of the flow plans only what belongs to it needs that no
  reminder has a version that does not exist yet (`ComunicazioniNate` again);
* that there is one open position per client needs that a position's own
  invoice is imported and of the same debtor (`PosizioniNote`), otherwise the
  import could reopen a position by its name;
* that a payment found some steps ago does not settle an escalated invoice
  needs `QuoteNote`;
* that the commit rewrites no history needs `Permane(db, tx)` for the whole
  length of the cycle.

What a step does to the rows is an operator on a record, so each operator has
one lemma (`...Conserva`): it keeps `Integro`, extends the history and records
no delivery. Most of them only move rows forward, a relation named `Prosegue`
whose one lemma gives the three; the import and the replacement of the flow,
which create rows, are proved directly. One lemma per action then follows
(`...Inv`), and `PassoInv` collects them.

**The money of Incassi.** `Denaro` says that the rows of `db` and of `tx` agree with
the payments (`Contabile`), that the cycle has moved every invoice and reminder
from `db` to `tx` only as it may (`VitaCiclo`, transitive, so one step more is
always the same relation), and `Capienza`: of each movement, what is registered
in `tx` and what is still to be registered (`quota`) fit in the movement
together. The last is the reason a cycle that applies its quotas one by one, in
any order, is safe: each quota moves from one term to the other or, its key being
known, is dropped. That the quotas fit when they are found is
`QuoteEntroIlDisponibile`, and that an invoice that is settled stays so needs
`ContabilitaResiduo` of the transaction, not only of the commits.

Sums are folds over finite sets. No induction theorem can be instantiated, but
the subsets of a finite set are well founded (`SottoinsiemeMinimo`), so each fact
on a sum is proved on a least set that would break it: that the fold exists and
is unique (`AccumulaEsiste`, `AccumulaUnico`), that the order of the elements
does not count (`AccumulaTogli`), then what is used of sums (`SommaTogli`,
`SommaAggiungi`, `SommaUguale`, `SommaMonotona`), and that disjoint intervals
inside another are together no longer than it (`IntervalliDisgiunti`), which is
the reconciler. The converse, `NullaAvanza`, adds that intervals laid end to end
(`Accodati`) cover a window as far as they reach (`FilaCopre`,
`FilaCopreFinestra`), first for the invoices and then for the movements.

`LettureConcordi` holds of any rows that are `Integro` and `Contabile`: each total
of the readings is a sum over a set, and two of them agree because one set is
made up of disjoint others (`SommaUnione`: the aging bands are the open credits)
or because one weight is two others together (`SommaPiu`: an amount is what was
paid and what is left of it).

`SollecitiLegittimi` is a property of one step, but not of one guard: that what
leaves has something to pay needs the accounts, that it is not yet at T+45 needs
that `VagliaDovute` follows all the escalations. `VitaImplementata` maps each commit,
request and step of the cycle to a step of VitaFattura or to a stutter, from
`Vita(db, db')` and the two invariants.

**What a cycle leaves.** `Rieseguibile` speaks of one step, the commit, but what it
says was done phases before. `Fatto` keeps it for what later phases cannot undo:
invoices are imported, then pauses are over, then what is due is about to leave.
`Quiete` does it for the allocation. When the quotas are found, `NullaAvanza`
gives `SenzaAvanzi`: an open invoice that its quotas do not cover leaves no money
of its debtor out of the quotas. Registering a quota moves the same amount out of
the residual, out of the movement and out of the quota, so it keeps `SenzaAvanzi`;
the exception is a key that is registered already, which the cycle skips and
whose quota it loses. `Esaurite` excludes it: such a key is of an invoice that
left, or of a movement nothing is left of, and has no quota. `InOpera` are the
keys the open cycle is still registering, to which `Esaurite` does not apply yet.
A cycle without the bank's link finds no quota, and requests of the operator
between cycles only lower residuals and close invoices.

**IncassiConcorrenti.** A commit writes cells, so it may leave rows no session ever
had in memory, and the invariants of `Incassi` do not carry over: the runs show
that positions and exact residuals are lost (section 5). `InvC` says what is left:
rows in which no finished invoice has a planned reminder and no residual is
lower than the payments leave it (`Sano`); what the cycle has in memory against
what is committed by now, given the cells it wrote (`Vista`: it misses no
invoice, and of a reminder it did not write it does not believe less than it is
so); what each request has in memory (`RichiestaNota`: it misses no more than other
payments, which only makes its residual too high, and once it has loaded the
reminders of a payment, none planned escapes it). The proof uses the unique
key of the payments, the refresh between the phases of the cycle and the order
in which a payment reads; it does not use the locks on the rows, which these
properties do not need.

**Scorrimento.** Lay the invoices of a debtor end to end by due date, and its
movements end to end as they arrive. At every turn of the inner loop the money
of a debtor has come to one point of that line, `Raggiunto`: all that its
movements brought so far but what `da_allocare` still holds. The invariant says
that a residual is the part of the invoice beyond that point
(`ResiduiEsatti`), that the payments are what each movement covered between its
own beginning and that point (`PagamentiEsatti`), that the inner loop has before
it all the invoices its debtor has open (`InServizio`) and that the discarded
movements are those that bring nothing or begin past all that was due
(`ScartiEsatti`). The hard steps are two: the invoice served next is the one the
point is in, because every invoice before it is paid, so the point is past
their sum (`TuttePassate`, by induction on the finite set); and when the inner
loop ends with money left, counting that money as if it had gone on changes
nothing, because the point is past every invoice (`DietroIlPunto`). A repeated
movement changes nothing, whatever sender or amount it comes with. When the
loop is over all the movements are taken and the invariant is the closed form;
that nothing is forgotten follows from the lemmas on its sums
(`QuoteDelMovimento`, `QuoteDellaFattura`, `NullaAvanza`).

**Calendario.** A day counted from 1970 has one year (`AnnoGiusto`, `AnnoUnico`):
the days before a year are 146097 for each 400 years in it, 36524 for each
century left, 1461 for each four years left and 365 for each year left
(`PassatiSecoli`), which is what the divisions by 4, 100 and 400 of one formula
come to. Every holiday is then a distance from the first of March, and Easter a
distance between 21 and 55 (`PasquaDaMarzo`, `PasquaFra`), so eight days hold at
most three holidays (`TreFestivi`) and at least four days from Monday to Friday
(`QuattroFeriali`): one of those is a working day, for every year there will be.
The clock of Rome is the same from 01:00 UTC to midnight (`DalleUna`), which
makes the instant of a local hour unique at the hours the window writes; what
the window does to an instant follows by cases (`FinestraFerma`,
`FinestraMossa`). Easter: the day Meeus counts from 21 March is 23 minus the epact,
modulo 30 (`LunaEdEpatta`, because two sums of leap centuries agree, `Equazioni`);
the week Meeus takes off at the end undoes the day the Church moves the moon by
(`DopoIlPlenilunio`); and the remainders of the weekday cancel out
(`PasquaDomenica`).

**SyncRun.** The invariant says, for each place of a handler and of a task, in
which states the row of the run can be: a task sees its row stale by at most a
deletion. `ChiaviUniche` is the database's constraint, preserved because the
insert checks it and a deleted run never comes back. For the refinement, a key
has at most one run in the database (`Presenti`), so the state of the key changes
only if that run's does.

**Notifiche.** A cycle decides what to write from rows it has read, and the rows
it does not write may be confirmed before it commits. `CicloCoerente` says of
each link what the open cycle would leave now (`LasceraChiusa`); `ConfermeNote`
that a confirmation carries only what Mind received. `NessunaSituazionePersa` is
inductive with `AnnunciScritti`, that a cycle announces exactly the rows it writes
alive, and `NuoveSenzaConferma`, that nothing which can still mark a notice names
one that is `nuove`: a confirmation comes from an answer, and the first answer with
the notice ends its being new. That is what the commit has to establish, and where
a return that crosses something older falls outside the theorem.

**JwksCache.** What a thread holds may have been fetched by another and dated by
a third: `FetchRecente`, `CacheScrittaOra`, `CacheDatata` and `RispostaRecente` bound
the age of a key set by the place it is in (under way, written and not yet
dated, dated, used for an answer), and the longest chain is the delay the
properties state.

**IsolamentoTenant.** `Sana` says what one session may have written or hold in
memory (rows of its tenant only, over rows of its tenant or none), `Rispetta` what
two sessions may know of the same row: ids are fresh, a written row is held
until the end of its transaction, a deletion in progress holds its mandante.
The guard and the composite key are inductive only together: the guard keeps
rows of others out of a flush, the key makes the mandante of a new row outlive
the commit.

**Only model-checked:** liveness (`OgniFatturaEsce`, `PosizioneFinitaSiChiude`,
`OgniRunFinisce`, `OgniNotificaLetta`), which needs ENABLED.

The theorems on the clock take it to change on the last Sundays of March and
October at 01:00 UTC, as `OraLegale` has it: the rule since 1996, which
`zoneinfo` also applies to the years to come.

## 5. Where the code and its documentation disagree

Each of these is a run that ends in a counterexample; `PROJECT.json` ("findings")
quotes both sides.

* `parziale`: a partial bank payment of a paused invoice cancels its reminders;
  a partial manual payment does not.
* `residuo`: a manual payment and the cycle's, or two manual ones, that overlap
  compute the residual from the same older value, and one of them is missing
  from it. `MaiCondonato` shows the loss is always on the side of asking too
  much: the money is in `pagamento`, the residual is too high.
* `una_attiva`: two runs of a tenant can be active together.

Met while modelling, with no run of their own:

* *Flow.* The notice of T+44 exists only if a cycle runs on that very day and
  the invoice is not paused on it (`domain/scheduler.py:165`); the escalation
  happens anyway (`docs/ARCHITECTURE.md:96`). Once created it is never closed by
  the cycle, even if the invoice is paid.
* *Messages.* Two due steps of one invoice on one channel are one message that
  lists it twice and asks twice its residual (`services/invii.py:282`). The sending
  window (no message after 18:00 or on holidays, `docs/ARCHITECTURE.md:84-86`) is
  applied to the planned instant only: `_esegui_invii_dovuti` sends whatever is
  due when the run happens (`services/invii.py:214`).
* *Payments.* A transfer first registered by hand as a partial payment is
  allocated again to what is left of the invoice, because what is already
  allocated is looked up by a prefix of the key that manual payments do not
  have (`services/sync.py:410`, against `services/azioni.py:223`).
* *Positions.* A manual payment that closes a position while the open cycle puts
  a new invoice into it leaves an open invoice in a closed position until the
  next cycle, and a pause that commits while the cycle settles the invoice can
  reopen it: `PosizioniCoerenti` and `StoriaPermanente` hold between cycles, not
  inside one.
* *Runs.* A run whose failure cannot be saved, or whose process stops, stays
  active and answers 409 to every other key (`services/sync_run.py:85`, against
  line 39). A cycle that commits between the first two statements of a deletion
  leaves its notices behind (`adapters/db/repository.py:235`, against
  `api/tenant.py:31`).
* *Notices.* A situation still there when Mind confirms its notice comes back to
  the queue at the next cycle (`NonRigenerata` in module Notifiche states the
  opposite, after `services/sync.py:185`). A confirmation carries only the id of
  the row, which a return keeps (`services/notifiche.py:56`): one for the notice
  before, late or repeated, marks a return that Mind never received, although
  notices "restano in coda finché Mind non le legge in polling"
  (`services/notifiche.py:5-6`). `RestaFinoAllaLettura` in module Notifiche states
  that line; checked as an invariant of the instance of `notifiche` it fails
  after 16 states: the notice is read, confirmed and marked, the answer to the
  confirmation is slow, the open cycle announces the situation again, and Mind's
  second confirmation marks it. `NessunaSituazionePersa` is what remains true. A
  notice already in the queue keeps its old `dettaglio` when the state of the link
  changes.
* *Keys.* The interval between forced refreshes (`auth/verifier.py:19`) is kept by
  each thread, not by the process: each of the threads that pass the check before
  the first assignment forces one.
* *Readings.* An invoice due today is in the band "0-30" but is not "scaduta"; a
  reminder cancelled by the operator is explained by the payment or escalation
  that came later.

## 6. What is not modelled

* A fault that recurs at every cycle (an invoice the database refuses); the
  model bounds the losses.
* Amounts below a cent: the API accepts any number of decimals and the column
  rounds, so half a cent is registered as a payment and does not move the
  residual. An invoice of amount zero in `Incassi` (it is in `calcoli`).
* Two cycles of one tenant at once (they can be, see `una_attiva`), and contacts
  or flow changed while a cycle is open.
* The periodic report (sends a mail, writes only the audit log), the audit log,
  consumption, the lists of the API and the brief's list of actions (its
  ceiling of three never bites: three types of notice are emitted).
* The deletion table by table: a run that is inserted and executed wholly
  between two of its statements is taken as inserted after the commit.
* The exceptions of the domain that the callers' guards exclude:
  `TransizioneNonValida` for a finished invoice with a residual
  (`domain/stati.py:70`) and `ValueError` for a negative payment
  (`domain/stati.py:103`).
* Checks of a call token that look only at the token; texts, templates, logging,
  configuration, migrations beyond the tables and keys they create.

## 7. Plan

1. Done: the components above, their runs, two refinements, and the proofs of
   section 4.
2. Left to prove: nothing but liveness.
