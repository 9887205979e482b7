----------------------------- MODULE Notifiche -----------------------------
(***************************************************************************)
(* The queue of proactive notices (services/notifiche.py): the daily cycle *)
(* puts a row in it for each situation it finds, Mind polls the live rows  *)
(* (GET /v1/notifications) and confirms them (POST /v1/notifications/ack). *)
(*                                                                         *)
(* One row per situation for ever (uq_notifica_tenant_chiave): a situation *)
(* that returns revives its row, with the same id.  Answers and            *)
(* confirmations travel over a network that delays, loses and, by Mind's   *)
(* retries, repeats them; cycle and confirmations are transactions that    *)
(* overlap (READ COMMITTED, a written row stays locked until the commit).  *)
(***************************************************************************)
EXTENDS Integers

CONSTANTS
  Collegamenti,   \* the external links (AdE mandate, PSD2 consent)
  Preavvisi,      \* invoices that may come to the eve of their escalation
  Conferme,       \* confirmations that may be in flight together
  MaxCicli,       \* bound: daily cycles
  MaxCambi,       \* bound: changes of the situations
  MaxPerdite      \* bound: answers and confirmations lost, cycles failed

ASSUME NotificheAssumption ==
  Collegamenti \cap Preavvisi = {} /\ {MaxCicli, MaxCambi, MaxPerdite} \subseteq Nat

Situazioni == Collegamenti \cup Preavvisi

VARIABLES
  inAtto,      \* the situations: links down, invoices on the eve of escalation
  riga,        \* [Situazioni -> ...]: committed rows
  ciclo,       \* "fermo", "aperto", "notificato"
  visti,       \* links the open cycle saw down when it read them
  scritte,     \* [Situazioni -> ...]: rows the open cycle wrote, or Intatta
  risposta,    \* the rows in an answer under way to Mind, or Nessuna
  conferma,    \* [Conferme -> ...]: the confirmations under way
  daConfermare,\* what Mind received and has had no 200 for
  \* History.
  ricevute,    \* what Mind received at least once
  risolte,     \* rows last closed by a cycle
  vistiUltimo, \* what the last completed cycle found
  daAnnunciare,\* what the open cycle found, with no live row when it read it
  nuove,       \* what a cycle announced and neither reached Mind nor ended
  incrociate,  \* the same, announced across an older answer or confirmation
  cicli, cambi, perdite

tavola == <<riga, risolte, vistiUltimo>>
transazione == <<ciclo, visti, scritte, daAnnunciare>>
annunci == <<nuove, incrociate>>
rete == <<risposta, conferma, daConfermare, ricevute>>
vars == <<inAtto, tavola, transazione, annunci, rete, cicli, cambi, perdite>>

Nessuna == {"nessuna risposta"}
Intatta == "intatta"
Ferma == [passo |-> "ferma"]

NulladaScrivere == [s \in Situazioni |-> Intatta]

Init ==
  /\ inAtto = {}
  /\ riga = [s \in Situazioni |-> "assente"]
  /\ ciclo = "fermo" /\ visti = {} /\ scritte = NulladaScrivere
  /\ risposta = Nessuna
  /\ conferma = [c \in Conferme |-> Ferma]
  /\ daConfermare = {} /\ ricevute = {}
  /\ risolte = {} /\ vistiUltimo = {}
  /\ daAnnunciare = {} /\ nuove = {} /\ incrociate = {}
  /\ cicli = 0 /\ cambi = 0 /\ perdite = 0

Perde == perdite < MaxPerdite /\ perdite' = perdite + 1

-----------------------------------------------------------------------------
\* A link falls or is renewed; an invoice comes to T+44 or leaves it.
Cambia(s) ==
  /\ cambi < MaxCambi /\ cambi' = cambi + 1
  /\ inAtto' = IF s \in inAtto THEN inAtto \ {s} ELSE inAtto \cup {s}
  /\ UNCHANGED <<tavola, transazione, annunci, rete, cicli, perdite>>

-----------------------------------------------------------------------------
(***************************************************************************)
(* The daily cycle.  It reads the links in its first phases and the rows   *)
(* in the last one.                                                        *)
(***************************************************************************)
AvviaCiclo ==
  /\ ciclo = "fermo" /\ ciclo' = "aperto"
  /\ cicli < MaxCicli /\ cicli' = cicli + 1
  /\ visti' = inAtto \cap Collegamenti
  /\ UNCHANGED <<inAtto, tavola, scritte, daAnnunciare, annunci, rete, cambi, perdite>>

\* Fault: a notice already read is taken for one in the queue.
Emessa_unaVolta(s) == IF riga[s] = "assente" THEN "viva" ELSE Intatta

\* emetti: CREATA or RESUSCITATA, or GIA_IN_CODA.
Emessa(s) == IF riga[s] = "viva" THEN Intatta ELSE "viva"

\* Fault: the notice of a link that is back stays in the queue.
Risolta_mai(s) == Intatta

\* _risolvi.
Risolta(s) == IF riga[s] = "viva" THEN "letta" ELSE Intatta

\* _genera_notifiche: one row for each link, and for each invoice that will
\* be escalated tomorrow; nobody closes the notice of an invoice.
GeneraNotifiche ==
  /\ ciclo = "aperto" /\ ciclo' = "notificato"
  /\ visti' = visti \cup (inAtto \cap Preavvisi)
  /\ scritte' = [s \in Situazioni |->
       IF s \in visti' THEN Emessa(s)
       ELSE IF s \in Collegamenti THEN Risolta(s) ELSE Intatta]
  /\ daAnnunciare' = {s \in visti' : riga[s] # "viva"}
  /\ UNCHANGED <<inAtto, tavola, annunci, rete, cicli, cambi, perdite>>

Bloccate == {s \in Situazioni : scritte[s] # Intatta}

\* A confirmation of s that has yet to mark it is under way, or Mind may send
\* one for an answer it already has.
InConferma(s) ==
  \/ s \in daConfermare
  \/ \E c \in Conferme : conferma[c].passo \in {"inviata", "letta"} /\ s \in conferma[c].ids

\* Something of Mind's about s is still to come, answer or confirmation: at an
\* announcement, it is about the notice before.
InSospeso(s) == s \in risposta \/ InConferma(s)

ConcludiCiclo ==
  /\ ciclo = "notificato" /\ ciclo' = "fermo"
  /\ riga' = [s \in Situazioni |-> IF s \in Bloccate THEN scritte[s] ELSE riga[s]]
  /\ risolte' = {s \in Situazioni :
       scritte[s] = "letta" \/ (s \in risolte /\ scritte[s] = Intatta)}
  /\ vistiUltimo' = visti
  /\ nuove' = (nuove \ Bloccate) \cup {s \in daAnnunciare : ~InSospeso(s)}
  /\ incrociate' = (incrociate \ Bloccate) \cup {s \in daAnnunciare : InSospeso(s)}
  /\ visti' = {} /\ scritte' = NulladaScrivere /\ daAnnunciare' = {}
  /\ UNCHANGED <<inAtto, rete, cicli, cambi, perdite>>

\* Anything fails before the commit: nothing of the cycle remains.
CicloFallito ==
  /\ ciclo # "fermo" /\ ciclo' = "fermo"
  /\ Perde
  /\ visti' = {} /\ scritte' = NulladaScrivere /\ daAnnunciare' = {}
  /\ UNCHANGED <<inAtto, tavola, annunci, rete, cicli, cambi>>

-----------------------------------------------------------------------------
(***************************************************************************)
(* Polling.                                                                *)
(***************************************************************************)
\* notifiche_da_consegnare.
Vive == {s \in Situazioni : riga[s] = "viva"}

GetNotifications ==
  /\ risposta = Nessuna
  /\ risposta' = Vive
  /\ UNCHANGED <<inAtto, tavola, transazione, annunci, conferma, daConfermare, ricevute, cicli, cambi, perdite>>

RispostaArriva ==
  /\ risposta # Nessuna
  /\ risposta' = Nessuna
  /\ daConfermare' = daConfermare \cup risposta
  /\ ricevute' = ricevute \cup risposta
  /\ nuove' = nuove \ risposta /\ incrociate' = incrociate \ risposta
  /\ UNCHANGED <<inAtto, tavola, transazione, conferma, cicli, cambi, perdite>>

RispostaPersa ==
  /\ risposta # Nessuna
  /\ Perde
  /\ risposta' = Nessuna
  /\ UNCHANGED <<inAtto, tavola, transazione, annunci, conferma, daConfermare, ricevute, cicli, cambi>>

-----------------------------------------------------------------------------
(***************************************************************************)
(* Confirmation: sent again, in a second request, if the first one is late.*)
(***************************************************************************)
MindConferma(c) ==
  /\ conferma[c] = Ferma
  /\ daConfermare # {}
  /\ conferma' = [conferma EXCEPT ![c] = [passo |-> "inviata", ids |-> daConfermare]]
  /\ UNCHANGED <<inAtto, tavola, transazione, annunci, risposta, daConfermare, ricevute, cicli, cambi, perdite>>

\* Fault: every live notice is marked, whatever Mind confirms.
DaMarcare_tutte(ids) == Vive

\* marca_lette: the confirmed rows that are alive.
DaMarcare(ids) == ids \cap Vive

LeggeConferma(c) ==
  /\ conferma[c].passo = "inviata"
  /\ conferma' = [conferma EXCEPT ![c] =
       [passo |-> "letta", ids |-> conferma[c].ids, presi |-> DaMarcare(conferma[c].ids)]]
  /\ UNCHANGED <<inAtto, tavola, transazione, annunci, risposta, daConfermare, ricevute, cicli, cambi, perdite>>

\* Fault: the answer counts the rows, the session is not committed.
MarcaLette_senzaCommit(c) ==
  /\ conferma[c].passo = "letta"
  /\ conferma[c].presi \cap Bloccate = {}
  /\ conferma' = [conferma EXCEPT ![c] = [passo |-> "risposta", ids |-> conferma[c].ids]]
  /\ UNCHANGED <<inAtto, tavola, transazione, annunci, risposta, daConfermare, ricevute, cicli, cambi, perdite>>

\* The rows are written and committed, once the cycle does not hold them.
MarcaLette(c) ==
  /\ conferma[c].passo = "letta"
  /\ conferma[c].presi \cap Bloccate = {}
  /\ riga' = [s \in Situazioni |-> IF s \in conferma[c].presi THEN "letta" ELSE riga[s]]
  /\ risolte' = risolte \ conferma[c].presi
  /\ conferma' = [conferma EXCEPT ![c] = [passo |-> "risposta", ids |-> conferma[c].ids]]
  /\ UNCHANGED <<inAtto, vistiUltimo, transazione, annunci, risposta, daConfermare, ricevute,
                 cicli, cambi, perdite>>

ConfermaRicevuta(c) ==
  /\ conferma[c].passo = "risposta"
  /\ conferma' = [conferma EXCEPT ![c] = Ferma]
  /\ daConfermare' = daConfermare \ conferma[c].ids
  /\ UNCHANGED <<inAtto, tavola, transazione, annunci, risposta, ricevute, cicli, cambi, perdite>>

\* The request, its transaction or its answer is lost.
ConfermaPersa(c) ==
  /\ conferma[c] # Ferma
  /\ Perde
  /\ conferma' = [conferma EXCEPT ![c] = Ferma]
  /\ UNCHANGED <<inAtto, tavola, transazione, annunci, risposta, daConfermare, ricevute, cicli, cambi>>

-----------------------------------------------------------------------------
PassoCiclo == GeneraNotifiche \/ ConcludiCiclo
PassoConferma(c) == MindConferma(c) \/ LeggeConferma(c) \/ MarcaLette(c) \/ ConfermaRicevuta(c)

Next ==
  \/ \E s \in Situazioni : Cambia(s)
  \/ AvviaCiclo \/ PassoCiclo \/ CicloFallito
  \/ GetNotifications \/ RispostaArriva \/ RispostaPersa
  \/ \E c \in Conferme : PassoConferma(c) \/ ConfermaPersa(c)

Spec == Init /\ [][Next]_vars

(***************************************************************************)
(* Mind polls and confirms for ever, requests and transactions end; the    *)
(* losses are finitely many.  That a cycle starts is not assumed.          *)
(***************************************************************************)
FairSpec ==
  /\ Spec
  /\ WF_vars(PassoCiclo)
  /\ WF_vars(GetNotifications) /\ WF_vars(RispostaArriva)
  /\ \A c \in Conferme : WF_vars(PassoConferma(c))

-----------------------------------------------------------------------------
(***************************************************************************)
(* Properties.                                                             *)
(***************************************************************************)

\* Types; nothing written is pending outside a cycle's transaction.
TypeOK ==
  /\ inAtto \subseteq Situazioni /\ visti \subseteq Situazioni
  /\ riga \in [Situazioni -> {"assente", "viva", "letta"}]
  /\ ciclo \in {"fermo", "aperto", "notificato"}
  /\ scritte \in [Situazioni -> {Intatta, "viva", "letta"}]
  /\ ciclo # "notificato" => scritte = NulladaScrivere
  /\ risposta = Nessuna \/ risposta \subseteq Situazioni
  /\ daConfermare \subseteq ricevute /\ ricevute \subseteq Situazioni
  /\ daAnnunciare \subseteq Situazioni /\ nuove \cup incrociate \subseteq Situazioni
  /\ cicli \in 0 .. MaxCicli /\ cambi \in 0 .. MaxCambi /\ perdite \in 0 .. MaxPerdite

\* No notice leaves the queue unseen: either a cycle found the link back, or
\* Mind received it, in any of its lives, before its confirmation marked it
\* (marca_lette, "Mind conferma la ricezione").
LettaSeRicevuta ==
  \A s \in Situazioni : riga[s] = "letta" => s \in risolte \cup ricevute

\* What a cycle announces, for the first time or again because it returned
\* (emetti, RESUSCITATA), stays in the queue until Mind receives it after that
\* announcement or a cycle finds it over, however often its one row was read and
\* closed before.  A first announcement is never in "incrociate"; a return is, if
\* an answer with the notice before, or its confirmation, is still to come.
NessunaSituazionePersa ==
  \A s \in nuove : riga[s] = "viva"

\* The notice of a link is alive only if the last completed cycle saw the
\* link down: a failed cycle or a late confirmation does not leave in the
\* queue, or put back, a notice the cycle has closed.
AvvisoFedele ==
  \A l \in Collegamenti : riga[l] = "viva" => l \in vistiUltimo

\* Every notice that comes alive is read in the end, whatever is lost.
OgniNotificaLetta ==
  \A s \in Situazioni : riga[s] = "viva" ~> riga[s] = "letta"

(***************************************************************************)
(* What does not hold.                                                     *)
(***************************************************************************)
\* "La stessa situazione non rigenera una notifica a ogni ciclo" (sync.py:185):
\* a situation that was already there at the last completed cycle does not
\* come back to the queue.
NonRigenerata ==
  [][\A s \in vistiUltimo : riga[s] = "letta" => riga'[s] # "viva"]_vars

\* "Restano in coda finché Mind non le legge in polling" (notifiche.py:5), also
\* across an older answer or confirmation.  It is not so: marca_lette marks the
\* row that came back, by the id it has had from the first notice.
RestaFinoAllaLettura ==
  \A s \in nuove \cup incrociate : riga[s] = "viva"
=============================================================================
