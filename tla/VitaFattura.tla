---------------------------- MODULE VitaFattura ----------------------------
(***************************************************************************)
(* What IREC promises of an invoice, seen from outside: the committed      *)
(* state, what is owed, the reminders still to be sent and those sent.     *)
(* How it keeps the promise (a cycle in phases, the bank, the operator,    *)
(* lost transactions) is the matter of module Incassi, which implements    *)
(* this one.                                                               *)
(*                                                                         *)
(* A transaction of the service may change many invoices, each by several  *)
(* of its steps: one that is imported, paid in part and reminded in the    *)
(* same cycle makes a single step here.                                    *)
(***************************************************************************)
EXTENDS Integers

CONSTANTS
  Fatture,
  Importo,    \* [Fatture -> Nat]: what is owed at first
  Solleciti   \* the reminders an invoice may have

VARIABLES
  stato,      \* [Fatture -> ...]
  residuo,    \* [Fatture -> Nat]
  daInviare,  \* [Fatture -> SUBSET Solleciti]
  inviati     \* [Fatture -> SUBSET Solleciti]

vars == <<stato, residuo, daInviare, inviati>>

Aperti == {"gestione", "pausa"}
Usciti == {"saldata", "insoluto"}

Init ==
  /\ stato = [f \in Fatture |-> "assente"]
  /\ residuo = [f \in Fatture |-> 0]
  /\ daInviare = [f \in Fatture |-> {}] /\ inviati = [f \in Fatture |-> {}]

Ferma(f) ==
  /\ stato'[f] = stato[f] /\ residuo'[f] = residuo[f]
  /\ daInviare'[f] = daInviare[f] /\ inviati'[f] = inviati[f]

\* In a new state of the invoice: settled when nothing is owed, nothing to
\* send once out of the flow, nothing to send that was sent.
InRegola(f) ==
  /\ stato'[f] \in Aperti \cup Usciti
  /\ residuo'[f] \in 0 .. Importo[f]
  /\ stato'[f] = "saldata" <=> residuo'[f] = 0
  /\ stato'[f] \in Usciti => daInviare'[f] = {}
  /\ daInviare'[f] \subseteq Solleciti \ inviati'[f]
  /\ inviati'[f] \subseteq Solleciti

\* Nobody can have paused an invoice that is not known yet.
Nasce(f) ==
  /\ stato[f] = "assente" /\ stato'[f] # "pausa"
  /\ InRegola(f)

\* An open invoice: what is owed only goes down, what was sent stays sent, and
\* only what was to be sent is sent.
Procede(f) ==
  /\ stato[f] \in Aperti
  /\ residuo'[f] <= residuo[f]
  /\ inviati[f] \subseteq inviati'[f]
  /\ inviati'[f] \subseteq inviati[f] \cup daInviare[f]
  /\ InRegola(f)

\* An invoice that left the flow is never touched again.
Next == \A f \in Fatture : Ferma(f) \/ Nasce(f) \/ Procede(f)

Spec == Init /\ [][Next]_vars
=============================================================================
