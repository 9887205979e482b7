------------------------------ MODULE Dominio ------------------------------
(***************************************************************************)
(* The pure rules of the IREC domain (irec/domain): states of invoices and *)
(* positions, the effect of a payment, escalation thresholds, channels and *)
(* planned sending instants.  No variables: every other module of the      *)
(* project takes its decisions through these operators, as the services do *)
(* through the functions of the same names.                                *)
(*                                                                         *)
(* Amounts are whole cents, days are integers, instants are hours counted  *)
(* from the origin of the days (instant 24 * g + h is hour h of day g).    *)
(***************************************************************************)
EXTENDS Integers

(***************************************************************************)
(* Invoices and positions.                                                 *)
(***************************************************************************)
StatiFattura == {"gestione", "pausa", "saldata", "insoluto"}

STATI_TERMINALI == {"saldata", "insoluto"}
STATI_NON_SOLLECITABILI == {"saldata", "pausa", "insoluto"}
STATI_CREDITO_APERTO == {"gestione", "pausa"}

PuoRicevereSollecito(stato) == stato \notin STATI_NON_SOLLECITABILI

\* Fault: the comparison with zero is strict.
StatoDopoPagamento_stretto(stato, residuo) == IF residuo < 0 THEN "saldata" ELSE stato

\* Nothing left to pay settles the invoice from any state; a partial payment
\* leaves it where it is.
StatoDopoPagamento(stato, residuo) == IF residuo <= 0 THEN "saldata" ELSE stato

\* Fault: the floor at zero is missing.
ResiduoDopoIncasso_negativo(residuo, incassato) == residuo - incassato

\* The part of an excess payment that exceeds the debt is not a credit.
ResiduoDopoIncasso(residuo, incassato) ==
  IF residuo - incassato > 0 THEN residuo - incassato ELSE 0

\* Fault: only settled invoices count as finished.
StatoPosizione_soloSaldate(stati) == IF stati = {"saldata"} THEN "chiusa" ELSE "aperta"

\* A position without invoices is open.
StatoPosizione(stati) ==
  IF stati # {} /\ stati \subseteq STATI_TERMINALI THEN "chiusa" ELSE "aperta"

(***************************************************************************)
(* Escalation to debt recovery.                                            *)
(***************************************************************************)
ESCALATION_OFFSET_GIORNI == 45
PREAVVISO_ESCALATION_GIORNI == 44

\* Fault: only the very day T+45 counts.
InEscalation_soloQuelGiorno(oggi, scadenza) == oggi - scadenza = ESCALATION_OFFSET_GIORNI

InEscalation(oggi, scadenza) == oggi - scadenza >= ESCALATION_OFFSET_GIORNI
EscalationImminente(oggi, scadenza) == oggi - scadenza = PREAVVISO_ESCALATION_GIORNI

(***************************************************************************)
(* Channels.  A client has a set of contacts ("email", "pec", "telefono")  *)
(* and a set of channels it opted out of.                                  *)
(***************************************************************************)
Pacchetti == {"entry", "value", "premium"}
Canali == {"email", "pec", "whatsapp", "voice"}
Recapiti == {"email", "pec", "telefono"}

CANALI_PER_PACCHETTO ==
  [entry   |-> {"email", "pec"},
   value   |-> {"email", "pec", "whatsapp"},
   premium |-> {"email", "pec", "whatsapp", "voice"}]

PACCHETTI_CON_FLUSSO_PERSONALIZZABILE == {"value", "premium"}

RecapitoPerCanale ==
  [email |-> "email", pec |-> "pec", whatsapp |-> "telefono", voice |-> "telefono"]

\* TRUE when motivo_salto finds no reason to skip a step on this channel.
CanaleUtilizzabile(canale, pacchetto, recapiti, optOut) ==
  /\ canale \in CANALI_PER_PACCHETTO[pacchetto]
  /\ canale \notin optOut
  /\ RecapitoPerCanale[canale] \in recapiti

(***************************************************************************)
(* Planned instants: T + offset at 10:00, moved to the first working day.  *)
(* The calendar is the set "festivi" of the days without sending.          *)
(***************************************************************************)
ORA_INVIO == 10
ORA_LIMITE == 18

Giorno(istante) == istante \div 24
Ora(istante) == istante % 24

\* No Italian calendar has more consecutive days without sending than this.
MaxFestiviConsecutivi == 7

ProssimoGiornoUtile(giorno, festivi) ==
  CHOOSE g \in giorno .. giorno + MaxFestiviConsecutivi :
    /\ g \notin festivi
    /\ \A h \in giorno .. g - 1 : h \in festivi

\* After 18:00 an instant moves to the next day, from a day without sending to
\* the next working day, in both cases at the sending hour.
ApplicaFinestra(istante, festivi) ==
  LET tardi == Ora(istante) > ORA_LIMITE
      giorno == Giorno(istante) + (IF tardi THEN 1 ELSE 0)
      utile == ProssimoGiornoUtile(giorno, festivi)
  IN  24 * utile + (IF tardi \/ utile # giorno THEN ORA_INVIO ELSE Ora(istante))

IstanteStep(scadenza, offset, festivi) ==
  ApplicaFinestra(24 * (scadenza + offset) + ORA_INVIO, festivi)
=============================================================================
