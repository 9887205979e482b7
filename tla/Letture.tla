------------------------------ MODULE Letture ------------------------------
(***************************************************************************)
(* What the service answers about a tenant without changing it             *)
(* (services/letture.py, domain/brief.py, api/letture.py): the KPIs, the   *)
(* aging of the credit, the overdue invoices, why a reminder has or has    *)
(* not left.  Each is a function of the committed rows d and of the        *)
(* current instant.                                                        *)
(***************************************************************************)
EXTENDS Incassi

-----------------------------------------------------------------------------
(***************************************************************************)
(* calcola_kpi.                                                            *)
(***************************************************************************)
Affidato(d) == SommaSu(Importo, Presenti(d))

Recuperato(d) == SommaSu([f \in Fatture |-> Importo[f] - d.residuo[f]], Presenti(d))

PassatoARecupero(d) ==
  SommaSu(d.residuo, {f \in Presenti(d) : d.stato[f] = "insoluto"})

\* Fault: what was handed to debt recovery is still to be recovered here.
DaRecuperare_conInsoluti(d) == SommaSu(d.residuo, Presenti(d))

DaRecuperare(d) ==
  SommaSu(d.residuo, {f \in Presenti(d) : d.stato[f] # "insoluto"})

\* fatture_per_stato, posizioni_aperte, posizioni_chiuse.
FatturePerStato(d) ==
  [s \in StatiFattura |-> Cardinality({f \in Fatture : d.stato[f] = s})]

Posizioni(d, stato) == Cardinality({p \in Fatture : d.statoPos[p] = stato})

\* percentuale_recuperato, cut to an integer.
Percentuale(affidato, recuperato) ==
  IF affidato <= 0 THEN 0 ELSE (100 * recuperato) \div affidato

-----------------------------------------------------------------------------
(***************************************************************************)
(* calcola_aging and elenco_scadute.                                       *)
(***************************************************************************)
Fasce == {"a_scadere", "0-30", "31-60", "61-90", "90+"}

Fascia(giorni) ==
  CASE giorni < 0 -> "a_scadere"
    [] giorni \in 0 .. 30 -> "0-30"
    [] giorni \in 31 .. 60 -> "31-60"
    [] giorni \in 61 .. 90 -> "61-90"
    [] OTHER -> "90+"

InFascia(d, fascia) ==
  {f \in Fatture : d.stato[f] \in STATI_CREDITO_APERTO /\ Fascia(oggi - Scadenza[f]) = fascia}

Aging(d) == [b \in Fasce |-> SommaSu(d.residuo, InFascia(d, b))]

\* e_scaduta: an invoice due today is not overdue yet.
Scadute(d) == {f \in Fatture : d.stato[f] \in STATI_CREDITO_APERTO /\ Scadenza[f] < oggi}

-----------------------------------------------------------------------------
(***************************************************************************)
(* spiegazione_comunicazione.                                              *)
(***************************************************************************)
Spiegazione(d, c) ==
  CASE d.com[c] = "inviata" -> "inviata"
    [] d.com[c] = "fallita" -> "recapito_fallito"
    [] d.com[c] = "saltata" -> "saltata"
    [] d.com[c] = "annullata" ->
         (CASE d.stato[c[1]] = "saldata" -> "annullata_fattura_saldata"
            [] d.stato[c[1]] = "insoluto" -> "annullata_escalation"
            [] OTHER -> "annullata")
    [] d.com[c] = "programmata" ->
         IF d.stato[c[1]] = "pausa" THEN "in_attesa_ripresa"
         ELSE IF InFuturo(c) THEN "programmata" ELSE "in_coda"

-----------------------------------------------------------------------------
(***************************************************************************)
(* Properties.                                                             *)
(***************************************************************************)

\* The answers agree with each other and with the rows at every commit,
\* although each follows rules of its own: "affidato = recuperato + da
\* recuperare + passato a recupero" with what is to be recovered the total of
\* the aging, all recovered means no credit open or handed over, an invoice is
\* overdue or in no band past its date but for the day itself, and nobody is
\* told that a reminder of a finished invoice is still to leave.
LettureCoerenti ==
  LET aging == Aging(db)
      percentuale == Percentuale(Affidato(db), Recuperato(db))
      oltre == UNION {InFascia(db, b) : b \in Fasce \ {"a_scadere"}}
  IN  /\ Affidato(db) = Recuperato(db) + DaRecuperare(db) + PassatoARecupero(db)
      /\ DaRecuperare(db) = SommaSu(aging, Fasce)
      /\ percentuale \in 0 .. 100
      /\ percentuale = 100 => FatturePerStato(db)["saldata"] = Cardinality(Presenti(db))
      /\ Scadute(db) = oltre \ {f \in Fatture : Scadenza[f] = oggi}
      /\ \A c \in {k \in Comunicazioni : db.com[k] # "assente"} :
           Spiegazione(db, c) \in {"programmata", "in_coda", "in_attesa_ripresa"}
           => /\ c[1] \in UNION {InFascia(db, b) : b \in Fasce}
              /\ Posizioni(db, "aperta") > 0
=============================================================================
