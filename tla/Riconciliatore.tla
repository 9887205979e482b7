--------------------------- MODULE Riconciliatore ---------------------------
(***************************************************************************)
(* The reconciliation of bank movements with open invoices                 *)
(* (adapters/mock/providers.py, class MockRiconciliatore, behind the port  *)
(* Riconciliatore of domain/porte.py).                                     *)
(*                                                                         *)
(* The code walks the movements in the order of the list and pours each    *)
(* one into the open invoices of its debtor, oldest due date first.  Here  *)
(* the result has a closed form: lay the residual amounts of a debtor's    *)
(* invoices end to end in due date order, lay the movements of that debtor *)
(* end to end in list order, and a movement pays of an invoice the length  *)
(* their two intervals share.                                              *)
(***************************************************************************)
EXTENDS Integers, FiniteSetsExt

CONSTANTS
  Fatture,      \* invoices
  Movimenti,    \* bank movements
  Debitore,     \* [Fatture -> client]: who owes the invoice
  Scadenza,     \* [Fatture -> Nat]: the day T it is due
  Numero,       \* [Fatture -> Nat]: the order of the numbers, ties as in the list
  Mittente,     \* [Movimenti -> client]: piva_cf_controparte
  Posto         \* [Movimenti -> Nat]: place in the list of movements

Massimo(a, b) == IF a > b THEN a ELSE b
Minimo(a, b) == IF a < b THEN a ELSE b

\* Sort key (data_scadenza, numero) of the loop over the invoices.
PrimaInScadenza(f, g) ==
  \/ Scadenza[f] < Scadenza[g]
  \/ Scadenza[f] = Scadenza[g] /\ Numero[f] < Numero[g]

SommaSu(valore, S) == MapThenSumSet(LAMBDA x : valore[x], S)

\* What the debtor still owes on the invoices that are served before f.
InizioFattura(residuo, f) ==
  SommaSu(residuo, {g \in Fatture : Debitore[g] = Debitore[f] /\ PrimaInScadenza(g, f)})

\* What the same sender paid with the movements listed before m.
InizioMovimento(disponibile, m) ==
  SommaSu(disponibile, {n \in Movimenti : Mittente[n] = Mittente[m] /\ Posto[n] < Posto[m]})

Quota(residuo, disponibile, m, f) ==
  IF Mittente[m] # Debitore[f] THEN 0
  ELSE LET inizioF == InizioFattura(residuo, f)
           inizioM == InizioMovimento(disponibile, m)
       IN  Massimo(0, Minimo(inizioF + residuo[f], inizioM + disponibile[m])
                        - Massimo(inizioF, inizioM))

\* The payments found: how much of each movement goes to each invoice.  An
\* invoice that is not open has residual 0, a movement that is not available 0.
Riconcilia(residuo, disponibile) ==
  [mf \in Movimenti \X Fatture |-> Quota(residuo, disponibile, mf[1], mf[2])]
=============================================================================
