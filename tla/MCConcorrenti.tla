--------------------------- MODULE MCConcorrenti ---------------------------
(***************************************************************************)
(* A small tenant for IncassiConcorrenti: two invoices of one client, a    *)
(* transfer that covers half of the first, one reminder per invoice, and   *)
(* two requests that may be open while a cycle runs.                       *)
(***************************************************************************)
EXTENDS IncassiConcorrenti

Alle(giorno, ora) == 24 * giorno + ora

DebitoreK == [F1 |-> "C1", F2 |-> "C1"]
ImportoK == [F1 |-> 2, F2 |-> 1]
EmissioneK == [F1 |-> 1, F2 |-> 7]
ScadenzaK == [F1 |-> 10, F2 |-> 12]
NumeroK == [F1 |-> 1, F2 |-> 2]
MittenteK == [M1 |-> "C1"]
BonificoK == [M1 |-> 1]
DataMovimentoK == [M1 |-> 12]
PostoK == [M1 |-> 1]
OffsetK == [P1 |-> 3]
CanaleK == [P1 |-> "email"]
RecapitiK == [C1 |-> {"email"}]

\* First import; second import, transfer and due reminder; escalation.
IstantiK == {Alle(3, 11), Alle(13, 11), Alle(55, 11)}
InizioK == Alle(3, 11)
ChiaviK == {<<"K1", "">>}
SenzaOptOutK == {{}}
TuttiK == {Collegamenti}
=============================================================================
