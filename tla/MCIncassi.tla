----------------------------- MODULE MCIncassi -----------------------------
(***************************************************************************)
(* Small tenants for model checking Incassi.  Invoices, movements, steps   *)
(* and clients are strings, so that a constant function is a record.  The  *)
(* instants are the days on which something can change for the invoices of *)
(* the scenario, each at 11:00 (after the sending hour) unless said.       *)
(***************************************************************************)
EXTENDS Letture

Alle(giorno, ora) == 24 * giorno + ora

\* Two invoices of one client, due on days 10 and 12, an email step before T
\* and a WhatsApp step after it; one bank transfer that covers the first and
\* half of the second.
DebitoreA == [F1 |-> "C1", F2 |-> "C1"]
ImportoA == [F1 |-> 2, F2 |-> 2]
EmissioneA == [F1 |-> 1, F2 |-> 7]
ScadenzaA == [F1 |-> 10, F2 |-> 12]
NumeroA == [F1 |-> 1, F2 |-> 2]
MittenteA == [M1 |-> "C1"]
BonificoA == [M1 |-> 3]
DataMovimentoA == [M1 |-> 12]
PostoA == [M1 |-> 1]
OffsetA == [P1 |-> -2, P2 |-> 3]
CanaleA == [P1 |-> "email", P2 |-> "whatsapp"]
RecapitiA == [C1 |-> {"email", "telefono"}]
IstantiA == {Alle(3, 11), Alle(9, 9), Alle(9, 11), Alle(13, 11), Alle(54, 11), Alle(55, 11)}
InizioA == Alle(3, 11)

ChiaviA == {<<"K1", "">>}
SoloTelefono == {{"telefono"}}
SoloEmail == [C1 |-> {"email"}]
SoloOptOutA == {{}}
Tutti == {Collegamenti}
UnoAlmeno == SUBSET Collegamenti \ {{}}

\* The same client where transactions are lost and links are down: the first
\* invoice is due when the second is imported, two transfers pay them at two
\* instants, and the client cannot be reached on WhatsApp.
DataMovimentoB == [M1 |-> 9, M2 |-> 13]
IstantiB == {Alle(9, 11), Alle(13, 11), Alle(55, 11)}
InizioB == Alle(9, 11)
MittenteB == [M1 |-> "C1", M2 |-> "C1"]
BonificoB == [M1 |-> 1, M2 |-> 2]
PostoB == [M1 |-> 1, M2 |-> 2]

\* A single invoice whose flow is replaced while the client's contacts change.
DebitoreC == [F1 |-> "C1"]
ImportoC == [F1 |-> 2]
EmissioneC == [F1 |-> 1]
ScadenzaC == [F1 |-> 10]
NumeroC == [F1 |-> 1]
DueFlussiC == {{"P1"}, {"P1", "P2"}}

\* The same invoice over the days around T+45, which falls on a day without
\* a cycle: T+44 is day 54, the next instant is day 57.
IstantiC == {Alle(3, 11), Alle(13, 11), Alle(54, 11), Alle(57, 11)}

\* The scenario of the documented rules: no cycle runs on day 54, and one runs
\* late enough for two email steps of the invoice to be due together.
IstantiD == {Alle(3, 11), Alle(13, 11), Alle(55, 11)}
CanaleD == [P1 |-> "email", P2 |-> "email"]
DataMovimentoD == [M1 |-> 12]
BonificoD == [M1 |-> 1]
=============================================================================
