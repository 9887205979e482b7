----------------------------- MODULE MCCalcoli -----------------------------
(***************************************************************************)
(* The algorithms over bounded inputs: a day of the calendar, year by      *)
(* year, or a batch of four invoices and a list of movements for the loop  *)
(* of the reconciler.                                                      *)
(***************************************************************************)
EXTENDS Giorni, Scorrimento

CONSTANT Lunghezza   \* bound: movements in a list

\* With the two years of this century in which the rule of Easter makes an
\* exception (2049 and 2076), and a century that is not a leap year.
AnniK == 2024 .. 2050 \cup {2076, 2100}

\* F1 and F2 are due together and F2 has the lower number.
FattureK == {"F1", "F2", "F3", "F4"}
DebitoreK == [F1 |-> "A", F2 |-> "A", F3 |-> "A", F4 |-> "B"]
ScadenzaK == [F1 |-> 1, F2 |-> 1, F3 |-> 2, F4 |-> 1]
NumeroK == [F1 |-> 2, F2 |-> 1, F3 |-> 1, F4 |-> 1]
ImportiK == {-1, 0, 2}

MovimentiK == {"M1", "M2", "M3", "M4"}
MittenteK == [M1 |-> "A", M2 |-> "A", M3 |-> "B", M4 |-> "ignoto"]
PostoK == [M1 |-> 1, M2 |-> 2, M3 |-> 3, M4 |-> 4]
Bonifici == [id : Movimenti, mittente : Controparti, importo : {-1, 1, 3}]

\* Any movement may come again, with another sender or amount.
InOrdine(l) ==
  \A i \in DOMAIN l :
    PrimoArrivo(l, i) => /\ l[i].mittente = Mittente[l[i].id]
                         /\ \A j \in 1 .. i - 1 : Posto[l[j].id] < Posto[l[i].id]

ListeK == UNION {{l \in [1 .. n -> Bonifici] : InOrdine(l)} : n \in 0 .. Lunghezza}

CalcoliInit ==
  \/ giorno = NessunGiorno /\ Init
  \/ GiorniInit /\ lista = << >> /\ importo = [f \in Fatture |-> 0] /\ Init

CalcoliSpec ==
  CalcoliInit /\ [][(GiornoDopo /\ UNCHANGED vars) \/ (Next /\ UNCHANGED giorno)]_<<giorno, vars>>
=============================================================================
