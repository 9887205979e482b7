---------------------------- MODULE Scorrimento ----------------------------
(***************************************************************************)
(* The loop of the reconciler (adapters/mock/providers.py, riconcilia) as  *)
(* the code runs it: movement after movement, and for each of them invoice *)
(* after invoice of its debtor, by due date.  The rest of the project uses *)
(* the closed form of module Riconciliatore; here is what makes it so.     *)
(*                                                                         *)
(* Amounts may be zero or negative, as the bank sends them, and a movement *)
(* may be in the list more than once, with another sender or amount.  What *)
(* Riconciliatore calls the sender and the place of a movement are those   *)
(* of its first arrival.                                                   *)
(***************************************************************************)
EXTENDS Riconciliatore, Sequences

CONSTANTS
  Controparti,   \* who a movement may be from
  Importi,       \* the amounts an invoice may have
  Liste          \* the lists of movements that may be given

PrimoArrivo(l, i) == \A j \in 1 .. i - 1 : l[j].id # l[i].id

ASSUME ScorrimentoAssumption ==
  /\ IsFiniteSet(Fatture) /\ IsFiniteSet(Movimenti)
  /\ Scadenza \in [Fatture -> Nat] /\ Numero \in [Fatture -> Nat]
  /\ \A f, g \in Fatture :
       f # g /\ Debitore[f] = Debitore[g] => PrimaInScadenza(f, g) \/ PrimaInScadenza(g, f)
  /\ Posto \in [Movimenti -> Nat]
  /\ \A m, n \in Movimenti : m # n => Posto[m] # Posto[n]
  /\ Importi \subseteq Int
  /\ Liste \subseteq Seq([id : Movimenti, mittente : Controparti, importo : Int])
  /\ \A l \in Liste : \A i \in DOMAIN l :
       PrimoArrivo(l, i) => /\ l[i].mittente = Mittente[l[i].id]
                            /\ \A j \in 1 .. i - 1 : Posto[l[j].id] < Posto[l[i].id]

VARIABLES
  importo,           \* what the invoices amount to
  lista,             \* the movements
  indice,            \* how many of them the outer loop has taken
  visti,             \* their ids
  residui,           \* what is left to pay of each invoice
  pagamenti,         \* what each movement paid of each invoice
  nonRiconciliati,   \* movements that paid nothing
  aperte,            \* invoices the inner loop has still to serve
  daAllocare         \* what is left of the movement it is serving

lotto == <<importo, lista>>
vars == <<lotto, indice, visti, residui, pagamenti, nonRiconciliati, aperte, daAllocare>>

Init ==
  /\ importo \in [Fatture -> Importi] /\ lista \in Liste
  /\ indice = 0 /\ visti = {} /\ nonRiconciliati = {}
  /\ residui = importo
  /\ pagamenti = [mf \in Movimenti \X Fatture |-> 0]
  /\ aperte = {} /\ daAllocare = 0

-----------------------------------------------------------------------------
(***************************************************************************)
(* The outer loop, when the inner one is over.                             *)
(***************************************************************************)
movimento == lista[indice + 1]

Prossimo ==
  /\ aperte = {} /\ indice < Len(lista)
  /\ indice' = indice + 1
  /\ UNCHANGED <<lotto, residui, pagamenti>>

\* The invoices of per_debitore that are not paid yet.
AperteDi(debitore) == {f \in Fatture : Debitore[f] = debitore /\ residui[f] > 0}

\* continue: one time only, whatever the second one says.
Ripetuto ==
  /\ Prossimo
  /\ movimento.id \in visti
  /\ UNCHANGED <<visti, nonRiconciliati, aperte, daAllocare>>

Scartato ==
  /\ Prossimo
  /\ movimento.id \notin visti
  /\ AperteDi(movimento.mittente) = {} \/ movimento.importo <= 0
  /\ visti' = visti \cup {movimento.id}
  /\ nonRiconciliati' = nonRiconciliati \cup {movimento.id}
  /\ UNCHANGED <<aperte, daAllocare>>

Abbinato ==
  /\ Prossimo
  /\ movimento.id \notin visti
  /\ AperteDi(movimento.mittente) # {} /\ movimento.importo > 0
  /\ visti' = visti \cup {movimento.id}
  /\ aperte' = AperteDi(movimento.mittente)
  /\ daAllocare' = movimento.importo
  /\ UNCHANGED nonRiconciliati

(***************************************************************************)
(* The inner loop: the next invoice by due date and number, until nothing  *)
(* is left to allocate.                                                    *)
(***************************************************************************)
\* Fault: an invoice is served up to its amount, whatever was paid of it.
Capienza_intera(f) == importo[f]

Capienza(f) == residui[f]

Alloca(f) ==
  LET quota == Minimo(daAllocare, Capienza(f)) IN
  /\ f \in aperte /\ \A g \in aperte \ {f} : PrimaInScadenza(f, g)
  /\ residui' = [residui EXCEPT ![f] = @ - quota]
  /\ pagamenti' = [pagamenti EXCEPT ![<<lista[indice].id, f>>] = @ + quota]
  /\ daAllocare' = daAllocare - quota
  /\ aperte' = IF daAllocare' <= 0 THEN {} ELSE aperte \ {f}
  /\ UNCHANGED <<lotto, indice, visti, nonRiconciliati>>

Next == Ripetuto \/ Scartato \/ Abbinato \/ \E f \in Fatture : Alloca(f)

Spec == Init /\ [][Next]_vars

-----------------------------------------------------------------------------
(***************************************************************************)
(* The outcome.                                                            *)
(***************************************************************************)
Finito == aperte = {} /\ indice = Len(lista)

FattureDaPagare == {f \in Fatture : residui[f] > 0 \/ importo[f] <= 0}

Positivo(x) == Massimo(0, x)

\* What there is to pay of an invoice, and what a movement brings: the amount
\* of the first arrival, unless it is a reversal.
Dovuti == [f \in Fatture |-> Positivo(importo[f])]

Arrivi(l, m) == {i \in DOMAIN l : l[i].id = m /\ PrimoArrivo(l, i)}
Disponibile(l, m) ==
  IF Arrivi(l, m) = {} THEN 0 ELSE Positivo(l[CHOOSE i \in Arrivi(l, m) : TRUE].importo)
Portati == [m \in Movimenti |-> Disponibile(lista, m)]

Versato(m) == SommaSu([f \in Fatture |-> pagamenti[<<m, f>>]], Fatture)
Ricevuto(f) == SommaSu([m \in Movimenti |-> pagamenti[<<m, f>>]], Movimenti)

\* "Ogni fattura in input e' nell'esito, o pagata per intero o da pagare"
\* (providers.py:118), no movement is lost either, and of a movement something
\* is left over only when its debtor has paid everything.
EsitoCompleto ==
  /\ \A f \in Fatture :
       IF f \in FattureDaPagare THEN Ricevuto(f) <= Dovuti[f] ELSE Ricevuto(f) = importo[f]
  /\ \A m \in visti :
       /\ m \in nonRiconciliati <=> Versato(m) = 0
       /\ Versato(m) < Portati[m] =>
            \A f \in Fatture : Debitore[f] = Mittente[m] => residui[f] <= 0

\* The allocation that the whole project takes for granted (Riconciliatore)
\* is what the loop of the code computes, and its outcome forgets nothing.
AbbinamentoCorretto ==
  Finito => /\ visti = {lista[i].id : i \in DOMAIN lista}
            /\ pagamenti = Riconcilia(Dovuti, Portati)
            /\ EsitoCompleto
=============================================================================
