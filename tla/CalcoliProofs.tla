--------------------------- MODULE CalcoliProofs ---------------------------
(***************************************************************************)
(* The two algorithms of the domain, for all their inputs.                 *)
(*                                                                         *)
(* The loop of the reconciler computes its closed form.  The invoices of a *)
(* debtor are laid end to end, and so are its movements: at each turn of   *)
(* the inner loop the debtor's money has come to one point of that line    *)
(* (Raggiunto), and the residuals and the payments are what that point     *)
(* leaves behind it.                                                       *)
(*                                                                         *)
(* Then the calendar, on every day after 1970: the year of a day, from the *)
(* divisions of the leap years; the holidays, by their distance from the   *)
(* first of March, never more than three in eight days; the clock of Rome, *)
(* the same from 01:00 UTC to midnight; and Easter against the tables of   *)
(* the Church.                                                             *)
(***************************************************************************)
EXTENDS Scorrimento, SommeProofs, Giorni


\* What the movements taken so far brought.
Preso == [m \in Movimenti |-> IF m \in visti THEN Portati[m] ELSE 0]

Corrente == lista[indice].id

\* Where the money of a debtor has come to: all of it but for what the inner
\* loop still holds.
Raggiunto(cliente) ==
  Pagato(Preso, cliente) - (IF aperte # {} /\ cliente = Mittente[Corrente] THEN daAllocare ELSE 0)

\* Where a movement begins, and how far it has come.
Partenza(m) == InizioMovimento(Portati, m)
Arrivo(m) == Partenza(m) + Portati[m] - (IF aperte # {} /\ m = Corrente THEN daAllocare ELSE 0)

TypeOK ==
  /\ importo \in [Fatture -> Int] /\ lista \in Liste
  /\ indice \in 0 .. Len(lista)
  /\ visti = {lista[i].id : i \in 1 .. indice}
  /\ residui \in [Fatture -> Int]
  /\ pagamenti \in [Movimenti \X Fatture -> Int]
  /\ nonRiconciliati \in SUBSET visti /\ aperte \in SUBSET Fatture
  /\ daAllocare \in Int

\* While a movement is served, the invoices left are all its debtor has open.
InServizio ==
  aperte # {} =>
    /\ indice > 0
    /\ 0 < daAllocare /\ daAllocare <= Portati[Corrente]
    /\ aperte = AperteDi(Mittente[Corrente])
    /\ Pagato(Preso, Mittente[Corrente]) = Partenza(Corrente) + Portati[Corrente]

ResiduiEsatti ==
  \A f \in Fatture :
    residui[f] = importo[f] - Fino(InizioFattura(Dovuti, f), Dovuti[f], Raggiunto(Debitore[f]))

PagamentiEsatti ==
  \A m \in Movimenti, f \in Fatture :
    pagamenti[<<m, f>>] =
      IF m \in visti /\ Mittente[m] = Debitore[f]
      THEN Fra(InizioFattura(Dovuti, f), Dovuti[f], Partenza(m), Arrivo(m)) ELSE 0

ScartiEsatti ==
  \A m \in visti :
    m \in nonRiconciliati <=> Portati[m] = 0 \/ Dovuto(Dovuti, Mittente[m]) <= Partenza(m)

Inv == TypeOK /\ InServizio /\ ResiduiEsatti /\ PagamentiEsatti /\ ScartiEsatti

-----------------------------------------------------------------------------
(***************************************************************************)
(* An interval and a point that advances.                                  *)
(***************************************************************************)
\* A point past the interval changes nothing by advancing.
LEMMA OltreIntervallo ==
  ASSUME NEW a \in Nat, NEW l \in Nat, NEW x \in Nat, NEW y \in Nat, NEW z \in Nat,
         z <= x, x <= y, l = 0 \/ a + l <= x
  PROVE  /\ Fino(a, l, x) = l /\ Fino(a, l, y) = l
         /\ Fra(a, l, z, y) = Fra(a, l, z, x)
  BY DEF Fino, Fra, Massimo, Minimo

\* Nor does one that is still before it.
LEMMA PrimaDellIntervallo ==
  ASSUME NEW a \in Nat, NEW l \in Nat, NEW x \in Nat, NEW y \in Nat, NEW z \in Nat,
         z <= x, x <= y, y <= a
  PROVE  /\ Fino(a, l, x) = 0 /\ Fino(a, l, y) = 0
         /\ Fra(a, l, z, x) = 0 /\ Fra(a, l, z, y) = 0
  BY DEF Fino, Fra, Massimo, Minimo

\* Something is left to pay of an amount if the point is not past it.
LEMMA RestoAperto ==
  ASSUME NEW i \in Int, NEW l, l = Positivo(i), NEW a \in Nat, NEW x \in Nat
  PROVE  /\ l \in Nat /\ Fino(a, l, x) \in Nat /\ Fino(a, l, x) <= l
         /\ i - Fino(a, l, x) > 0 <=> l # 0 /\ x < a + l
         /\ l # 0 => l = i
  BY DEF Fino, Positivo, Massimo, Minimo

(***************************************************************************)
(* The invoices of a debtor, end to end.                                   *)
(***************************************************************************)
LEMMA Ordine == Ordinate /\ InLista
  BY ScorrimentoAssumption DEF Ordinate, InLista

LEMMA InizioNaturale ==
  ASSUME NEW residuo \in [Fatture -> Nat], NEW f \in Fatture
  PROVE  InizioFattura(residuo, f) \in Nat
<1> DEFINE S == {g \in Fatture : Debitore[g] = Debitore[f] /\ PrimaInScadenza(g, f)}
<1>1. IsFiniteSet(S) /\ Naturale(residuo, S)
  BY ScorrimentoAssumption, FS_Subset DEF Naturale
<1>2. InizioFattura(residuo, f) = SommaSu(residuo, S)
  BY DEF InizioFattura
<1> HIDE DEF S
<1> QED BY <1>1, <1>2, SommaNaturale

\* If the point is past each of the first invoices of a debtor, it is past
\* them all together.
LEMMA TuttePassate ==
  ASSUME NEW residuo \in [Fatture -> Nat], NEW r \in Nat, NEW S \in SUBSET Fatture,
         \A f, g \in S : Debitore[f] = Debitore[g],
         \A f \in S, g \in Fatture : Debitore[g] = Debitore[f] /\ PrimaInScadenza(g, f) => g \in S,
         \A f \in S : residuo[f] = 0 \/ InizioFattura(residuo, f) + residuo[f] <= r
  PROVE  SommaSu(residuo, S) <= r
<1> DEFINE P == {p \in Fatture \X Fatture : PrimaInScadenza(p[1], p[2])}
           i == [f \in Fatture |-> InizioFattura(residuo, f)]
           c == [f \in Fatture |-> Fino(i[f], residuo[f], r)]
<1>1. IsFiniteSet(S) /\ Naturale(residuo, S)
  BY ScorrimentoAssumption, FS_Subset DEF Naturale
<1>2. \A f, g \in Fatture : <<f, g>> \in P <=> PrimaInScadenza(f, g)
  OBVIOUS
<1>3. InFila(P, S)
  <2> HIDE DEF P
  <2> QED BY <1>2, Ordine DEF InFila, PrimaInScadenza, Ordinate
<1>4. Accodati(P, S, residuo, i)
  <2> SUFFICES ASSUME NEW f \in S PROVE i[f] = SommaSu(residuo, {g \in S : <<g, f>> \in P})
    BY DEF Accodati
  <2>1. {g \in S : <<g, f>> \in P}
          = {g \in Fatture : Debitore[g] = Debitore[f] /\ PrimaInScadenza(g, f)}
    OBVIOUS
  <2> QED BY <2>1 DEF InizioFattura
<1>5. \A f \in S : c[f] = residuo[f]
  <2> SUFFICES ASSUME NEW f \in S PROVE Fino(i[f], residuo[f], r) = residuo[f]
    OBVIOUS
  <2>1. i[f] \in Nat /\ residuo[f] \in Nat /\ (residuo[f] = 0 \/ i[f] + residuo[f] <= r)
    BY InizioNaturale
  <2> HIDE DEF i
  <2> QED BY <2>1 DEF Fino, Massimo, Minimo
<1>6. \A f \in S : c[f] = Fino(i[f], residuo[f], r)
  OBVIOUS
<1> HIDE DEF P, i, c
<1>7. SommaSu(c, S) = Minimo(r, SommaSu(residuo, S))
  BY <1>1, <1>3, <1>4, <1>6, FilaCopre
<1>8. SommaSu(c, S) = SommaSu(residuo, S)
  BY <1>1, <1>5, SommaUguale
<1>9. SommaSu(residuo, S) \in Nat
  BY <1>1, SommaNaturale
<1> QED BY <1>7, <1>8, <1>9 DEF Minimo

\* An invoice ends where those of its debtor do, or before.
LEMMA FineEntroIlDovuto ==
  ASSUME NEW residuo \in [Fatture -> Nat], NEW f \in Fatture
  PROVE  /\ Dovuto(residuo, Debitore[f]) \in Nat
         /\ InizioFattura(residuo, f) + residuo[f] <= Dovuto(residuo, Debitore[f])
<1> DEFINE S == {g \in Fatture : Debitore[g] = Debitore[f] /\ PrimaInScadenza(g, f)}
           T == {g \in Fatture : Debitore[g] = Debitore[f]}
<1>1. IsFiniteSet(S) /\ IsFiniteSet(T) /\ Naturale(residuo, T) /\ Naturale(residuo, S \cup {f})
  BY ScorrimentoAssumption, FS_Subset DEF Naturale
<1>2. f \notin S
  BY Ordine DEF PrimaInScadenza, Ordinate
<1>3. S \cup {f} \in SUBSET T /\ \A x \in S \cup {f} : residuo[x] <= residuo[x]
  OBVIOUS
<1>4. InizioFattura(residuo, f) = SommaSu(residuo, S) /\ Dovuto(residuo, Debitore[f]) = SommaSu(residuo, T)
  BY DEF InizioFattura, Dovuto
<1> HIDE DEF S, T
<1>5. SommaSu(residuo, S \cup {f}) = residuo[f] + SommaSu(residuo, S)
  BY <1>1, <1>2, SommaAggiungi
<1>6. SommaSu(residuo, S \cup {f}) <= SommaSu(residuo, T)
  BY <1>1, <1>3, SommaMonotona
<1>7. SommaSu(residuo, T) \in Nat /\ SommaSu(residuo, S) \in Nat /\ residuo[f] \in Nat
  BY <1>1, SommaNaturale, InizioNaturale, <1>4
<1> QED BY <1>4, <1>5, <1>6, <1>7

-----------------------------------------------------------------------------
(***************************************************************************)
(* The list.                                                               *)
(***************************************************************************)
\* The entries of a list.
LEMMA Voci ==
  ASSUME NEW l \in Liste
  PROVE  /\ Len(l) \in Nat /\ DOMAIN l = 1 .. Len(l)
         /\ \A i \in 1 .. Len(l) : l[i].id \in Movimenti /\ l[i].importo \in Int
<1> DEFINE V == [id : Movimenti, mittente : Controparti, importo : Int]
<1>1. l \in Seq(V)
  BY ScorrimentoAssumption
<1>2. \A v \in V : v.id \in Movimenti /\ v.importo \in Int
  OBVIOUS
<1> HIDE DEF V
<1>3. Len(l) \in Nat /\ DOMAIN l = 1 .. Len(l) /\ \A i \in 1 .. Len(l) : l[i] \in V
  BY <1>1
<1> QED BY <1>2, <1>3

\* A movement arrives for the first time once.
LEMMA ArrivoUnico ==
  ASSUME NEW l \in Liste, NEW i \in 1 .. Len(l), PrimoArrivo(l, i)
  PROVE  /\ Disponibile(l, l[i].id) = Positivo(l[i].importo)
         /\ l[i].mittente = Mittente[l[i].id]
         /\ \A j \in 1 .. i - 1 : Posto[l[j].id] < Posto[l[i].id]
<1>1. DOMAIN l = 1 .. Len(l) /\ Len(l) \in Nat
  BY Voci
<1>2. \A k \in Arrivi(l, l[i].id) : k = i
  BY <1>1 DEF Arrivi, PrimoArrivo
<1>3. i \in Arrivi(l, l[i].id)
  BY <1>1 DEF Arrivi
<1>4. (CHOOSE k \in Arrivi(l, l[i].id) : TRUE) = i
  BY <1>2, <1>3
<1>5. Disponibile(l, l[i].id) = Positivo(l[i].importo)
  BY <1>3, <1>4 DEF Disponibile
<1> QED BY <1>1, <1>5, ScorrimentoAssumption

\* A movement brings an amount; one that is not in the list, nothing.
LEMMA DisponibileNaturale ==
  ASSUME NEW l \in Liste, NEW m \in Movimenti
  PROVE  /\ Disponibile(l, m) \in Nat
         /\ Disponibile(l, m) # 0 => \E i \in 1 .. Len(l) : l[i].id = m /\ PrimoArrivo(l, i)
<1>1. CASE Arrivi(l, m) = {}
  BY <1>1 DEF Disponibile
<1>2. CASE Arrivi(l, m) # {}
  <2>1. PICK i \in 1 .. Len(l) : l[i].id = m /\ PrimoArrivo(l, i)
    BY <1>2, Voci DEF Arrivi
  <2>2. Disponibile(l, m) = Positivo(l[i].importo) /\ l[i].importo \in Int
    BY <2>1, ArrivoUnico, Voci
  <2> QED BY <2>1, <2>2 DEF Positivo, Massimo
<1> QED BY <1>1, <1>2

LEMMA DatiNaturali ==
  ASSUME TypeOK
  PROVE  /\ Dovuti \in [Fatture -> Nat] /\ Portati \in [Movimenti -> Nat]
         /\ Preso \in [Movimenti -> Nat]
         /\ \A f \in Fatture : importo[f] \in Int /\ Dovuti[f] = Positivo(importo[f])
<1>1. \A m \in Movimenti : Disponibile(lista, m) \in Nat
  BY DisponibileNaturale DEF TypeOK
<1>2. \A f \in Fatture : importo[f] \in Int /\ Positivo(importo[f]) \in Nat
  BY DEF TypeOK, Positivo, Massimo
<1> QED BY <1>1, <1>2 DEF Dovuti, Portati, Preso

\* A movement that arrives begins where its sender's money has come to.
LEMMA PartenzaRaggiunta ==
  ASSUME TypeOK, NEW i, i = indice + 1, i \in 1 .. Len(lista), lista[i].id \notin visti
  PROVE  /\ PrimoArrivo(lista, i)
         /\ Partenza(lista[i].id) = Pagato(Preso, Mittente[lista[i].id])
         /\ Partenza(lista[i].id) \in Nat
<1> DEFINE m == lista[i].id
           c == Mittente[m]
           S == {n \in Movimenti : Mittente[n] = c}
           B == {n \in Movimenti : Mittente[n] = c /\ Posto[n] < Posto[m]}
<1>1. lista \in Liste /\ indice \in Nat /\ visti = {lista[j].id : j \in 1 .. indice}
  BY DEF TypeOK
<1>2. PrimoArrivo(lista, i)
  BY <1>1 DEF PrimoArrivo
<1>3. m \in Movimenti /\ Posto[m] \in Nat /\ \A n \in Movimenti : Posto[n] \in Nat
  BY <1>1, Voci, ScorrimentoAssumption
<1>4. \A n \in visti : Posto[n] < Posto[m]
  <2>1. \A j \in 1 .. i - 1 : Posto[lista[j].id] < Posto[m]
    BY <1>1, <1>2, ArrivoUnico
  <2> QED BY <1>1, <2>1
<1>5. ASSUME NEW n \in Movimenti, n \notin visti, Posto[n] < Posto[m] PROVE Portati[n] = 0
  <2> SUFFICES ASSUME Portati[n] # 0 PROVE FALSE
    OBVIOUS
  <2>1. PICK k \in 1 .. Len(lista) : lista[k].id = n /\ PrimoArrivo(lista, k)
    BY <1>1, DisponibileNaturale DEF Portati
  <2>2. k \notin 1 .. indice /\ k # i
    BY <1>1, <1>3, <1>5, <2>1
  <2>3. i \in 1 .. k - 1
    BY <1>1, <2>2
  <2>4. Posto[m] < Posto[n]
    BY <1>1, <2>1, <2>3, ArrivoUnico
  <2> QED BY <1>3, <1>5, <2>4
<1>6. \A n \in Movimenti : Preso[n] = IF n \in visti THEN Portati[n] ELSE 0
  BY DEF Preso
<1>7. \A n \in B : Preso[n] = Portati[n]
  BY <1>5, <1>6
<1>8. \A n \in S \ B : Preso[n] = 0
  BY <1>4, <1>6
<1>9. IsFiniteSet(S) /\ B \in SUBSET S /\ IsFiniteSet(B) /\ IsFiniteSet(S \ B)
      /\ Naturale(Preso, S) /\ Naturale(Portati, B)
  BY ScorrimentoAssumption, FS_Subset, DatiNaturali DEF Naturale
<1>10. Partenza(m) = SommaSu(Portati, B) /\ Pagato(Preso, c) = SommaSu(Preso, S)
  BY DEF Partenza, InizioMovimento, Pagato
<1> HIDE DEF S, B, m, c
<1>11. S = B \cup (S \ B) /\ B \cap (S \ B) = {}
  BY <1>9
<1>12. SommaSu(Preso, B \cup (S \ B)) = SommaSu(Preso, B) + SommaSu(Preso, S \ B)
  BY <1>9, <1>11, SommaUnione
<1>13. SommaSu(Preso, S \ B) = 0 /\ SommaSu(Preso, B) = SommaSu(Portati, B)
  BY <1>7, <1>8, <1>9, SommaZeri, SommaUguale
<1>14. SommaSu(Portati, B) \in Nat
  BY <1>9, SommaNaturale
<1>15. SommaSu(Preso, S) = SommaSu(Portati, B)
  <2>1. SommaSu(Preso, S) = SommaSu(Preso, B \cup (S \ B))
    BY <1>11
  <2>2. SommaSu(Preso, S) = SommaSu(Portati, B) + 0
    BY <1>12, <1>13, <2>1
  <2> QED BY <1>14, <2>2
<1> QED BY <1>2, <1>10, <1>14, <1>15 DEF m, c

\* Taking one movement moves its sender only.
LEMMA PresoAvanza ==
  ASSUME NEW p \in [Movimenti -> Nat], NEW m \in Movimenti, p[m] = 0, NEW b \in Nat,
         NEW q, \A n \in Movimenti : q[n] = IF n = m THEN b ELSE p[n]
  PROVE  \A c : Pagato(q, c) = Pagato(p, c) + (IF c = Mittente[m] THEN b ELSE 0)
                /\ Pagato(p, c) \in Nat
<1> SUFFICES ASSUME NEW c
             PROVE  /\ Pagato(q, c) = Pagato(p, c) + (IF c = Mittente[m] THEN b ELSE 0)
                    /\ Pagato(p, c) \in Nat
  OBVIOUS
<1> DEFINE S == {n \in Movimenti : Mittente[n] = c}
<1>1. IsFiniteSet(S) /\ Naturale(p, S) /\ Naturale(q, S)
  BY ScorrimentoAssumption, FS_Subset DEF Naturale
<1>2. Pagato(p, c) = SommaSu(p, S) /\ Pagato(q, c) = SommaSu(q, S)
  BY DEF Pagato
<1>3. m \in S <=> c = Mittente[m]
  OBVIOUS
<1>4. \A x \in S : x \in Movimenti
  OBVIOUS
<1> HIDE DEF S
<1>5. SommaSu(p, S) \in Nat
  BY <1>1, SommaNaturale
<1>6. CASE m \notin S
  <2>1. \A x \in S : q[x] = p[x]
    BY <1>4, <1>6
  <2>2. SommaSu(q, S) = SommaSu(p, S)
    BY <1>1, <2>1, SommaUguale
  <2> QED BY <1>2, <1>3, <1>5, <1>6, <2>2
<1>7. CASE m \in S
  <2>1. \A x \in S : p[x] = IF x = m THEN 0 ELSE q[x]
    BY <1>4
  <2>2. SommaSu(q, S) = q[m] + SommaSu(p, S)
    BY <1>1, <1>7, <2>1, SommaAzzerata
  <2>3. q[m] = b
    OBVIOUS
  <2> QED BY <1>2, <1>3, <1>5, <1>7, <2>2, <2>3
<1> QED BY <1>6, <1>7

-----------------------------------------------------------------------------
(***************************************************************************)
(* The steps.                                                              *)
(***************************************************************************)
LEMMA InvInit == Init => Inv
<1> SUFFICES ASSUME Init PROVE Inv
  OBVIOUS
<1>1. TypeOK
  <2>1. lista \in Liste /\ Len(lista) \in Nat
    BY Voci DEF Init
  <2>2. importo \in [Fatture -> Int] /\ pagamenti \in [Movimenti \X Fatture -> Int]
    <3>1. importo \in [Fatture -> Importi] /\ Importi \subseteq Int
      BY ScorrimentoAssumption DEF Init
    <3>2. importo \in [Fatture -> Int]
      BY <3>1
    <3>3. pagamenti = [mf \in Movimenti \X Fatture |-> 0]
      BY DEF Init
    <3>4. pagamenti \in [Movimenti \X Fatture -> Int]
      BY <3>3
    <3> QED BY <3>2, <3>4
  <2> QED BY <2>1, <2>2 DEF Init, TypeOK
<1>2. ASSUME NEW f \in Fatture
      PROVE  residui[f] = importo[f] - Fino(InizioFattura(Dovuti, f), Dovuti[f], Raggiunto(Debitore[f]))
  <2> DEFINE S == {m \in Movimenti : Mittente[m] = Debitore[f]}
  <2>1. \A m \in S : Preso[m] = 0
    BY DEF Init, Preso
  <2>2. IsFiniteSet(S)
    BY ScorrimentoAssumption, FS_Subset
  <2>3. Pagato(Preso, Debitore[f]) = SommaSu(Preso, S)
    BY DEF Pagato
  <2> HIDE DEF S
  <2>4. Raggiunto(Debitore[f]) = 0
    BY <2>1, <2>2, <2>3, SommaZeri DEF Raggiunto, Init
  <2>5. InizioFattura(Dovuti, f) \in Nat /\ Dovuti[f] \in Nat /\ importo[f] \in Int
    BY <1>1, DatiNaturali, InizioNaturale
  <2>6. Fino(InizioFattura(Dovuti, f), Dovuti[f], 0) = 0
    BY <2>5 DEF Fino, Massimo, Minimo
  <2>7. residui[f] = importo[f]
    BY DEF Init
  <2> QED BY <2>4, <2>5, <2>6, <2>7
<1>3. InServizio /\ PagamentiEsatti /\ ScartiEsatti
  BY DEF Init, InServizio, PagamentiEsatti, ScartiEsatti
<1> QED BY <1>1, <1>2, <1>3 DEF Inv, ResiduiEsatti

\* The batch is read, never written.
LEMMA LottoFermo ==
  ASSUME lotto' = lotto
  PROVE  /\ importo' = importo /\ lista' = lista
         /\ Dovuti' = Dovuti /\ Portati' = Portati
         /\ \A m : Partenza(m)' = Partenza(m)
<1>1. importo' = importo /\ lista' = lista
  BY DEF lotto
<1>2. Dovuti' = Dovuti
  BY <1>1 DEF Dovuti
<1>3. Portati' = Portati
  BY <1>1 DEF Portati
<1> QED BY <1>1, <1>2, <1>3 DEF Partenza

\* The next movement, and what the loop knows of it.
LEMMA Avanti ==
  ASSUME TypeOK, Prossimo
  PROVE  /\ indice + 1 \in 1 .. Len(lista) /\ indice' \in 0 .. Len(lista')
         /\ movimento.id \in Movimenti /\ movimento.importo \in Int
         /\ Corrente' = movimento.id
         /\ {lista'[i].id : i \in 1 .. indice'} = visti \cup {movimento.id}
<1>1. lista' = lista /\ indice' = indice + 1 /\ indice < Len(lista)
  BY DEF Prossimo, lotto
<1>2. Len(lista) \in Nat /\ indice \in 0 .. Len(lista) /\ lista \in Liste
  BY Voci DEF TypeOK
<1>3. indice + 1 \in 1 .. Len(lista) /\ indice' \in 0 .. Len(lista')
  BY <1>1, <1>2
<1>4. movimento.id \in Movimenti /\ movimento.importo \in Int
  BY <1>2, <1>3, Voci DEF movimento
<1>5. {lista'[i].id : i \in 1 .. indice'} = visti \cup {movimento.id}
  <2>1. visti = {lista[i].id : i \in 1 .. indice}
    BY DEF TypeOK
  <2>2. 1 .. indice' = (1 .. indice) \cup {indice + 1}
    BY <1>1, <1>2
  <2> QED BY <1>1, <2>1, <2>2 DEF movimento
<1>6. Corrente' = movimento.id
  BY <1>1 DEF Corrente, movimento
<1> QED BY <1>3, <1>4, <1>5, <1>6

LEMMA MovimentoArriva ==
  ASSUME Inv, Prossimo, movimento.id \notin visti, visti' = visti \cup {movimento.id},
         NEW m, m = movimento.id
  PROVE  /\ movimento.mittente = Mittente[m] /\ Portati[m] = Positivo(movimento.importo)
         /\ Partenza(m) \in Nat /\ Pagato(Preso, Mittente[m]) = Partenza(m)
         /\ \A c : /\ Pagato(Preso, c) \in Nat
                   /\ Pagato(Preso', c) = Pagato(Preso, c) + (IF c = Mittente[m] THEN Portati[m] ELSE 0)
         /\ \A f \in Fatture : pagamenti[<<m, f>>] = 0
<1>1. TypeOK /\ lista \in Liste /\ lotto' = lotto
  BY DEF Inv, TypeOK, Prossimo
<1>2. indice + 1 \in 1 .. Len(lista) /\ m \in Movimenti /\ m = lista[indice + 1].id
  BY <1>1, Avanti DEF movimento
<1>3. /\ PrimoArrivo(lista, indice + 1)
      /\ Partenza(m) \in Nat /\ Pagato(Preso, Mittente[m]) = Partenza(m)
  BY <1>1, <1>2, PartenzaRaggiunta
<1>4. movimento.mittente = Mittente[m] /\ Portati[m] = Positivo(movimento.importo)
  BY <1>1, <1>2, <1>3, ArrivoUnico DEF movimento, Portati
<1>5. Preso \in [Movimenti -> Nat] /\ Preso[m] = 0 /\ Portati[m] \in Nat
  BY <1>1, <1>2, DatiNaturali DEF Preso
<1>6. \A n \in Movimenti : Preso'[n] = IF n = m THEN Portati[m] ELSE Preso[n]
  BY <1>1, LottoFermo DEF Preso
<1>7. \A c : /\ Pagato(Preso, c) \in Nat
             /\ Pagato(Preso', c) = Pagato(Preso, c) + (IF c = Mittente[m] THEN Portati[m] ELSE 0)
  <2> DEFINE p == Preso
             q == Preso'
             b == Portati[m]
  <2>1. \A n \in Movimenti : q[n] = IF n = m THEN b ELSE p[n]
    BY <1>6
  <2>2. p \in [Movimenti -> Nat] /\ p[m] = 0 /\ b \in Nat
    BY <1>5
  <2> HIDE DEF p, q, b
  <2>3. \A c : Pagato(q, c) = Pagato(p, c) + (IF c = Mittente[m] THEN b ELSE 0)
               /\ Pagato(p, c) \in Nat
    BY <1>2, <2>1, <2>2, PresoAvanza
  <2> QED BY <2>3 DEF p, q, b
<1>8. \A f \in Fatture : pagamenti[<<m, f>>] = 0
  BY <1>2 DEF Inv, PagamentiEsatti
<1> QED BY <1>3, <1>4, <1>7, <1>8

LEMMA RipetutoInv ==
  ASSUME Inv, Ripetuto
  PROVE  Inv'
<1>1. /\ TypeOK /\ lotto' = lotto /\ aperte = {} /\ aperte' = aperte
      /\ residui' = residui /\ pagamenti' = pagamenti /\ visti' = visti
      /\ nonRiconciliati' = nonRiconciliati /\ daAllocare' = daAllocare
      /\ Prossimo /\ movimento.id \in visti
  BY DEF Inv, Ripetuto, Prossimo
<1>2. /\ importo' = importo /\ lista' = lista
      /\ Dovuti' = Dovuti /\ Portati' = Portati
      /\ \A m : Partenza(m)' = Partenza(m)
  BY <1>1, LottoFermo
<1>3. Preso' = Preso
  BY <1>1, <1>2 DEF Preso
<1>4. TypeOK'
  <2>1. indice' \in 0 .. Len(lista') /\ visti' = {lista'[i].id : i \in 1 .. indice'}
    BY <1>1, Avanti
  <2> QED BY <1>1, <1>2, <2>1 DEF TypeOK
<1>5. (\A c : Raggiunto(c)' = Raggiunto(c)) /\ \A m : Arrivo(m)' = Arrivo(m)
  BY <1>1, <1>2, <1>3 DEF Raggiunto, Arrivo
<1>6. InServizio'
  BY <1>1 DEF InServizio
<1>7. ResiduiEsatti' /\ PagamentiEsatti' /\ ScartiEsatti'
  BY <1>1, <1>2, <1>5 DEF Inv, ResiduiEsatti, PagamentiEsatti, ScartiEsatti
<1> QED BY <1>4, <1>6, <1>7 DEF Inv

\* Invoices that leave nothing open are behind the point their debtor's money
\* has come to, wherever it goes from there.
LEMMA DietroIlPunto ==
  ASSUME TypeOK, ResiduiEsatti, NEW f \in Fatture, residui[f] <= 0,
         NEW r \in Nat, Raggiunto(Debitore[f]) = r
  PROVE  /\ Dovuti[f] = 0 \/ InizioFattura(Dovuti, f) + Dovuti[f] <= r
         /\ \A y \in Nat : r <= y =>
              /\ Fino(InizioFattura(Dovuti, f), Dovuti[f], y) = Fino(InizioFattura(Dovuti, f), Dovuti[f], r)
              /\ \A z \in Nat : z <= r =>
                   Fra(InizioFattura(Dovuti, f), Dovuti[f], z, y)
                     = Fra(InizioFattura(Dovuti, f), Dovuti[f], z, r)
<1> DEFINE a == InizioFattura(Dovuti, f)
           l == Dovuti[f]
<1>1. a \in Nat /\ l \in Nat /\ importo[f] \in Int /\ l = Positivo(importo[f])
  BY DatiNaturali, InizioNaturale
<1>2. residui[f] = importo[f] - Fino(a, l, r)
  BY DEF ResiduiEsatti
<1> HIDE DEF a, l
<1>3. Fino(a, l, r) \in Nat /\ (importo[f] - Fino(a, l, r) > 0 <=> l # 0 /\ r < a + l)
  BY <1>1, RestoAperto
<1>4. l = 0 \/ a + l <= r
  BY <1>1, <1>2, <1>3
<1>5. \A y \in Nat : r <= y =>
        /\ Fino(a, l, y) = Fino(a, l, r)
        /\ \A z \in Nat : z <= r => Fra(a, l, z, y) = Fra(a, l, z, r)
  BY <1>1, <1>4, OltreIntervallo
<1> QED BY <1>4, <1>5 DEF a, l

LEMMA ScartatoInv ==
  ASSUME Inv, Scartato
  PROVE  Inv'
<1>0. PICK m, cl, A, b : m = movimento.id /\ cl = Mittente[m] /\ A = Partenza(m) /\ b = Portati[m]
  OBVIOUS
<1>1. /\ TypeOK /\ lotto' = lotto /\ aperte = {} /\ aperte' = {}
      /\ residui' = residui /\ pagamenti' = pagamenti /\ daAllocare' = daAllocare
      /\ visti' = visti \cup {m} /\ m \notin visti
      /\ nonRiconciliati' = nonRiconciliati \cup {m} /\ Prossimo
      /\ (AperteDi(movimento.mittente) = {} \/ movimento.importo <= 0)
  BY <1>0 DEF Inv, Scartato, Prossimo
<1>2. /\ importo' = importo /\ lista' = lista
      /\ Dovuti' = Dovuti /\ Portati' = Portati
      /\ \A n : Partenza(n)' = Partenza(n)
  BY <1>1, LottoFermo
<1>3. /\ indice' \in 0 .. Len(lista') /\ visti' = {lista'[i].id : i \in 1 .. indice'}
      /\ m \in Movimenti /\ movimento.importo \in Int
  BY <1>0, <1>1, Avanti
<1>4. /\ movimento.mittente = cl /\ b = Positivo(movimento.importo)
      /\ A \in Nat /\ Pagato(Preso, cl) = A
      /\ \A c : /\ Pagato(Preso, c) \in Nat
                /\ Pagato(Preso', c) = Pagato(Preso, c) + (IF c = cl THEN b ELSE 0)
      /\ \A f \in Fatture : pagamenti[<<m, f>>] = 0
  BY <1>0, <1>1, MovimentoArriva
<1>5. TypeOK'
  BY <1>1, <1>2, <1>3 DEF TypeOK
<1>6. InServizio'
  BY <1>1 DEF InServizio
<1>7. b \in Nat
  BY <1>0, <1>1, <1>3, DatiNaturali
<1>8. \A c : /\ Raggiunto(c) = Pagato(Preso, c)
             /\ Raggiunto(c)' = Raggiunto(c) + (IF c = cl THEN b ELSE 0)
  <2>1. \A c : Raggiunto(c) = Pagato(Preso, c) - 0 /\ Raggiunto(c)' = Pagato(Preso', c) - 0
    BY <1>1 DEF Raggiunto
  <2> QED BY <1>4, <1>7, <2>1
<1>9. \A n : Arrivo(n)' = Partenza(n) + Portati[n] - 0 /\ Arrivo(n) = Partenza(n) + Portati[n] - 0
  BY <1>1, <1>2 DEF Arrivo
<1>10. movimento.importo <= 0 => b = 0
  BY <1>3, <1>4 DEF Positivo, Massimo
<1>11. \A f \in Fatture : Debitore[f] = cl /\ b # 0 => residui[f] <= 0
  BY <1>1, <1>4, <1>10 DEF AperteDi, TypeOK
<1>12. ASSUME NEW f \in Fatture, Debitore[f] = cl
       PROVE  /\ Fino(InizioFattura(Dovuti, f), Dovuti[f], A + b) = Fino(InizioFattura(Dovuti, f), Dovuti[f], A)
              /\ Fra(InizioFattura(Dovuti, f), Dovuti[f], A, A + b) = 0
  <2>1. InizioFattura(Dovuti, f) \in Nat /\ Dovuti[f] \in Nat
    BY <1>1, DatiNaturali, InizioNaturale
  <2>2. Fra(InizioFattura(Dovuti, f), Dovuti[f], A, A) = 0
    BY <1>4, <2>1 DEF Fra, Massimo, Minimo
  <2>3. CASE b = 0
    <3>1. A + b = A
      BY <1>4, <2>3
    <3> QED BY <2>2, <3>1
  <2>4. CASE b # 0
    <3>1. Raggiunto(Debitore[f]) = A /\ residui[f] <= 0 /\ ResiduiEsatti
      BY <1>4, <1>8, <1>11, <1>12, <2>4 DEF Inv
    <3>2. A + b \in Nat /\ A <= A + b /\ A <= A
      BY <1>4, <1>7
    <3> QED BY <1>1, <1>4, <1>12, <2>2, <3>1, <3>2, DietroIlPunto
  <2> QED BY <2>3, <2>4
<1>13. ResiduiEsatti'
  <2> SUFFICES ASSUME NEW f \in Fatture
               PROVE  residui'[f] = importo'[f] - Fino(InizioFattura(Dovuti', f), Dovuti'[f], Raggiunto(Debitore[f])')
    BY DEF ResiduiEsatti
  <2>1. residui[f] = importo[f] - Fino(InizioFattura(Dovuti, f), Dovuti[f], Raggiunto(Debitore[f]))
    BY DEF Inv, ResiduiEsatti
  <2>2. CASE Debitore[f] = cl
    <3>1. Raggiunto(Debitore[f]) = A /\ Raggiunto(Debitore[f])' = A + b
      BY <1>4, <1>8, <2>2
    <3> QED BY <1>1, <1>2, <1>12, <2>1, <2>2, <3>1
  <2>3. CASE Debitore[f] # cl
    <3>1. Raggiunto(Debitore[f])' = Raggiunto(Debitore[f])
      BY <1>4, <1>8, <2>3
    <3> QED BY <1>1, <1>2, <2>1, <3>1
  <2> QED BY <2>2, <2>3
<1>14. PagamentiEsatti'
  <2> SUFFICES ASSUME NEW n \in Movimenti, NEW f \in Fatture
               PROVE  pagamenti'[<<n, f>>] =
                        IF n \in visti' /\ Mittente[n] = Debitore[f]
                        THEN Fra(InizioFattura(Dovuti', f), Dovuti'[f], Partenza(n)', Arrivo(n)') ELSE 0
    BY DEF PagamentiEsatti
  <2>1. pagamenti[<<n, f>>] =
          IF n \in visti /\ Mittente[n] = Debitore[f]
          THEN Fra(InizioFattura(Dovuti, f), Dovuti[f], Partenza(n), Arrivo(n)) ELSE 0
    BY DEF Inv, PagamentiEsatti
  <2>2. CASE n # m
    <3>1. n \in visti' <=> n \in visti
      BY <1>1, <2>2
    <3>2. Arrivo(n)' = Arrivo(n) /\ Partenza(n)' = Partenza(n)
      BY <1>2, <1>9
    <3> QED BY <1>1, <1>2, <2>1, <3>1, <3>2
  <2>3. CASE n = m
    <3>1. Arrivo(m)' = A + b /\ Partenza(m)' = A /\ pagamenti[<<m, f>>] = 0
      <4>1. Arrivo(m)' = A + b - 0
        BY <1>0, <1>9
      <4>2. A + b - 0 = A + b
        BY <1>4, <1>7
      <4> QED BY <1>0, <1>2, <1>4, <4>1, <4>2
    <3>2. Mittente[m] = cl
      BY <1>0
    <3> QED BY <1>1, <1>2, <1>12, <2>3, <3>1, <3>2
  <2> QED BY <2>2, <2>3
<1>15. ScartiEsatti'
  <2>1. b = 0 \/ Dovuto(Dovuti, cl) <= A
    <3> SUFFICES ASSUME b # 0 PROVE Dovuto(Dovuti, cl) <= A
      OBVIOUS
    <3> DEFINE S == {f \in Fatture : Debitore[f] = cl}
    <3>1. ASSUME NEW f \in S PROVE Dovuti[f] = 0 \/ InizioFattura(Dovuti, f) + Dovuti[f] <= A
      <4>1. Raggiunto(Debitore[f]) = A /\ residui[f] <= 0 /\ ResiduiEsatti
        BY <1>4, <1>8, <1>11 DEF Inv
      <4> QED BY <1>1, <1>4, <4>1, DietroIlPunto
    <3>2. /\ S \in SUBSET Fatture
          /\ \A f, g \in S : Debitore[f] = Debitore[g]
          /\ \A f \in S, g \in Fatture : Debitore[g] = Debitore[f] /\ PrimaInScadenza(g, f) => g \in S
      OBVIOUS
    <3>3. Dovuto(Dovuti, cl) = SommaSu(Dovuti, S)
      BY DEF Dovuto
    <3>4. Dovuti \in [Fatture -> Nat]
      BY <1>1, DatiNaturali
    <3> HIDE DEF S
    <3> QED BY <1>4, <3>1, <3>2, <3>3, <3>4, TuttePassate
  <2>2. m \in nonRiconciliati' /\ \A n \in visti' : n # m => n \in visti /\ (n \in nonRiconciliati' <=> n \in nonRiconciliati)
    BY <1>1
  <2>3. \A n \in visti :
          n \in nonRiconciliati <=> Portati[n] = 0 \/ Dovuto(Dovuti, Mittente[n]) <= Partenza(n)
    BY DEF Inv, ScartiEsatti
  <2>4. Portati[m] = 0 \/ Dovuto(Dovuti, Mittente[m]) <= Partenza(m)
    BY <1>0, <2>1
  <2> QED BY <1>2, <2>2, <2>3, <2>4 DEF ScartiEsatti
<1> QED BY <1>5, <1>6, <1>13, <1>14, <1>15 DEF Inv

LEMMA AbbinatoInv ==
  ASSUME Inv, Abbinato
  PROVE  Inv'
<1>0. PICK m, cl, A, b : m = movimento.id /\ cl = Mittente[m] /\ A = Partenza(m) /\ b = Portati[m]
  OBVIOUS
<1>1. /\ TypeOK /\ lotto' = lotto /\ aperte = {} /\ aperte' = AperteDi(movimento.mittente)
      /\ residui' = residui /\ pagamenti' = pagamenti /\ daAllocare' = movimento.importo
      /\ visti' = visti \cup {m} /\ m \notin visti
      /\ nonRiconciliati' = nonRiconciliati /\ Prossimo
      /\ AperteDi(movimento.mittente) # {} /\ movimento.importo > 0
  BY <1>0 DEF Inv, Abbinato, Prossimo
<1>2. /\ importo' = importo /\ lista' = lista
      /\ Dovuti' = Dovuti /\ Portati' = Portati
      /\ \A n : Partenza(n)' = Partenza(n)
  BY <1>1, LottoFermo
<1>3. /\ indice' \in 0 .. Len(lista') /\ visti' = {lista'[i].id : i \in 1 .. indice'}
      /\ m \in Movimenti /\ movimento.importo \in Int
      /\ Corrente' = m /\ indice' > 0
  <2>1. indice' = indice + 1 /\ indice \in Nat
    BY <1>1, Voci DEF Prossimo, TypeOK
  <2> QED BY <1>0, <1>1, <2>1, Avanti
<1>4. /\ movimento.mittente = cl /\ b = Positivo(movimento.importo)
      /\ A \in Nat /\ Pagato(Preso, cl) = A
      /\ \A c : /\ Pagato(Preso, c) \in Nat
                /\ Pagato(Preso', c) = Pagato(Preso, c) + (IF c = cl THEN b ELSE 0)
      /\ \A f \in Fatture : pagamenti[<<m, f>>] = 0
  BY <1>0, <1>1, MovimentoArriva
<1>5. TypeOK'
  BY <1>1, <1>2, <1>3 DEF TypeOK, AperteDi
<1>6. b = movimento.importo /\ b \in Nat /\ b > 0
  BY <1>1, <1>3, <1>4 DEF Positivo, Massimo
<1>7. InServizio'
  <2>1. aperte' = AperteDi(cl)'
    BY <1>1, <1>4 DEF AperteDi
  <2>2. Mittente[m] = cl
    BY <1>0
  <2>3. Pagato(Preso', cl) = A + b
    BY <1>4
  <2> QED BY <1>0, <1>1, <1>2, <1>3, <1>6, <2>1, <2>2, <2>3 DEF InServizio
<1>8. \A c : Raggiunto(c) = Pagato(Preso, c) /\ Raggiunto(c)' = Raggiunto(c)
  <2>1. \A c : Raggiunto(c) = Pagato(Preso, c) - 0
    BY <1>1 DEF Raggiunto
  <2>2. \A c : Raggiunto(c)' = Pagato(Preso', c) - (IF c = cl THEN b ELSE 0)
    BY <1>0, <1>1, <1>3, <1>4, <1>6 DEF Raggiunto
  <2> QED BY <1>4, <1>6, <2>1, <2>2
<1>9. ResiduiEsatti'
  BY <1>1, <1>2, <1>8 DEF Inv, ResiduiEsatti
<1>10. PagamentiEsatti'
  <2> SUFFICES ASSUME NEW n \in Movimenti, NEW f \in Fatture
               PROVE  pagamenti'[<<n, f>>] =
                        IF n \in visti' /\ Mittente[n] = Debitore[f]
                        THEN Fra(InizioFattura(Dovuti', f), Dovuti'[f], Partenza(n)', Arrivo(n)') ELSE 0
    BY DEF PagamentiEsatti
  <2>1. pagamenti[<<n, f>>] =
          IF n \in visti /\ Mittente[n] = Debitore[f]
          THEN Fra(InizioFattura(Dovuti, f), Dovuti[f], Partenza(n), Arrivo(n)) ELSE 0
    BY DEF Inv, PagamentiEsatti
  <2>2. CASE n # m
    <3>1. n \in visti' <=> n \in visti
      BY <1>1, <2>2
    <3>2. Arrivo(n)' = Arrivo(n) /\ Partenza(n)' = Partenza(n)
      BY <1>1, <1>2, <1>3, <2>2 DEF Arrivo
    <3> QED BY <1>1, <1>2, <2>1, <3>1, <3>2
  <2>3. CASE n = m
    <3>1. Arrivo(m)' = A /\ Partenza(m)' = A
      <4>1. Arrivo(m)' = A + b - b
        BY <1>0, <1>1, <1>2, <1>3, <1>4, <1>6 DEF Arrivo
      <4> QED BY <1>0, <1>2, <1>4, <1>6, <4>1
    <3>2. Fra(InizioFattura(Dovuti, f), Dovuti[f], A, A) = 0
      <4>1. InizioFattura(Dovuti, f) \in Nat /\ Dovuti[f] \in Nat
        BY <1>1, DatiNaturali, InizioNaturale
      <4> QED BY <1>4, <4>1 DEF Fra, Massimo, Minimo
    <3> QED BY <1>1, <1>2, <1>4, <2>3, <3>1, <3>2
  <2> QED BY <2>2, <2>3
<1>11. ScartiEsatti'
  <2>1. PICK f \in Fatture : Debitore[f] = cl /\ residui[f] > 0
    BY <1>1, <1>4 DEF AperteDi
  <2>2. Dovuto(Dovuti, cl) > A
    <3>1. /\ InizioFattura(Dovuti, f) \in Nat /\ Dovuti \in [Fatture -> Nat]
          /\ importo[f] \in Int /\ Dovuti[f] = Positivo(importo[f])
      BY <1>1, DatiNaturali, InizioNaturale
    <3>2. residui[f] = importo[f] - Fino(InizioFattura(Dovuti, f), Dovuti[f], A)
      BY <1>4, <1>8, <2>1 DEF Inv, ResiduiEsatti
    <3>3. A < InizioFattura(Dovuti, f) + Dovuti[f]
      <4> DEFINE a == InizioFattura(Dovuti, f)
                 l == Dovuti[f]
      <4>1. a \in Nat /\ l = Positivo(importo[f]) /\ importo[f] \in Int
            /\ importo[f] - Fino(a, l, A) > 0
        BY <2>1, <3>1, <3>2
      <4> HIDE DEF a, l
      <4>2. A < a + l
        BY <1>4, <4>1, RestoAperto
      <4> QED BY <4>2 DEF a, l
    <3>4. /\ Dovuto(Dovuti, cl) \in Nat
          /\ InizioFattura(Dovuti, f) + Dovuti[f] <= Dovuto(Dovuti, cl)
      BY <2>1, <3>1, FineEntroIlDovuto
    <3> QED BY <1>4, <3>1, <3>3, <3>4
  <2>3. m \notin nonRiconciliati /\ \A n \in visti' : n # m => n \in visti
    BY <1>1 DEF TypeOK
  <2>4. \A n \in visti :
          n \in nonRiconciliati <=> Portati[n] = 0 \/ Dovuto(Dovuti, Mittente[n]) <= Partenza(n)
    BY DEF Inv, ScartiEsatti
  <2>5. ~(Portati[m] = 0 \/ Dovuto(Dovuti, Mittente[m]) <= Partenza(m))
    <3>1. Dovuto(Dovuti, cl) \in Nat
      <4>1. Dovuti \in [Fatture -> Nat]
        BY <1>1, DatiNaturali
      <4> QED BY <2>1, <4>1, FineEntroIlDovuto
    <3> QED BY <1>0, <1>4, <1>6, <2>2, <3>1
  <2> QED BY <1>1, <1>2, <2>3, <2>4, <2>5 DEF ScartiEsatti
<1> QED BY <1>5, <1>7, <1>9, <1>10, <1>11 DEF Inv

\* The invoice that is served is the one where the debtor's money has come to.
LEMMA Servita ==
  ASSUME Inv, NEW f \in aperte, \A g \in aperte \ {f} : PrimaInScadenza(f, g),
         NEW a, a = InizioFattura(Dovuti, f), NEW r \in Nat, Raggiunto(Debitore[f]) = r
  PROVE  /\ f \in Fatture /\ Debitore[f] = Mittente[Corrente]
         /\ a \in Nat /\ Dovuti[f] \in Nat
         /\ a <= r /\ residui[f] = a + Dovuti[f] - r /\ residui[f] > 0
<1> DEFINE S == {g \in Fatture : Debitore[g] = Debitore[f] /\ PrimaInScadenza(g, f)}
           l == Dovuti[f]
<1>1. TypeOK /\ ResiduiEsatti /\ aperte = AperteDi(Mittente[Corrente])
  BY DEF Inv, InServizio
<1>2. f \in Fatture /\ Debitore[f] = Mittente[Corrente] /\ residui[f] > 0
  BY <1>1 DEF AperteDi
<1>3. Dovuti \in [Fatture -> Nat] /\ a \in Nat /\ l = Positivo(importo[f]) /\ importo[f] \in Int
  BY <1>1, <1>2, DatiNaturali, InizioNaturale
<1>4. \A g \in S : residui[g] <= 0
  <2> SUFFICES ASSUME NEW g \in S, ~(residui[g] <= 0) PROVE FALSE
    OBVIOUS
  <2>1. g \in Fatture /\ residui[g] \in Int /\ g \in aperte
    BY <1>1, <1>2 DEF AperteDi, TypeOK
  <2>2. PrimaInScadenza(g, f) /\ ~PrimaInScadenza(f, g) /\ g # f
    BY <1>2, <2>1, Ordine DEF PrimaInScadenza, Ordinate
  <2> QED BY <2>1, <2>2
<1>5. a <= r
  <2>1. \A g \in S : Dovuti[g] = 0 \/ InizioFattura(Dovuti, g) + Dovuti[g] <= r
    BY <1>1, <1>2, <1>4, DietroIlPunto
  <2>2. S \in SUBSET Fatture /\ \A g, h \in S : Debitore[g] = Debitore[h]
    OBVIOUS
  <2>3. \A g \in S, h \in Fatture : Debitore[h] = Debitore[g] /\ PrimaInScadenza(h, g) => h \in S
    BY <1>2, Ordine DEF PrimaInScadenza, Ordinate
  <2>4. a = SommaSu(Dovuti, S)
    BY DEF InizioFattura
  <2> HIDE DEF S
  <2> QED BY <1>3, <2>1, <2>2, <2>3, <2>4, TuttePassate
<1>6. residui[f] = importo[f] - Fino(a, l, r)
  BY <1>1, <1>2 DEF ResiduiEsatti
<1> HIDE DEF l
<1>7. l \in Nat /\ r < a + l /\ l = importo[f]
  <2>1. importo[f] - Fino(a, l, r) > 0
    BY <1>2, <1>6
  <2>2. l # 0 /\ r < a + l
    BY <1>3, <2>1, RestoAperto
  <2>3. l \in Nat /\ (l # 0 => l = importo[f])
    BY <1>3, RestoAperto
  <2> QED BY <2>2, <2>3
<1>8. Fino(a, l, r) = r - a
  BY <1>3, <1>5, <1>7 DEF Fino, Massimo, Minimo
<1>9. residui[f] = a + l - r
  BY <1>3, <1>6, <1>7, <1>8
<1> QED BY <1>2, <1>3, <1>5, <1>7, <1>9 DEF l

LEMMA AllocaInv ==
  ASSUME Inv, NEW f \in Fatture, Alloca(f)
  PROVE  Inv'
<1>0. PICK m, cl, A, b, d, x, q, a, l :
        /\ m = Corrente /\ cl = Mittente[m] /\ A = Partenza(m) /\ b = Portati[m]
        /\ d = daAllocare /\ x = residui[f] /\ q = Minimo(d, x)
        /\ a = InizioFattura(Dovuti, f) /\ l = Dovuti[f]
  OBVIOUS
<1>1. /\ TypeOK /\ lotto' = lotto /\ f \in aperte /\ \A g \in aperte \ {f} : PrimaInScadenza(f, g)
      /\ residui' = [residui EXCEPT ![f] = @ - q]
      /\ pagamenti' = [pagamenti EXCEPT ![<<m, f>>] = @ + q]
      /\ daAllocare' = d - q
      /\ aperte' = (IF d - q <= 0 THEN {} ELSE aperte \ {f})
      /\ indice' = indice /\ visti' = visti /\ nonRiconciliati' = nonRiconciliati
  BY <1>0 DEF Inv, Alloca, Capienza, Corrente
<1>2. /\ importo' = importo /\ lista' = lista
      /\ Dovuti' = Dovuti /\ Portati' = Portati /\ Preso' = Preso /\ Corrente' = m
      /\ \A n : Partenza(n)' = Partenza(n)
  <2>1. /\ importo' = importo /\ lista' = lista /\ Dovuti' = Dovuti /\ Portati' = Portati
        /\ \A n : Partenza(n)' = Partenza(n)
    BY <1>1, LottoFermo
  <2> QED BY <1>0, <1>1, <2>1 DEF Preso, Corrente
<1>3. /\ 0 < d /\ d <= b /\ d \in Int /\ aperte = AperteDi(cl)
      /\ Pagato(Preso, cl) = A + b /\ m \in visti /\ m \in Movimenti
  <2>1. indice > 0 /\ indice \in 1 .. Len(lista) /\ lista \in Liste
    BY <1>1, Voci DEF Inv, InServizio, TypeOK
  <2>2. m \in visti /\ m \in Movimenti
    BY <1>0, <1>1, <2>1, Voci DEF TypeOK, Corrente
  <2> QED BY <1>0, <1>1, <2>2 DEF Inv, InServizio, TypeOK
<1>4. A \in Nat /\ b \in Nat
  <2>1. Portati \in [Movimenti -> Nat]
    BY <1>1, DatiNaturali
  <2> DEFINE B == {n \in Movimenti : Mittente[n] = Mittente[m] /\ Posto[n] < Posto[m]}
  <2>2. IsFiniteSet(B) /\ Naturale(Portati, B)
    BY <2>1, ScorrimentoAssumption, FS_Subset DEF Naturale
  <2>3. A = SommaSu(Portati, B)
    BY <1>0 DEF Partenza, InizioMovimento
  <2> HIDE DEF B
  <2> QED BY <1>0, <1>3, <2>1, <2>2, <2>3, SommaNaturale
<1>5. PICK r : r = A + b - d
  OBVIOUS
<1>6. r \in Nat /\ A <= r /\ Raggiunto(cl) = r /\ Arrivo(m) = r
  <2>1. r \in Nat /\ A <= r
    BY <1>3, <1>4, <1>5
  <2>2. Raggiunto(cl) = Pagato(Preso, cl) - d /\ Arrivo(m) = A + b - d
    BY <1>0, <1>1 DEF Raggiunto, Arrivo
  <2>3. Raggiunto(cl) = A + b - d
    <3> DEFINE P == Pagato(Preso, cl)
    <3>1. P = A + b /\ Raggiunto(cl) = P - d
      BY <1>3, <2>2
    <3> HIDE DEF P
    <3> QED BY <1>3, <1>4, <3>1
  <2> QED BY <1>5, <2>1, <2>2, <2>3
<1>7. /\ Debitore[f] = cl /\ a \in Nat /\ l \in Nat /\ a <= r /\ x = a + l - r /\ x > 0
  <2>1. Debitore[f] = cl
    BY <1>1, <1>3 DEF AperteDi
  <2> QED BY <1>0, <1>1, <1>6, <2>1, Servita
<1>8. PICK R : R = r + q
  OBVIOUS
<1>9. R \in Nat /\ q \in Nat /\ r <= R /\ R <= a + l /\ q <= d /\ q <= x /\ (q = d \/ q = x)
  <2>1. q = Minimo(d, x)
    BY <1>0
  <2>2. d \in Nat /\ x \in Nat /\ d > 0
    BY <1>3, <1>6, <1>7
  <2>3. q \in Nat /\ q <= d /\ q <= x /\ (q = d \/ q = x)
    BY <2>1, <2>2 DEF Minimo
  <2> QED BY <1>6, <1>7, <1>8, <2>3
<1>10. /\ \A g \in Fatture : residui'[g] = IF g = f THEN residui[g] - q ELSE residui[g]
       /\ \A n \in Movimenti, g \in Fatture :
            pagamenti'[<<n, g>>] = IF n = m /\ g = f THEN pagamenti[<<n, g>>] + q ELSE pagamenti[<<n, g>>]
  BY <1>1 DEF TypeOK
\* The point moves from r to R, within the interval of f.
<1>11. ASSUME NEW g \in Fatture, Debitore[g] = cl
       PROVE  /\ residui'[g] = importo[g] - Fino(InizioFattura(Dovuti, g), Dovuti[g], R)
              /\ pagamenti'[<<m, g>>] = Fra(InizioFattura(Dovuti, g), Dovuti[g], A, R)
  <2> DEFINE ag == InizioFattura(Dovuti, g)
             lg == Dovuti[g]
  <2>1. ag \in Nat /\ lg \in Nat /\ importo[g] \in Int /\ Dovuti \in [Fatture -> Nat]
    BY <1>1, DatiNaturali, InizioNaturale
  <2>2. residui[g] = importo[g] - Fino(ag, lg, r) /\ pagamenti[<<m, g>>] = Fra(ag, lg, A, r)
    BY <1>0, <1>3, <1>6, <1>11 DEF Inv, ResiduiEsatti, PagamentiEsatti
  <2>3. CASE g = f
    <3>1. ag = a /\ lg = l
      BY <1>0, <2>3
    <3> HIDE DEF ag, lg
    <3>2. /\ Fino(ag, lg, R) = Fino(ag, lg, r) + q /\ Fra(ag, lg, A, R) = Fra(ag, lg, A, r) + q
          /\ Fino(ag, lg, r) \in Nat
      BY <1>4, <1>6, <1>7, <1>8, <1>9, <3>1 DEF Fino, Fra, Massimo, Minimo
    <3>3. residui'[g] = residui[g] - q /\ pagamenti'[<<m, g>>] = pagamenti[<<m, g>>] + q
      BY <1>3, <1>10, <2>3
    <3>4. residui'[g] = importo[g] - Fino(ag, lg, R)
      BY <1>9, <2>1, <2>2, <3>2, <3>3
    <3> QED BY <2>2, <3>2, <3>3, <3>4 DEF ag, lg
  <2>4. CASE g # f
    <3>1. residui'[g] = residui[g] /\ pagamenti'[<<m, g>>] = pagamenti[<<m, g>>]
      BY <1>3, <1>10, <2>4
    <3>2. CASE PrimaInScadenza(g, f)
      <4>1. ag + lg <= a
        BY <1>0, <1>7, <1>11, <2>1, <3>2, Ordine, InizioOrdinato
      <4> HIDE DEF ag, lg
      <4>2. Fino(ag, lg, R) = Fino(ag, lg, r) /\ Fra(ag, lg, A, R) = Fra(ag, lg, A, r)
        <5>1. ag + lg <= r
          BY <1>6, <1>7, <2>1, <4>1
        <5> QED BY <1>4, <1>6, <1>9, <2>1, <5>1, OltreIntervallo
      <4> QED BY <2>2, <3>1, <4>2 DEF ag, lg
    <3>3. CASE PrimaInScadenza(f, g)
      <4>1. a + l <= ag
        BY <1>0, <1>7, <1>11, <2>1, <3>3, Ordine, InizioOrdinato
      <4> HIDE DEF ag, lg
      <4>2. Fino(ag, lg, R) = Fino(ag, lg, r) /\ Fra(ag, lg, A, R) = Fra(ag, lg, A, r)
        <5>1. R <= ag
          BY <1>7, <1>9, <2>1, <4>1
        <5> QED BY <1>4, <1>6, <1>9, <2>1, <5>1, PrimaDellIntervallo
      <4> QED BY <2>2, <3>1, <4>2 DEF ag, lg
    <3>4. PrimaInScadenza(g, f) \/ PrimaInScadenza(f, g)
      BY <1>7, <1>11, <2>4, Ordine DEF Ordinate
    <3> QED BY <3>2, <3>3, <3>4
  <2> QED BY <2>3, <2>4
<1>12. \A g \in Fatture : Debitore[g] = cl => (residui'[g] > 0 <=> residui[g] > 0 /\ (g = f => q # x))
  <2> SUFFICES ASSUME NEW g \in Fatture, Debitore[g] = cl
               PROVE  residui'[g] > 0 <=> residui[g] > 0 /\ (g = f => q # x)
    OBVIOUS
  <2>1. CASE g = f
    <3>1. residui[g] = x /\ residui'[g] = x - q
      BY <1>0, <1>10, <2>1
    <3>2. x \in Int
      BY <1>6, <1>7
    <3> QED BY <1>7, <1>9, <2>1, <3>1, <3>2
  <2>2. CASE g # f
    BY <1>10, <2>2
  <2> QED BY <2>1, <2>2
<1>13. TypeOK'
  <2>1. residui' \in [Fatture -> Int] /\ pagamenti' \in [Movimenti \X Fatture -> Int]
    BY <1>1, <1>3, <1>9 DEF TypeOK
  <2>2. d - q \in Int
    BY <1>3, <1>9
  <2> QED BY <1>1, <1>2, <2>1, <2>2 DEF TypeOK
<1>14. InServizio'
  <2> SUFFICES ASSUME aperte' # {}
               PROVE  /\ indice' > 0 /\ 0 < daAllocare' /\ daAllocare' <= b
                      /\ aperte' = AperteDi(cl)' /\ Pagato(Preso', cl) = A + b
    BY <1>0, <1>2 DEF InServizio
  <2>1. d - q > 0 /\ aperte' = aperte \ {f} /\ q = x
    BY <1>1, <1>3, <1>9
  <2>2. aperte' = AperteDi(cl)'
    BY <1>3, <1>7, <1>12, <2>1 DEF AperteDi
  <2>3. indice' > 0
    BY <1>1 DEF Inv, InServizio
  <2> QED BY <1>1, <1>2, <1>3, <1>4, <1>9, <2>1, <2>2, <2>3
\* If the inner loop is over, what it does not allocate changes nothing.
<1>15. PICK E : E = Raggiunto(cl)'
  OBVIOUS
<1>16. E \in Nat /\ R <= E /\ Arrivo(m)' = E /\ (E = R \/ (aperte \ {f} = {} /\ q = x))
  <2>1. E = A + b - (IF aperte' # {} THEN d - q ELSE 0)
    <3>1. Raggiunto(cl)' = Pagato(Preso', cl) - (IF aperte' # {} /\ cl = Mittente[Corrente'] THEN daAllocare' ELSE 0)
      BY DEF Raggiunto
    <3>2. Pagato(Preso', cl) = A + b /\ cl = Mittente[Corrente'] /\ daAllocare' = d - q
      BY <1>0, <1>1, <1>2, <1>3
    <3> DEFINE P == Pagato(Preso', cl)
               C == Corrente'
               D == daAllocare'
               V == aperte'
    <3>3. E = P - (IF V # {} /\ cl = Mittente[C] THEN D ELSE 0)
      BY <1>15, <3>1
    <3>4. P = A + b /\ cl = Mittente[C] /\ D = d - q
      BY <3>2
    <3> HIDE DEF P, C, D, V
    <3>5. E = A + b - (IF V # {} THEN d - q ELSE 0)
      BY <1>3, <1>4, <1>9, <3>3, <3>4
    <3> QED BY <3>5 DEF V
  <2>2. Arrivo(m)' = A + b - (IF aperte' # {} THEN d - q ELSE 0)
    BY <1>0, <1>1, <1>2 DEF Arrivo
  <2>3. aperte' # {} \/ d - q <= 0 \/ (aperte \ {f} = {} /\ q = x)
    BY <1>1, <1>3, <1>9
  <2>4. R = A + b - (d - q)
    BY <1>3, <1>4, <1>5, <1>8, <1>9
  <2> QED BY <1>3, <1>4, <1>9, <2>1, <2>2, <2>3, <2>4
<1>17. ASSUME NEW g \in Fatture, Debitore[g] = cl
       PROVE  /\ residui'[g] = importo[g] - Fino(InizioFattura(Dovuti, g), Dovuti[g], E)
              /\ pagamenti'[<<m, g>>] = Fra(InizioFattura(Dovuti, g), Dovuti[g], A, E)
  <2>1. CASE E = R
    BY <1>11, <1>17, <2>1
  <2>2. CASE aperte \ {f} = {} /\ q = x
    <3> DEFINE ag == InizioFattura(Dovuti, g)
               lg == Dovuti[g]
    <3>1. ag \in Nat /\ lg = Positivo(importo[g]) /\ importo[g] \in Int
      BY <1>1, DatiNaturali, InizioNaturale
    <3>2. residui'[g] = importo[g] - Fino(ag, lg, R) /\ pagamenti'[<<m, g>>] = Fra(ag, lg, A, R)
      BY <1>11, <1>17
    <3>3. ~(residui'[g] > 0)
      BY <1>3, <1>12, <1>17, <2>2 DEF AperteDi
    <3> HIDE DEF ag, lg
    <3>4. lg \in Nat /\ (lg = 0 \/ ag + lg <= R)
      BY <1>9, <3>1, <3>2, <3>3, RestoAperto
    <3>5. Fino(ag, lg, E) = Fino(ag, lg, R) /\ Fra(ag, lg, A, E) = Fra(ag, lg, A, R)
      <4>1. A <= R
        BY <1>4, <1>6, <1>9
      <4> QED BY <1>4, <1>9, <1>16, <3>1, <3>4, <4>1, OltreIntervallo
    <3> QED BY <3>2, <3>5 DEF ag, lg
  <2> QED BY <1>16, <2>1, <2>2
<1>18. \A c : c # cl => Raggiunto(c)' = Raggiunto(c)
  BY <1>0, <1>1, <1>2 DEF Raggiunto
<1>19. \A n : n # m => Arrivo(n)' = Arrivo(n)
  BY <1>0, <1>1, <1>2 DEF Arrivo
<1>20. ResiduiEsatti'
  <2> SUFFICES ASSUME NEW g \in Fatture
               PROVE  residui'[g] = importo'[g] - Fino(InizioFattura(Dovuti', g), Dovuti'[g], Raggiunto(Debitore[g])')
    BY DEF ResiduiEsatti
  <2>1. CASE Debitore[g] = cl
    BY <1>2, <1>15, <1>17, <2>1
  <2>2. CASE Debitore[g] # cl
    <3>1. residui'[g] = residui[g] /\ Raggiunto(Debitore[g])' = Raggiunto(Debitore[g])
      BY <1>7, <1>10, <1>18, <2>2
    <3> QED BY <1>2, <3>1 DEF Inv, ResiduiEsatti
  <2> QED BY <2>1, <2>2
<1>21. PagamentiEsatti'
  <2> SUFFICES ASSUME NEW n \in Movimenti, NEW g \in Fatture
               PROVE  pagamenti'[<<n, g>>] =
                        IF n \in visti' /\ Mittente[n] = Debitore[g]
                        THEN Fra(InizioFattura(Dovuti', g), Dovuti'[g], Partenza(n)', Arrivo(n)') ELSE 0
    BY DEF PagamentiEsatti
  <2>1. pagamenti[<<n, g>>] =
          IF n \in visti /\ Mittente[n] = Debitore[g]
          THEN Fra(InizioFattura(Dovuti, g), Dovuti[g], Partenza(n), Arrivo(n)) ELSE 0
    BY DEF Inv, PagamentiEsatti
  <2>2. CASE n = m /\ Debitore[g] = cl
    BY <1>0, <1>1, <1>2, <1>3, <1>16, <1>17, <2>2
  <2>3. CASE n = m /\ Debitore[g] # cl
    <3>1. pagamenti'[<<n, g>>] = pagamenti[<<n, g>>]
      BY <1>7, <1>10, <2>3
    <3> QED BY <1>0, <2>1, <2>3, <3>1
  <2>4. CASE n # m
    <3>1. /\ pagamenti'[<<n, g>>] = pagamenti[<<n, g>>]
          /\ Arrivo(n)' = Arrivo(n) /\ Partenza(n)' = Partenza(n)
      BY <1>2, <1>10, <1>19, <2>4
    <3> QED BY <1>1, <1>2, <2>1, <3>1
  <2> QED BY <2>2, <2>3, <2>4
<1>22. ScartiEsatti'
  BY <1>1, <1>2 DEF Inv, ScartiEsatti
<1> QED BY <1>13, <1>14, <1>20, <1>21, <1>22 DEF Inv

-----------------------------------------------------------------------------
(***************************************************************************)
(* The invariant, and the outcome it leaves when the loop ends.            *)
(***************************************************************************)
LEMMA PassoInv == Inv /\ [Next]_vars => Inv'
<1> SUFFICES ASSUME Inv, [Next]_vars PROVE Inv'
  OBVIOUS
<1>1. CASE Ripetuto
  BY <1>1, RipetutoInv
<1>2. CASE Scartato
  BY <1>2, ScartatoInv
<1>3. CASE Abbinato
  BY <1>3, AbbinatoInv
<1>4. ASSUME NEW f \in Fatture, Alloca(f) PROVE Inv'
  BY <1>4, AllocaInv
<1>5. CASE UNCHANGED vars
  <2>1. /\ lotto' = lotto /\ indice' = indice /\ visti' = visti /\ residui' = residui
        /\ pagamenti' = pagamenti /\ nonRiconciliati' = nonRiconciliati
        /\ aperte' = aperte /\ daAllocare' = daAllocare
    BY <1>5 DEF vars
  <2>2. /\ importo' = importo /\ lista' = lista
        /\ Dovuti' = Dovuti /\ Portati' = Portati
        /\ \A m : Partenza(m)' = Partenza(m)
    BY <2>1, LottoFermo
  <2>3. Preso' = Preso /\ Corrente' = Corrente
    BY <2>1, <2>2 DEF Preso, Corrente
  <2>4. (\A c : Raggiunto(c)' = Raggiunto(c)) /\ \A m : Arrivo(m)' = Arrivo(m)
    BY <2>1, <2>2, <2>3 DEF Raggiunto, Arrivo
  <2>5. TypeOK'
    BY <2>1, <2>2 DEF Inv, TypeOK
  <2>6. InServizio'
    BY <2>1, <2>2, <2>3 DEF Inv, InServizio, AperteDi
  <2>7. ResiduiEsatti' /\ PagamentiEsatti' /\ ScartiEsatti'
    BY <2>1, <2>2, <2>4 DEF Inv, ResiduiEsatti, PagamentiEsatti, ScartiEsatti
  <2> QED BY <2>5, <2>6, <2>7 DEF Inv
<1> QED BY <1>1, <1>2, <1>3, <1>4, <1>5 DEF Next

\* At every turn of the loop the residuals and the payments are those of the
\* point that the money of each debtor has come to (providers.py:159-170), and
\* a movement is discarded exactly when nothing was due beyond the point where
\* it begins.
THEOREM Invariante == Spec => []Inv
<1>1. Init => Inv
  BY InvInit
<1>2. Inv /\ [Next]_vars => Inv'
  BY PassoInv
<1> QED BY <1>1, <1>2, PTL DEF Spec

\* When the loop has ended, all the money has been taken.
LEMMA TuttoPreso ==
  ASSUME Inv, Finito
  PROVE  /\ visti = {lista[i].id : i \in DOMAIN lista}
         /\ \A m \in Movimenti : m \notin visti => Portati[m] = 0
         /\ \A c : Raggiunto(c) = Pagato(Portati, c) /\ Pagato(Portati, c) \in Nat
         /\ \A m \in Movimenti : Arrivo(m) = Partenza(m) + Portati[m] /\ Partenza(m) \in Nat
<1>1. TypeOK /\ aperte = {} /\ indice = Len(lista) /\ lista \in Liste
  BY DEF Inv, TypeOK, Finito
<1>2. visti = {lista[i].id : i \in DOMAIN lista}
  BY <1>1, Voci DEF TypeOK
<1>3. \A m \in Movimenti : m \notin visti => Portati[m] = 0
  BY <1>1, <1>2, Voci, DisponibileNaturale DEF Portati
<1>4. Preso = Portati /\ Portati \in [Movimenti -> Nat]
  <2>1. Portati \in [Movimenti -> Nat] /\ Preso \in [Movimenti -> Nat]
    BY <1>1, DatiNaturali
  <2>2. \A m \in Movimenti : Preso[m] = Portati[m]
    BY <1>3 DEF Preso
  <2> QED BY <2>1, <2>2
<1>5. ASSUME NEW c PROVE Raggiunto(c) = Pagato(Portati, c) /\ Pagato(Portati, c) \in Nat
  <2> DEFINE S == {m \in Movimenti : Mittente[m] = c}
  <2>1. IsFiniteSet(S) /\ Naturale(Portati, S)
    BY <1>4, ScorrimentoAssumption, FS_Subset DEF Naturale
  <2>2. Pagato(Portati, c) = SommaSu(Portati, S)
    BY DEF Pagato
  <2> HIDE DEF S
  <2>3. Pagato(Portati, c) \in Nat
    BY <2>1, <2>2, SommaNaturale
  <2>4. Raggiunto(c) = Pagato(Portati, c) - 0
    BY <1>1, <1>4 DEF Raggiunto
  <2> QED BY <2>3, <2>4
<1>6. ASSUME NEW m \in Movimenti
      PROVE  Arrivo(m) = Partenza(m) + Portati[m] /\ Partenza(m) \in Nat
  <2> DEFINE B == {n \in Movimenti : Mittente[n] = Mittente[m] /\ Posto[n] < Posto[m]}
  <2>1. IsFiniteSet(B) /\ Naturale(Portati, B)
    BY <1>4, ScorrimentoAssumption, FS_Subset DEF Naturale
  <2>2. Partenza(m) = SommaSu(Portati, B)
    BY DEF Partenza, InizioMovimento
  <2> HIDE DEF B
  <2>3. Partenza(m) \in Nat /\ Portati[m] \in Nat
    BY <1>4, <2>1, <2>2, SommaNaturale
  <2>4. Arrivo(m) = Partenza(m) + Portati[m] - 0
    BY <1>1 DEF Arrivo
  <2> QED BY <2>3, <2>4
<1> QED BY <1>2, <1>3, <1>5, <1>6

LEMMA FormaChiusa ==
  ASSUME Inv, Finito
  PROVE  /\ pagamenti = Riconcilia(Dovuti, Portati)
         /\ \A m \in Movimenti, f \in Fatture : pagamenti[<<m, f>>] = Quota(Dovuti, Portati, m, f)
<1>1. TypeOK /\ pagamenti \in [Movimenti \X Fatture -> Int]
  BY DEF Inv, TypeOK
<1>2. ASSUME NEW m \in Movimenti, NEW f \in Fatture
      PROVE  pagamenti[<<m, f>>] = Quota(Dovuti, Portati, m, f)
  <2>1. PICK I, l, A, b : /\ I = InizioFattura(Dovuti, f) /\ l = Dovuti[f]
                          /\ A = Partenza(m) /\ b = Portati[m]
    OBVIOUS
  <2>2. I \in Nat /\ l \in Nat /\ A \in Nat /\ b \in Nat
    BY <1>1, <2>1, DatiNaturali, InizioNaturale, TuttoPreso
  <2>3. Quota(Dovuti, Portati, m, f) = IF Mittente[m] = Debitore[f] THEN Fra(I, l, A, A + b) ELSE 0
    BY <2>1 DEF Quota, Fra, Partenza
  <2>4. pagamenti[<<m, f>>] =
          IF m \in visti /\ Mittente[m] = Debitore[f] THEN Fra(I, l, A, A + b) ELSE 0
    <3>1. Arrivo(m) = A + b
      BY <2>1, TuttoPreso
    <3> QED BY <2>1, <3>1 DEF Inv, PagamentiEsatti
  <2>5. CASE m \notin visti
    <3>1. b = 0
      BY <2>1, <2>5, TuttoPreso
    <3>2. Fra(I, l, A, A + b) = 0
      BY <2>2, <3>1 DEF Fra, Massimo, Minimo
    <3> QED BY <2>3, <2>4, <2>5, <3>2
  <2>6. CASE m \in visti
    BY <2>3, <2>4, <2>6
  <2> QED BY <2>5, <2>6
<1>3. \A mf \in Movimenti \X Fatture : pagamenti[mf] = Quota(Dovuti, Portati, mf[1], mf[2])
  BY <1>2
<1>4. pagamenti = [mf \in Movimenti \X Fatture |-> Quota(Dovuti, Portati, mf[1], mf[2])]
  BY <1>1, <1>3
<1> QED BY <1>2, <1>4 DEF Riconcilia

\* What an invoice received is what its residual went down by.
LEMMA RicevutoResiduo ==
  ASSUME Inv, Finito, NEW f \in Fatture
  PROVE  /\ importo[f] \in Int /\ Dovuti[f] \in Nat /\ Ricevuto(f) \in Nat
         /\ residui[f] = importo[f] - Ricevuto(f) /\ Ricevuto(f) <= Dovuti[f]
         /\ importo[f] <= Dovuti[f] /\ (importo[f] > 0 => Dovuti[f] = importo[f])
<1>1. PICK I, l, D, c, i : /\ I = InizioFattura(Dovuti, f) /\ l = Dovuti[f]
                           /\ D = Pagato(Portati, Debitore[f]) /\ c = Ricevuto(f) /\ i = importo[f]
  OBVIOUS
<1>2. Dovuti \in [Fatture -> Nat] /\ Portati \in [Movimenti -> Nat] /\ i \in Int /\ l = Positivo(i)
  BY <1>1, DatiNaturali DEF Inv
<1>3. I \in Nat /\ D \in Nat /\ c = Minimo(I + l, D) - Minimo(I, D)
  <2> DEFINE q == [m \in Movimenti |-> pagamenti[<<m, f>>]]
  <2>1. \A m \in Movimenti : q[m] = Quota(Dovuti, Portati, m, f)
    BY FormaChiusa
  <2>2. c = SommaSu(q, Movimenti)
    BY <1>1 DEF Ricevuto
  <2> HIDE DEF q
  <2>3. D = Pagato(Portati, Debitore[f]) /\ I = InizioFattura(Dovuti, f)
    BY <1>1
  <2>4. /\ I \in Nat /\ D \in Nat
        /\ SommaSu(q, Movimenti) = Minimo(I + Dovuti[f], D) - Minimo(I, D)
    BY <1>2, <2>1, <2>3, Ordine, QuoteDellaFattura
  <2> QED BY <1>1, <2>2, <2>4
<1>4. l \in Nat
  BY <1>1, <1>2
<1>5. c = Fino(I, l, D) /\ c \in Nat /\ c <= l
  BY <1>3, <1>4 DEF Fino, Massimo, Minimo
<1>6. residui[f] = i - Fino(I, l, D)
  BY <1>1, TuttoPreso DEF Inv, ResiduiEsatti
<1>7. i <= l /\ (i > 0 => l = i)
  BY <1>2 DEF Positivo, Massimo
<1> QED BY <1>1, <1>2, <1>4, <1>5, <1>6, <1>7

LEMMA Completo ==
  ASSUME Inv, Finito
  PROVE  EsitoCompleto
<1>1. ASSUME NEW f \in Fatture
      PROVE  IF f \in FattureDaPagare THEN Ricevuto(f) <= Dovuti[f] ELSE Ricevuto(f) = importo[f]
  <2>1. PICK r, c, i, l : r = residui[f] /\ c = Ricevuto(f) /\ i = importo[f] /\ l = Dovuti[f]
    OBVIOUS
  <2>2. /\ i \in Int /\ l \in Nat /\ c \in Nat /\ r = i - c /\ c <= l /\ (i > 0 => l = i)
    BY <2>1, RicevutoResiduo
  <2>3. f \in FattureDaPagare <=> r > 0 \/ i <= 0
    BY <2>1 DEF FattureDaPagare
  <2>4. IF r > 0 \/ i <= 0 THEN c <= l ELSE c = i
    BY <2>2
  <2> QED BY <2>1, <2>3, <2>4
<1>2. ASSUME NEW m \in visti
      PROVE  /\ m \in nonRiconciliati <=> Versato(m) = 0
             /\ Versato(m) < Portati[m] =>
                  \A f \in Fatture : Debitore[f] = Mittente[m] => residui[f] <= 0
  <2>1. m \in Movimenti
    BY TuttoPreso, Voci DEF Inv, TypeOK
  <2>2. PICK A, R, b, v : /\ A = Partenza(m) /\ R = Dovuto(Dovuti, Mittente[m])
                          /\ b = Portati[m] /\ v = Versato(m)
    OBVIOUS
  <2>3. Dovuti \in [Fatture -> Nat] /\ Portati \in [Movimenti -> Nat] /\ b \in Nat
    BY <2>1, <2>2, DatiNaturali DEF Inv
  <2> DEFINE q == [f \in Fatture |-> pagamenti[<<m, f>>]]
  <2>4. q = [f \in Fatture |-> Quota(Dovuti, Portati, m, f)] /\ v = SommaSu(q, Fatture)
    BY <2>1, <2>2, FormaChiusa DEF Versato
  <2>5. A \in Nat /\ R \in Nat /\ v = Minimo(A + b, R) - Minimo(A, R)
    <3>1. \A f \in Fatture : q[f] = Quota(Dovuti, Portati, m, f)
      BY <2>1, FormaChiusa
    <3>2. A = InizioMovimento(Portati, m)
      BY <2>2 DEF Partenza
    <3> HIDE DEF q
    <3> QED BY <2>1, <2>2, <2>3, <2>4, <3>1, <3>2, Ordine, QuoteDelMovimento
  <2> HIDE DEF q
  <2>6. m \in nonRiconciliati <=> v = 0
    <3>1. m \in nonRiconciliati <=> b = 0 \/ R <= A
      BY <2>2 DEF Inv, ScartiEsatti
    <3>2. v = 0 <=> b = 0 \/ R <= A
      BY <2>3, <2>5 DEF Minimo
    <3> QED BY <3>1, <3>2
  <2>7. ASSUME v < b, NEW f \in Fatture, Debitore[f] = Mittente[m] PROVE residui[f] <= 0
    <3>1. Ricevuto(f) = SommaSu([n \in Movimenti |-> Quota(Dovuti, Portati, n, f)], Movimenti)
      <4>1. [n \in Movimenti |-> pagamenti[<<n, f>>]] = [n \in Movimenti |-> Quota(Dovuti, Portati, n, f)]
        BY FormaChiusa
      <4> QED BY <4>1 DEF Ricevuto
    <3>2. PICK r, c, i, l : r = residui[f] /\ c = Ricevuto(f) /\ i = importo[f] /\ l = Dovuti[f]
      OBVIOUS
    <3>3. i \in Int /\ l \in Nat /\ c \in Nat /\ r = i - c /\ i <= l
      BY <3>2, RicevutoResiduo
    <3>4. ~(l > c)
      <4> SUFFICES ASSUME l > c PROVE FALSE
        OBVIOUS
      <4>1. SommaSu([g \in Fatture |-> Quota(Dovuti, Portati, m, g)], Fatture) = Portati[m]
        BY <2>1, <2>3, <2>7, <3>1, <3>2, Ordine, NullaAvanza
      <4>2. v = b
        BY <2>2, <2>4, <4>1
      <4> QED BY <2>3, <2>7, <4>2
    <3> QED BY <3>2, <3>3, <3>4
  <2> QED BY <2>2, <2>6, <2>7
<1> QED BY <1>1, <1>2 DEF EsitoCompleto

\* The loop of riconcilia (providers.py:124-181) computes the allocation that
\* the whole project takes for granted, for every list of movements and every
\* amounts: repeated movements, reversals and credit notes included.  Its
\* outcome loses no invoice and no movement, and what is left of a movement is
\* more than its debtor owed.
THEOREM AbbinamentoGiusto == Spec => []AbbinamentoCorretto
<1>1. Inv => AbbinamentoCorretto
  BY TuttoPreso, FormaChiusa, Completo DEF AbbinamentoCorretto
<1> QED BY <1>1, Invariante, PTL

-----------------------------------------------------------------------------
(***************************************************************************)
(* The calendar: years.                                                    *)
(***************************************************************************)
\* The days before 1 March of year p, from that of year 0, and how a year splits
\* into centuries, leap years and the rest.
Passati(p) == 365 * p + (p \div 4) - (p \div 100) + (p \div 400)

Secoli(p, d, e, i, k) ==
  /\ d \in Nat /\ e \in 0 .. 3 /\ i \in 0 .. 24 /\ k \in 0 .. 3
  /\ p = 400 * d + 100 * e + 4 * i + k

\* The days of the years before, from that split.
LEMMA PassatiSecoli ==
  ASSUME NEW p, NEW d, NEW e, NEW i, NEW k, Secoli(p, d, e, i, k)
  PROVE  /\ p \in Nat
         /\ p \div 400 = d /\ p \div 100 = 4 * d + e /\ p \div 4 = 100 * d + 25 * e + i
         /\ Passati(p) = 146097 * d + 36524 * e + 1461 * i + 365 * k
         /\ Passati(p) \in Nat
<1>1. d \in Nat /\ e \in 0 .. 3 /\ i \in 0 .. 24 /\ k \in 0 .. 3 /\ p = 400 * d + 100 * e + 4 * i + k
  BY DEF Secoli
<1>2. p \in Nat
  BY <1>1
<1>3. p \div 4 = 100 * d + 25 * e + i
  BY <1>1
<1>4. p \div 100 = 4 * d + e
  BY <1>1
<1>5. p \div 400 = d
  BY <1>1
<1>6. Passati(p) = 365 * p + (100 * d + 25 * e + i) - (4 * d + e) + d
  BY <1>3, <1>4, <1>5 DEF Passati
<1>7. Passati(p) = 146097 * d + 36524 * e + 1461 * i + 365 * k
  BY <1>1, <1>6
<1> QED BY <1>1, <1>2, <1>3, <1>4, <1>5, <1>7

\* Every year has one.
LEMMA OgniAnnoHaSecoli ==
  ASSUME NEW p \in Nat
  PROVE  \E d, e, i, k : Secoli(p, d, e, i, k)
<1> DEFINE d == p \div 400
           r == p % 400
           e == r \div 100
           s == r % 100
           i == s \div 4
           k == s % 4
<1>1. d \in Nat /\ r \in 0 .. 399 /\ p = 400 * d + r
  OBVIOUS
<1> HIDE DEF d, r
<1>2. e \in 0 .. 3 /\ s \in 0 .. 99 /\ r = 100 * e + s
  BY <1>1
<1> HIDE DEF e, s
<1>3. i \in 0 .. 24 /\ k \in 0 .. 3 /\ s = 4 * i + k
  BY <1>2
<1> HIDE DEF i, k
<1>4. Secoli(p, d, e, i, k)
  BY <1>1, <1>2, <1>3 DEF Secoli
<1> QED BY <1>4

\* Every day is in a year.
LEMMA OgniGiornoHaAnno ==
  ASSUME NEW y \in Nat
  PROVE  \E p \in Nat : Passati(p) <= y /\ y < Passati(p + 1)
<1>1. PICK d \in Nat, r \in Nat : r < 146097 /\ y = 146097 * d + r
  <2>1. y \div 146097 \in Nat /\ y % 146097 \in Nat /\ y % 146097 < 146097 /\ y = 146097 * (y \div 146097) + (y % 146097)
    BY SMT
  <2> QED BY <2>1
<1>2. PICK e \in 0 .. 3, s \in Nat : s <= 36524 /\ (e < 3 => s < 36524) /\ r = 36524 * e + s
  <2>1. CASE r < 109572
    <3>1. r \div 36524 \in 0 .. 2 /\ r % 36524 \in Nat /\ r % 36524 < 36524 /\ r = 36524 * (r \div 36524) + (r % 36524)
      BY SMT, <2>1
    <3> QED BY SMT, <3>1
  <2>2. CASE r >= 109572
    <3>1. r - 109572 \in Nat /\ r - 109572 <= 36524 /\ r = 36524 * 3 + (r - 109572)
      BY SMT, <1>1, <2>2
    <3> QED BY SMT, <3>1
  <2> QED BY SMT, <2>1, <2>2
<1>3. PICK i \in 0 .. 24, t \in Nat : t <= 1460 /\ s = 1461 * i + t /\ (e < 3 /\ i = 24 => t < 1460)
  <2>1. s \div 1461 \in 0 .. 24 /\ s % 1461 \in Nat /\ s % 1461 <= 1460 /\ s = 1461 * (s \div 1461) + (s % 1461)
    BY SMT, <1>2
  <2>2. e < 3 /\ s \div 1461 = 24 => s % 1461 < 1460
    BY SMT, <1>2, <2>1
  <2> QED BY <2>1, <2>2
<1>4. PICK k \in 0 .. 3 : 365 * k <= t /\ (k < 3 => t < 365 * k + 365)
  <2>1. t < 365 \/ (365 <= t /\ t < 730) \/ (730 <= t /\ t < 1095) \/ 1095 <= t
    BY SMT
  <2> QED BY SMT, <2>1
<1>0. PICK p : p = 400 * d + 100 * e + 4 * i + k
  OBVIOUS
<1>5. Secoli(p, d, e, i, k)
  BY SMT, <1>0, <1>1, <1>2, <1>3, <1>4 DEF Secoli
<1>6. Passati(p) = 146097 * d + 36524 * e + 1461 * i + 365 * k
  BY SMT, <1>5, PassatiSecoli
<1>7. p \in Nat /\ Passati(p) <= y
  BY SMT, <1>0, <1>1, <1>2, <1>3, <1>4, <1>6
<1>8. y < Passati(p + 1)
  <2>1. CASE k < 3
    <3>1. Secoli(p + 1, d, e, i, k + 1)
      BY SMT, <1>0, <1>1, <1>2, <1>3, <1>4, <2>1 DEF Secoli
    <3>2. Passati(p + 1) = 146097 * d + 36524 * e + 1461 * i + 365 * (k + 1)
      BY <3>1, PassatiSecoli
    <3> QED BY SMT, <1>0, <1>1, <1>2, <1>3, <1>4, <2>1, <3>2
  <2>2. CASE k = 3 /\ i < 24
    <3>1. Secoli(p + 1, d, e, i + 1, 0)
      BY SMT, <1>0, <1>1, <1>2, <1>3, <1>4, <2>2 DEF Secoli
    <3>2. Passati(p + 1) = 146097 * d + 36524 * e + 1461 * (i + 1) + 365 * 0
      BY <3>1, PassatiSecoli
    <3> QED BY SMT, <1>0, <1>1, <1>2, <1>3, <1>4, <2>2, <3>2
  <2>3. CASE k = 3 /\ i = 24 /\ e < 3
    <3>1. Secoli(p + 1, d, e + 1, 0, 0)
      BY SMT, <1>0, <1>1, <1>2, <1>3, <1>4, <2>3 DEF Secoli
    <3>2. Passati(p + 1) = 146097 * d + 36524 * (e + 1) + 1461 * 0 + 365 * 0
      BY <3>1, PassatiSecoli
    <3> QED BY SMT, <1>0, <1>1, <1>2, <1>3, <1>4, <2>3, <3>2
  <2>4. CASE k = 3 /\ i = 24 /\ e = 3
    <3>1. Secoli(p + 1, d + 1, 0, 0, 0)
      BY SMT, <1>0, <1>1, <1>2, <1>3, <1>4, <2>4 DEF Secoli
    <3>2. Passati(p + 1) = 146097 * (d + 1) + 36524 * 0 + 1461 * 0 + 365 * 0
      BY <3>1, PassatiSecoli
    <3> QED BY SMT, <1>0, <1>1, <1>2, <1>3, <1>4, <2>4, <3>2
  <2> QED BY SMT, <1>2, <1>3, <1>4, <2>1, <2>2, <2>3, <2>4
<1> QED BY SMT, <1>7, <1>8

\* Years have 365 days or one more, and the first of March of one is that of
\* another or as many years later.
LEMMA PassatiCresce ==
  ASSUME NEW p \in Nat, NEW q \in Nat, p <= q
  PROVE  /\ Passati(p) \in Nat /\ Passati(q) \in Nat
         /\ Passati(p) + 365 * (q - p) <= Passati(q)
         /\ Passati(q) <= Passati(p) + 366 * (q - p)
<1>1. PICK d, e, i, k : Secoli(p, d, e, i, k)
  BY OgniAnnoHaSecoli
<1>2. PICK dd, ee, ii, kk : Secoli(q, dd, ee, ii, kk)
  BY OgniAnnoHaSecoli
<1>3. Passati(p) = 146097 * d + 36524 * e + 1461 * i + 365 * k /\ Passati(p) \in Nat
  BY <1>1, PassatiSecoli
<1>4. Passati(q) = 146097 * dd + 36524 * ee + 1461 * ii + 365 * kk /\ Passati(q) \in Nat
  BY <1>2, PassatiSecoli
<1>5. /\ d \in Nat /\ e \in 0 .. 3 /\ i \in 0 .. 24 /\ k \in 0 .. 3 /\ p = 400 * d + 100 * e + 4 * i + k
      /\ dd \in Nat /\ ee \in 0 .. 3 /\ ii \in 0 .. 24 /\ kk \in 0 .. 3 /\ q = 400 * dd + 100 * ee + 4 * ii + kk
  BY <1>1, <1>2 DEF Secoli
<1>6. 97 * d + 24 * e + i <= 97 * dd + 24 * ee + ii
  BY <1>5
<1>7. 97 * dd + 24 * ee + ii - (97 * d + 24 * e + i) <= q - p
  BY <1>5
<1> QED BY SMT, <1>3, <1>4, <1>5, <1>6, <1>7

\* The dates that the rules name, from the first of March of their year; January
\* belongs to the March before.
LEMMA Date ==
  ASSUME NEW p \in Nat
  PROVE  /\ Ordinale(p, 3, 1) = Passati(p) - 719468 /\ Ordinale(p, 3, 1) \in Int
         /\ \A g \in Int : /\ Ordinale(p, 3, g) = Ordinale(p, 3, 1) + g - 1
                           /\ Ordinale(p, 4, g) = Ordinale(p, 3, 1) + g + 30
                           /\ Ordinale(p, 5, g) = Ordinale(p, 3, 1) + g + 60
                           /\ Ordinale(p, 6, g) = Ordinale(p, 3, 1) + g + 91
                           /\ Ordinale(p, 8, g) = Ordinale(p, 3, 1) + g + 152
                           /\ Ordinale(p, 10, g) = Ordinale(p, 3, 1) + g + 213
                           /\ Ordinale(p, 11, g) = Ordinale(p, 3, 1) + g + 244
                           /\ Ordinale(p, 12, g) = Ordinale(p, 3, 1) + g + 274
                           /\ Ordinale(p + 1, 1, g) = Ordinale(p, 3, 1) + g + 305
<1>1. Passati(p) \in Int /\ Ordinale(p, 3, 1) = Passati(p) - 719468
  BY SMT DEF Ordinale, Passati
<1>2. ASSUME NEW g \in Int
      PROVE  /\ Ordinale(p, 3, g) = Passati(p) - 719468 + g - 1
             /\ Ordinale(p, 4, g) = Passati(p) - 719468 + g + 30
             /\ Ordinale(p, 5, g) = Passati(p) - 719468 + g + 60
             /\ Ordinale(p, 6, g) = Passati(p) - 719468 + g + 91
             /\ Ordinale(p, 8, g) = Passati(p) - 719468 + g + 152
             /\ Ordinale(p, 10, g) = Passati(p) - 719468 + g + 213
             /\ Ordinale(p, 11, g) = Passati(p) - 719468 + g + 244
             /\ Ordinale(p, 12, g) = Passati(p) - 719468 + g + 274
             /\ Ordinale(p + 1, 1, g) = Passati(p) - 719468 + g + 305
  BY SMT DEF Ordinale, Passati
<1> QED BY SMT, <1>1, <1>2

\* The first of March of a year and of the one before.
LEMMA MarzoDopo ==
  ASSUME NEW a \in Nat, a >= 1
  PROVE  /\ Ordinale(a, 3, 1) \in Int /\ Ordinale(a - 1, 3, 1) \in Int
         /\ Ordinale(a - 1, 3, 1) + 365 <= Ordinale(a, 3, 1)
         /\ Ordinale(a, 3, 1) <= Ordinale(a - 1, 3, 1) + 366
         /\ Ordinale(a, 1, 1) = Ordinale(a - 1, 3, 1) + 306
         /\ Ordinale(a + 1, 1, 1) = Ordinale(a, 3, 1) + 306
<1>1. a - 1 \in Nat /\ a - 1 <= a /\ (a - 1) + 1 = a /\ a - (a - 1) = 1
  BY SMT
<1>2. Ordinale(a, 3, 1) = Passati(a) - 719468 /\ Ordinale(a, 3, 1) \in Int /\ Ordinale(a + 1, 1, 1) = Ordinale(a, 3, 1) + 1 + 305
  BY SMT, Date
<1>3. Ordinale(a - 1, 3, 1) = Passati(a - 1) - 719468 /\ Ordinale(a - 1, 3, 1) \in Int
      /\ Ordinale(a, 1, 1) = Ordinale(a - 1, 3, 1) + 1 + 305
  BY SMT, <1>1, Date
<1>4. /\ Passati(a - 1) \in Nat /\ Passati(a) \in Nat
      /\ Passati(a - 1) + 365 <= Passati(a) /\ Passati(a) <= Passati(a - 1) + 366
  BY SMT, <1>1, PassatiCresce
<1> QED BY SMT, <1>2, <1>3, <1>4

\* A year ends before the next ones begin.
LEMMA AnniInFila ==
  ASSUME NEW x \in Nat, NEW z \in Nat, x < z
  PROVE  Ordinale(x + 1, 1, 1) <= Ordinale(z, 1, 1)
<1>1. PICK w \in Nat : w + 1 = z /\ x <= w
  <2>1. z - 1 \in Nat /\ (z - 1) + 1 = z /\ x <= z - 1
    BY SMT
  <2> QED BY SMT, <2>1
<1>2. Passati(x) \in Nat /\ Passati(w) \in Nat /\ Passati(x) + 365 * (w - x) <= Passati(w)
  BY <1>1, PassatiCresce
<1>3. Ordinale(x + 1, 1, 1) = Ordinale(x, 3, 1) + 1 + 305 /\ Ordinale(x, 3, 1) = Passati(x) - 719468
  BY SMT, Date
<1>4. Ordinale(w + 1, 1, 1) = Ordinale(w, 3, 1) + 1 + 305 /\ Ordinale(w, 3, 1) = Passati(w) - 719468
  BY SMT, Date
<1>5. Ordinale(w + 1, 1, 1) = Ordinale(z, 1, 1)
  BY SMT, <1>1
<1>6. Passati(x) <= Passati(w)
  BY SMT, <1>1, <1>2
<1> QED BY SMT, <1>2, <1>3, <1>4, <1>5, <1>6

\* No two years have a day in common.
LEMMA UnSoloAnno ==
  ASSUME NEW a \in Nat, NEW b \in Nat, a >= 1, b >= 1, NEW n \in Int,
         Ordinale(a, 1, 1) <= n, n < Ordinale(a + 1, 1, 1),
         Ordinale(b, 1, 1) <= n, n < Ordinale(b + 1, 1, 1)
  PROVE  a = b
<1>2. Ordinale(a, 1, 1) \in Int /\ Ordinale(a + 1, 1, 1) \in Int /\ Ordinale(b, 1, 1) \in Int /\ Ordinale(b + 1, 1, 1) \in Int
  BY SMT, MarzoDopo
<1>1. ASSUME a < b PROVE FALSE
  <2>1. Ordinale(a + 1, 1, 1) <= Ordinale(b, 1, 1)
    BY SMT, <1>1, AnniInFila
  <2> QED BY SMT, <1>2, <2>1
<1>3. ASSUME b < a PROVE FALSE
  <2>1. Ordinale(b + 1, 1, 1) <= Ordinale(a, 1, 1)
    BY SMT, <1>3, AnniInFila
  <2> QED BY SMT, <1>2, <2>1
<1> QED BY SMT, <1>1, <1>3

\* The year of a day is one that has it.
LEMMA AnnoGiusto ==
  ASSUME NEW n \in Nat
  PROVE  /\ Anno(n) \in Nat /\ Anno(n) >= 1970
         /\ Ordinale(Anno(n), 1, 1) <= n /\ n < Ordinale(Anno(n) + 1, 1, 1)
<1>1. PICK p \in Nat : Passati(p) <= n + 719162 /\ n + 719162 < Passati(p + 1)
  <2>1. n + 719162 \in Nat
    BY SMT
  <2> QED BY SMT, <2>1, OgniGiornoHaAnno
<1>2. Passati(1969) = 719162
  BY SMT DEF Passati
<1>3. p >= 1969
  <2>1. SUFFICES ASSUME p + 1 <= 1969 PROVE FALSE
    BY SMT
  <2>2. Passati(p + 1) \in Nat /\ Passati(p + 1) + 365 * (1969 - (p + 1)) <= Passati(1969)
    BY SMT, <2>1, PassatiCresce
  <2> QED BY SMT, <1>1, <1>2, <2>1, <2>2
<1>4. Passati(p) \in Nat /\ Passati(1969) + 365 * (p - 1969) <= Passati(p)
  BY SMT, <1>3, PassatiCresce
<1>5. Passati(p + 1) \in Nat /\ Passati(p + 1) <= Passati(1969) + 366 * (p + 1 - 1969)
  <2>1. p + 1 \in Nat /\ 1969 \in Nat /\ 1969 <= p + 1
    BY SMT, <1>3
  <2> HIDE <1>3
  <2> QED BY SMT, <2>1, PassatiCresce
<1>6. Ordinale(p + 1, 1, 1) <= n /\ n < Ordinale(p + 2, 1, 1)
  <2>1. Ordinale(p + 1, 1, 1) = Ordinale(p, 3, 1) + 1 + 305 /\ Ordinale(p, 3, 1) = Passati(p) - 719468
    BY SMT, Date
  <2>2. /\ Ordinale(p + 1 + 1, 1, 1) = Ordinale(p + 1, 3, 1) + 1 + 305
        /\ Ordinale(p + 1, 3, 1) = Passati(p + 1) - 719468
    BY SMT, Date
  <2>3. p + 1 + 1 = p + 2
    BY SMT
  <2> QED BY SMT, <1>1, <1>4, <1>5, <2>1, <2>2, <2>3
<1>7. p + 1 \in (n \div 366) + 1969 .. (n \div 365) + 1971
  <2>1. 365 * (p - 1969) <= n /\ n < 366 * (p + 1 - 1969)
    BY SMT, <1>1, <1>2, <1>4, <1>5
  <2>2. p - 1969 <= n \div 365 /\ n \div 366 <= p - 1969
    BY SMT, <1>3, <2>1
  <2> QED BY SMT, <2>2
<1>8. p + 1 + 1 = p + 2
  BY SMT
<1>9. /\ Anno(n) \in (n \div 366) + 1969 .. (n \div 365) + 1971
      /\ Ordinale(Anno(n), 1, 1) <= n /\ n < Ordinale(Anno(n) + 1, 1, 1)
  <2> DEFINE Anni0 == (n \div 366) + 1969 .. (n \div 365) + 1971
             Suo(a) == Ordinale(a, 1, 1) <= n /\ n < Ordinale(a + 1, 1, 1)
  <2>1. p + 1 \in Anni0 /\ Suo(p + 1)
    BY SMT, <1>6, <1>7, <1>8
  <2>2. Anno(n) = CHOOSE a \in Anni0 : Suo(a)
    BY SMT DEF Anno
  <2>3. SUFFICES Anno(n) \in Anni0 /\ Suo(Anno(n))
    BY SMT
  <2> HIDE DEF Anni0, Suo
  <2> QED BY Zenon, <2>1, <2>2
<1>10. Anno(n) \in Nat /\ Anno(n) >= 1969
  BY SMT, <1>9
<1>11. Anno(n) = p + 1
  BY SMT, <1>3, <1>6, <1>8, <1>9, <1>10, UnSoloAnno
<1> QED BY SMT, <1>3, <1>9, <1>11

\* And the only one.
LEMMA AnnoUnico ==
  ASSUME NEW n \in Nat, NEW a \in Nat, a >= 1, Ordinale(a, 1, 1) <= n, n < Ordinale(a + 1, 1, 1)
  PROVE  Anno(n) = a
BY SMT, AnnoGiusto, UnSoloAnno

(***************************************************************************)
(* Easter by Meeus, from the first of March.                               *)
(***************************************************************************)
\* The days from 21 March to the full moon, and from there to the Sunday.
Luna(a) ==
  (19 * (a % 19) + (a \div 100) - ((a \div 100) \div 4)
     - (((a \div 100) - (((a \div 100) + 8) \div 25) + 1) \div 3) + 15) % 30

Attesa(a) == (32 + 2 * ((a \div 100) % 4) + 2 * ((a % 100) \div 4) - Luna(a) - ((a % 100) % 4)) % 7

\* The month and the day that Meeus reads in a number are days after 1 March.
LEMMA MesePasqua ==
  ASSUME NEW a \in Nat, NEW n \in Nat, 93 <= n, n < 155
  PROVE  Ordinale(a, n \div 31, (n % 31) + 1) = Ordinale(a, 3, 1) + n - 93
<1>1. CASE n < 124
  <2>1. n \div 31 = 3 /\ n % 31 = n - 93 /\ (n % 31) + 1 \in Int
    BY SMT, <1>1
  <2>2. Ordinale(a, 3, (n % 31) + 1) = Ordinale(a, 3, 1) + ((n % 31) + 1) - 1 /\ Ordinale(a, 3, 1) \in Int
    BY SMT, <2>1, Date
  <2>3. Ordinale(a, n \div 31, (n % 31) + 1) = Ordinale(a, 3, (n % 31) + 1)
    BY Zenon, <2>1
  <2> QED BY SMT, <2>1, <2>2, <2>3
<1>2. CASE n >= 124
  <2>1. n \div 31 = 4 /\ n % 31 = n - 124 /\ (n % 31) + 1 \in Int
    BY SMT, <1>2
  <2>2. Ordinale(a, 4, (n % 31) + 1) = Ordinale(a, 3, 1) + ((n % 31) + 1) + 30 /\ Ordinale(a, 3, 1) \in Int
    BY SMT, <2>1, Date
  <2>3. Ordinale(a, n \div 31, (n % 31) + 1) = Ordinale(a, 4, (n % 31) + 1)
    BY Zenon, <2>1
  <2> QED BY SMT, <2>1, <2>2, <2>3
<1> QED BY SMT, <1>1, <1>2

\* The last correction takes a week off, and only in the two cases named here.
LEMMA SettimanaTolta ==
  ASSUME NEW x \in Nat, x < 19, NEW h \in Nat, h < 30, NEW l \in Nat, l < 7
  PROVE  (x + 11 * h + 22 * l) \div 451 =
           IF l = 6 /\ (h = 29 \/ (h = 28 /\ x > 10)) THEN 1 ELSE 0
<1>1. CASE l = 6 /\ (h = 29 \/ (h = 28 /\ x > 10))
  <2>1. 451 <= x + 11 * h + 22 * l /\ x + 11 * h + 22 * l < 902
    BY SMT, <1>1
  <2> QED BY SMT, <1>1, <2>1
<1>2. CASE ~(l = 6 /\ (h = 29 \/ (h = 28 /\ x > 10)))
  <2>1. 0 <= x + 11 * h + 22 * l /\ x + 11 * h + 22 * l < 451
    BY SMT, <1>2
  <2> QED BY SMT, <1>2, <2>1
<1> QED BY SMT, <1>1, <1>2

\* Easter, from the first of March: "n" and "m" of the code are gone.
LEMMA PasquaDaMarzo ==
  ASSUME NEW a \in Nat
  PROVE  /\ Luna(a) \in Nat /\ Luna(a) < 30 /\ Attesa(a) \in Nat /\ Attesa(a) < 7
         /\ Pasqua(a) = Ordinale(a, 3, 1) + 21 + Luna(a) + Attesa(a)
                          - (IF Attesa(a) = 6 /\ (Luna(a) = 29 \/ (Luna(a) = 28 /\ a % 19 > 10)) THEN 7 ELSE 0)
<1>1. Luna(a) \in Nat /\ Luna(a) < 30
  BY SMT DEF Luna
<1>2. Attesa(a) \in Nat /\ Attesa(a) < 7
  BY SMT, <1>1 DEF Attesa
<1>3. a % 19 \in Nat /\ a % 19 < 19
  BY SMT
<1> DEFINE m == ((a % 19) + 11 * Luna(a) + 22 * Attesa(a)) \div 451
           n == Luna(a) + Attesa(a) - 7 * m + 114
<1>4. m = IF Attesa(a) = 6 /\ (Luna(a) = 29 \/ (Luna(a) = 28 /\ a % 19 > 10)) THEN 1 ELSE 0
  BY SMT, <1>1, <1>2, <1>3, SettimanaTolta
<1>5. Pasqua(a) = Ordinale(a, n \div 31, (n % 31) + 1)
  BY SMT DEF Pasqua, Luna, Attesa
<1> HIDE DEF m
<1>6. n \in Nat /\ 93 <= n /\ n < 155
  BY SMT, <1>1, <1>2, <1>4
<1> HIDE DEF n
<1>7. Pasqua(a) = Ordinale(a, 3, 1) + n - 93
  BY SMT, <1>5, <1>6, MesePasqua
<1>8. Ordinale(a, 3, 1) \in Int
  BY SMT, Date
<1> QED BY SMT, <1>1, <1>2, <1>4, <1>7, <1>8 DEF n

\* Easter falls between 22 March and 25 April.
LEMMA PasquaFra ==
  ASSUME NEW a \in Nat
  PROVE  /\ Pasqua(a) \in Int
         /\ Ordinale(a, 3, 1) + 21 <= Pasqua(a) /\ Pasqua(a) <= Ordinale(a, 3, 1) + 55
<1>1. Ordinale(a, 3, 1) \in Int
  BY SMT, Date
<1>2. PICK l \in Nat, w \in Nat :
        /\ l = Luna(a) /\ l < 30 /\ w = Attesa(a) /\ w < 7
        /\ Pasqua(a) = Ordinale(a, 3, 1) + 21 + l + w
                          - (IF w = 6 /\ (l = 29 \/ (l = 28 /\ a % 19 > 10)) THEN 7 ELSE 0)
  BY PasquaDaMarzo
<1>3. CASE w = 6 /\ (l = 29 \/ (l = 28 /\ a % 19 > 10))
  BY SMT, <1>1, <1>2, <1>3
<1>4. CASE ~(w = 6 /\ (l = 29 \/ (l = 28 /\ a % 19 > 10)))
  <2>1. l + w <= 34
    BY SMT, <1>2, <1>4
  <2> QED BY SMT, <1>1, <1>2, <1>4, <2>1
<1> QED BY <1>3, <1>4

(***************************************************************************)
(* Holidays and working days.                                              *)
(***************************************************************************)
\* The holidays of a year, from the first of March of the year before and of
\* its own.
Festivo(n, marzo0, marzo, pasqua) ==
  \/ n = marzo0 + 306 \/ n = marzo0 + 311
  \/ n = marzo + 55 \/ n = marzo + 61 \/ n = marzo + 93 \/ n = marzo + 167 \/ n = marzo + 245
  \/ n = marzo + 282 \/ n = marzo + 299 \/ n = marzo + 300
  \/ n = pasqua + 1

\* FESTIVITA_FISSE, from the first of March.
LEMMA DateFesteFisse ==
  ASSUME NEW a \in Nat, a >= 1
  PROVE  /\ Ordinale(a, 4, 25) = Ordinale(a, 3, 1) + 55
         /\ Ordinale(a, 5, 1) = Ordinale(a, 3, 1) + 61
         /\ Ordinale(a, 6, 2) = Ordinale(a, 3, 1) + 93
         /\ Ordinale(a, 8, 15) = Ordinale(a, 3, 1) + 167
         /\ Ordinale(a, 11, 1) = Ordinale(a, 3, 1) + 245
         /\ Ordinale(a, 12, 8) = Ordinale(a, 3, 1) + 282
         /\ Ordinale(a, 12, 25) = Ordinale(a, 3, 1) + 299
         /\ Ordinale(a, 12, 26) = Ordinale(a, 3, 1) + 300
         /\ Ordinale(a, 1, 1) = Ordinale(a - 1, 3, 1) + 306
         /\ Ordinale(a, 1, 6) = Ordinale(a - 1, 3, 1) + 311
<1>1. /\ Ordinale(a, 3, 1) \in Int
      /\ Ordinale(a, 4, 25) = Ordinale(a, 3, 1) + 25 + 30
      /\ Ordinale(a, 5, 1) = Ordinale(a, 3, 1) + 1 + 60
      /\ Ordinale(a, 6, 2) = Ordinale(a, 3, 1) + 2 + 91
      /\ Ordinale(a, 8, 15) = Ordinale(a, 3, 1) + 15 + 152
      /\ Ordinale(a, 11, 1) = Ordinale(a, 3, 1) + 1 + 244
  BY SMT, Date
<1>2. /\ Ordinale(a, 12, 8) = Ordinale(a, 3, 1) + 8 + 274
      /\ Ordinale(a, 12, 25) = Ordinale(a, 3, 1) + 25 + 274
      /\ Ordinale(a, 12, 26) = Ordinale(a, 3, 1) + 26 + 274
  BY SMT, Date
<1>3. PICK p \in Nat : p = a - 1 /\ p + 1 = a
  <2>1. a - 1 \in Nat /\ (a - 1) + 1 = a
    BY SMT
  <2> QED BY SMT, <2>1
<1>4. /\ Ordinale(p, 3, 1) \in Int
      /\ Ordinale(p + 1, 1, 1) = Ordinale(p, 3, 1) + 1 + 305
      /\ Ordinale(p + 1, 1, 6) = Ordinale(p, 3, 1) + 6 + 305
  BY SMT, Date
<1>5. /\ Ordinale(p + 1, 1, 1) = Ordinale(a, 1, 1) /\ Ordinale(p + 1, 1, 6) = Ordinale(a, 1, 6)
      /\ Ordinale(p, 3, 1) = Ordinale(a - 1, 3, 1)
  BY SMT, <1>3
<1> QED BY SMT, <1>1, <1>2, <1>4, <1>5

\* A holiday is one of those of its year.
LEMMA FestiviDelAnno ==
  ASSUME NEW n \in Nat, NEW a \in Nat, a >= 1, Anno(n) = a, EFestivo(n)
  PROVE  Festivo(n, Ordinale(a - 1, 3, 1), Ordinale(a, 3, 1), Pasqua(a))
<1>1. (\E f \in FESTIVITA_FISSE : n = Ordinale(a, f[1], f[2])) \/ n = Pasqua(a) + 1
  BY SMT DEF EFestivo
<1>2. CASE \E f \in FESTIVITA_FISSE : n = Ordinale(a, f[1], f[2])
  <2>1. \/ n = Ordinale(a, 1, 1) \/ n = Ordinale(a, 1, 6) \/ n = Ordinale(a, 4, 25)
        \/ n = Ordinale(a, 5, 1) \/ n = Ordinale(a, 6, 2) \/ n = Ordinale(a, 8, 15)
        \/ n = Ordinale(a, 11, 1) \/ n = Ordinale(a, 12, 8) \/ n = Ordinale(a, 12, 25)
        \/ n = Ordinale(a, 12, 26)
    BY SMT, <1>2 DEF FESTIVITA_FISSE
  <2> QED BY SMT, <2>1, DateFesteFisse DEF Festivo
<1> QED BY SMT, <1>1, <1>2 DEF Festivo

\* No more than three holidays in eight days.
LEMMA TreFestivi ==
  ASSUME NEW n \in Nat
  PROVE  \E f1, f2, f3 \in Int :
           \A v \in Nat : n <= v /\ v <= n + 7 /\ EFestivo(v) => v = f1 \/ v = f2 \/ v = f3
<1>0. PICK a \in Nat : a = Anno(n) /\ a >= 1970 /\ Ordinale(a, 1, 1) <= n /\ n < Ordinale(a + 1, 1, 1)
  BY SMT, AnnoGiusto
<1>1. PICK m0 \in Int, m1 \in Int, m2 \in Int :
        /\ m0 = Ordinale(a - 1, 3, 1) /\ m1 = Ordinale(a, 3, 1) /\ m2 = Ordinale(a + 1, 3, 1)
        /\ m0 + 365 <= m1 /\ m1 <= m0 + 366 /\ m1 + 365 <= m2
        /\ Ordinale(a, 1, 1) = m0 + 306 /\ Ordinale(a + 1, 1, 1) = m1 + 306 /\ Ordinale(a + 2, 1, 1) = m2 + 306
  <2>1. a \in Nat /\ a >= 1 /\ a + 1 \in Nat /\ a + 1 >= 1 /\ (a + 1) - 1 = a /\ (a + 1) + 1 = a + 2
    BY SMT, <1>0
  <2>2. /\ Ordinale(a, 3, 1) \in Int /\ Ordinale(a - 1, 3, 1) \in Int
        /\ Ordinale(a - 1, 3, 1) + 365 <= Ordinale(a, 3, 1)
        /\ Ordinale(a, 3, 1) <= Ordinale(a - 1, 3, 1) + 366
        /\ Ordinale(a, 1, 1) = Ordinale(a - 1, 3, 1) + 306
        /\ Ordinale(a + 1, 1, 1) = Ordinale(a, 3, 1) + 306
    BY SMT, <2>1, MarzoDopo
  <2>3. /\ Ordinale(a + 1, 3, 1) \in Int
        /\ Ordinale((a + 1) - 1, 3, 1) + 365 <= Ordinale(a + 1, 3, 1)
        /\ Ordinale((a + 1) + 1, 1, 1) = Ordinale(a + 1, 3, 1) + 306
    BY SMT, <2>1, MarzoDopo
  <2> QED BY SMT, <2>1, <2>2, <2>3
<1>2. PICK e1 \in Int, e2 \in Int :
        /\ e1 = Pasqua(a) /\ m1 + 21 <= e1 /\ e1 <= m1 + 55
        /\ e2 = Pasqua(a + 1) /\ m2 + 21 <= e2 /\ e2 <= m2 + 55
  <2>1. a + 1 \in Nat
    BY SMT
  <2> QED BY SMT, <1>1, <2>1, PasquaFra
<1>3. ASSUME NEW v \in Nat, n <= v, v <= n + 7, EFestivo(v)
      PROVE  \/ v < m1 + 306 /\ Festivo(v, m0, m1, e1)
             \/ m1 + 306 <= v /\ Festivo(v, m1, m2, e2)
  <2>1. CASE v < m1 + 306
    <3>1. Anno(v) = a
      BY SMT, <1>0, <1>1, <1>3, <2>1, AnnoUnico
    <3>2. a >= 1
      BY SMT, <1>0
    <3> QED BY SMT, <1>1, <1>2, <1>3, <2>1, <3>1, <3>2, FestiviDelAnno
  <2>2. CASE m1 + 306 <= v
    <3>1. Ordinale(a + 1, 1, 1) <= v /\ v < Ordinale(a + 2, 1, 1)
      BY SMT, <1>0, <1>1, <1>3, <2>2
    <3>2. a + 1 \in Nat /\ a + 1 >= 1 /\ (a + 1) + 1 = a + 2 /\ (a + 1) - 1 = a
      BY SMT
    <3>3. Anno(v) = a + 1
      BY SMT, <1>3, <3>1, <3>2, AnnoUnico
    <3>4. Festivo(v, Ordinale((a + 1) - 1, 3, 1), Ordinale(a + 1, 3, 1), Pasqua(a + 1))
      BY SMT, <1>3, <3>2, <3>3, FestiviDelAnno
    <3> QED BY SMT, <1>1, <1>2, <2>2, <3>2, <3>4
  <2> QED BY SMT, <2>1, <2>2
<1>4. PICK x \in Int : n = m1 + x /\ -60 <= x /\ x < 306
  <2>1. n - m1 \in Int /\ n = m1 + (n - m1) /\ -60 <= n - m1 /\ n - m1 < 306
    BY SMT, <1>0, <1>1
  <2> QED BY SMT, <2>1
<1> HIDE <1>0
<1> DEFINE Bastano(f1, f2, f3) ==
             \A v \in Nat : n <= v /\ v <= n + 7 /\ EFestivo(v) => v = f1 \/ v = f2 \/ v = f3
<1>5. CASE x < 14
  <2>1. ASSUME NEW v \in Nat, n <= v, v <= n + 7, EFestivo(v)
        PROVE  v = m0 + 306 \/ v = m0 + 311 \/ v = m0
    <3>1. \/ v < m1 + 306 /\ Festivo(v, m0, m1, e1)
          \/ m1 + 306 <= v /\ Festivo(v, m1, m2, e2)
      BY <1>3, <2>1
    <3>2. CASE v < m1 + 306 /\ Festivo(v, m0, m1, e1)
      BY SMT, <1>1, <1>2, <1>4, <1>5, <2>1, <3>2 DEF Festivo
    <3>3. CASE m1 + 306 <= v /\ Festivo(v, m1, m2, e2)
      BY SMT, <1>1, <1>2, <1>4, <1>5, <2>1, <3>3 DEF Festivo
    <3> QED BY <3>1, <3>2, <3>3
  <2>2. Bastano(m0 + 306, m0 + 311, m0)
    BY <2>1
  <2>3. m0 + 306 \in Int /\ m0 + 311 \in Int /\ m0 \in Int
    BY SMT, <1>1, <1>2
  <2> HIDE DEF Bastano
  <2>4. \E f1, f2, f3 \in Int : Bastano(f1, f2, f3)
    BY Zenon, <2>2, <2>3
  <2> QED BY <2>4 DEF Bastano
<1>6. CASE 14 <= x /\ x < 49
  <2>1. ASSUME NEW v \in Nat, n <= v, v <= n + 7, EFestivo(v)
        PROVE  v = e1 + 1 \/ v = m1 + 55 \/ v = m1
    <3>1. \/ v < m1 + 306 /\ Festivo(v, m0, m1, e1)
          \/ m1 + 306 <= v /\ Festivo(v, m1, m2, e2)
      BY <1>3, <2>1
    <3>2. CASE v < m1 + 306 /\ Festivo(v, m0, m1, e1)
      BY SMT, <1>1, <1>2, <1>4, <1>6, <2>1, <3>2 DEF Festivo
    <3>3. CASE m1 + 306 <= v /\ Festivo(v, m1, m2, e2)
      BY SMT, <1>1, <1>2, <1>4, <1>6, <2>1, <3>3 DEF Festivo
    <3> QED BY <3>1, <3>2, <3>3
  <2>2. Bastano(e1 + 1, m1 + 55, m1)
    BY <2>1
  <2>3. e1 + 1 \in Int /\ m1 + 55 \in Int /\ m1 \in Int
    BY SMT, <1>1, <1>2
  <2> HIDE DEF Bastano
  <2>4. \E f1, f2, f3 \in Int : Bastano(f1, f2, f3)
    BY Zenon, <2>2, <2>3
  <2> QED BY <2>4 DEF Bastano
<1>7. CASE 49 <= x /\ x < 62
  <2>1. ASSUME NEW v \in Nat, n <= v, v <= n + 7, EFestivo(v)
        PROVE  v = e1 + 1 \/ v = m1 + 55 \/ v = m1 + 61
    <3>1. \/ v < m1 + 306 /\ Festivo(v, m0, m1, e1)
          \/ m1 + 306 <= v /\ Festivo(v, m1, m2, e2)
      BY <1>3, <2>1
    <3>2. CASE v < m1 + 306 /\ Festivo(v, m0, m1, e1)
      BY SMT, <1>1, <1>2, <1>4, <1>7, <2>1, <3>2 DEF Festivo
    <3>3. CASE m1 + 306 <= v /\ Festivo(v, m1, m2, e2)
      BY SMT, <1>1, <1>2, <1>4, <1>7, <2>1, <3>3 DEF Festivo
    <3> QED BY <3>1, <3>2, <3>3
  <2>2. Bastano(e1 + 1, m1 + 55, m1 + 61)
    BY <2>1
  <2>3. e1 + 1 \in Int /\ m1 + 55 \in Int /\ m1 + 61 \in Int
    BY SMT, <1>1, <1>2
  <2> HIDE DEF Bastano
  <2>4. \E f1, f2, f3 \in Int : Bastano(f1, f2, f3)
    BY Zenon, <2>2, <2>3
  <2> QED BY <2>4 DEF Bastano
<1>8. CASE 62 <= x /\ x < 160
  <2>1. Bastano(m1 + 93, m1, m1)
    BY SMT, <1>1, <1>2, <1>3, <1>4, <1>8 DEF Festivo
  <2> QED BY SMT, <1>1, <2>1
<1>9. CASE 160 <= x /\ x < 235
  <2>1. Bastano(m1 + 167, m1, m1)
    BY SMT, <1>1, <1>2, <1>3, <1>4, <1>9 DEF Festivo
  <2> QED BY SMT, <1>1, <2>1
<1>10. CASE 235 <= x /\ x < 275
  <2>1. Bastano(m1 + 245, m1, m1)
    BY SMT, <1>1, <1>2, <1>3, <1>4, <1>10 DEF Festivo
  <2> QED BY SMT, <1>1, <2>1
<1>11. CASE 275 <= x /\ x < 292
  <2>1. Bastano(m1 + 282, m1, m1)
    BY SMT, <1>1, <1>2, <1>3, <1>4, <1>11 DEF Festivo
  <2> QED BY SMT, <1>1, <2>1
<1>12. CASE 292 <= x /\ x < 300
  <2>1. ASSUME NEW v \in Nat, n <= v, v <= n + 7, EFestivo(v)
        PROVE  v = m1 + 299 \/ v = m1 + 300 \/ v = m1 + 306
    <3>1. \/ v < m1 + 306 /\ Festivo(v, m0, m1, e1)
          \/ m1 + 306 <= v /\ Festivo(v, m1, m2, e2)
      BY <1>3, <2>1
    <3>2. CASE v < m1 + 306 /\ Festivo(v, m0, m1, e1)
      BY SMT, <1>1, <1>2, <1>4, <1>12, <2>1, <3>2 DEF Festivo
    <3>3. CASE m1 + 306 <= v /\ Festivo(v, m1, m2, e2)
      BY SMT, <1>1, <1>2, <1>4, <1>12, <2>1, <3>3 DEF Festivo
    <3> QED BY <3>1, <3>2, <3>3
  <2>2. Bastano(m1 + 299, m1 + 300, m1 + 306)
    BY <2>1
  <2>3. m1 + 299 \in Int /\ m1 + 300 \in Int /\ m1 + 306 \in Int
    BY SMT, <1>1, <1>2
  <2> HIDE DEF Bastano
  <2>4. \E f1, f2, f3 \in Int : Bastano(f1, f2, f3)
    BY Zenon, <2>2, <2>3
  <2> QED BY <2>4 DEF Bastano
<1>13. CASE 300 <= x
  <2>1. ASSUME NEW v \in Nat, n <= v, v <= n + 7, EFestivo(v)
        PROVE  v = m1 + 300 \/ v = m1 + 306 \/ v = m1 + 311
    <3>1. \/ v < m1 + 306 /\ Festivo(v, m0, m1, e1)
          \/ m1 + 306 <= v /\ Festivo(v, m1, m2, e2)
      BY <1>3, <2>1
    <3>2. CASE v < m1 + 306 /\ Festivo(v, m0, m1, e1)
      BY SMT, <1>1, <1>2, <1>4, <1>13, <2>1, <3>2 DEF Festivo
    <3>3. CASE m1 + 306 <= v /\ Festivo(v, m1, m2, e2)
      BY SMT, <1>1, <1>2, <1>4, <1>13, <2>1, <3>3 DEF Festivo
    <3> QED BY <3>1, <3>2, <3>3
  <2>2. Bastano(m1 + 300, m1 + 306, m1 + 311)
    BY <2>1
  <2>3. m1 + 300 \in Int /\ m1 + 306 \in Int /\ m1 + 311 \in Int
    BY SMT, <1>1, <1>2
  <2> HIDE DEF Bastano
  <2>4. \E f1, f2, f3 \in Int : Bastano(f1, f2, f3)
    BY Zenon, <2>2, <2>3
  <2> QED BY <2>4 DEF Bastano
<1>14. \/ x < 14 \/ (14 <= x /\ x < 49) \/ (49 <= x /\ x < 62) \/ (62 <= x /\ x < 160) \/ (160 <= x /\ x < 235)
       \/ (235 <= x /\ x < 275) \/ (275 <= x /\ x < 292) \/ (292 <= x /\ x < 300) \/ 300 <= x
  BY SMT
<1> QED BY <1>5, <1>6, <1>7, <1>8, <1>9, <1>10, <1>11, <1>12, <1>13, <1>14

\* Eight days have five that are neither Saturday nor Sunday, and so four.
LEMMA QuattroFeriali ==
  ASSUME NEW n \in Nat
  PROVE  \E k1, k2, k3, k4 \in Nat :
           /\ k1 < k2 /\ k2 < k3 /\ k3 < k4 /\ k4 < 8
           /\ GiornoSettimana(n + k1) < 5 /\ GiornoSettimana(n + k2) < 5
           /\ GiornoSettimana(n + k3) < 5 /\ GiornoSettimana(n + k4) < 5
<1>1. PICK q \in Nat, w \in Nat : n + 3 = 7 * q + w /\ w < 7
  <2>1. (n + 3) \div 7 \in Nat /\ (n + 3) % 7 \in Nat /\ n + 3 = 7 * ((n + 3) \div 7) + ((n + 3) % 7) /\ (n + 3) % 7 < 7
    BY SMT
  <2> QED BY SMT, <2>1
<1>2. ASSUME NEW k \in Nat, k < 8
      PROVE  GiornoSettimana(n + k) = IF w + k < 7 THEN w + k ELSE IF w + k < 14 THEN w + k - 7 ELSE w + k - 14
  BY SMT, <1>1, <1>2 DEF GiornoSettimana
<1> DEFINE Feriale(k) == GiornoSettimana(n + k) < 5
<1>3. CASE w = 0 \/ w = 1
  <2>1. Feriale(0) /\ Feriale(1) /\ Feriale(2) /\ Feriale(3)
    BY SMT, <1>2, <1>3
  <2> QED BY SMT, <2>1
<1>4. CASE w = 2
  <2>1. Feriale(0) /\ Feriale(1) /\ Feriale(2) /\ Feriale(5)
    BY SMT, <1>2, <1>4
  <2> QED BY SMT, <2>1
<1>5. CASE w = 3
  <2>1. Feriale(0) /\ Feriale(1) /\ Feriale(4) /\ Feriale(5)
    BY SMT, <1>2, <1>5
  <2> QED BY SMT, <2>1
<1>6. CASE w = 4
  <2>1. Feriale(0) /\ Feriale(3) /\ Feriale(4) /\ Feriale(5)
    BY SMT, <1>2, <1>6
  <2> QED BY SMT, <2>1
<1>7. CASE w = 5
  <2>1. Feriale(2) /\ Feriale(3) /\ Feriale(4) /\ Feriale(5)
    BY SMT, <1>2, <1>7
  <2> QED BY SMT, <2>1
<1>8. CASE w = 6
  <2>1. Feriale(1) /\ Feriale(2) /\ Feriale(3) /\ Feriale(4)
    BY SMT, <1>2, <1>8
  <2> QED BY SMT, <2>1
<1> QED BY SMT, <1>1, <1>3, <1>4, <1>5, <1>6, <1>7, <1>8

\* So there is a working day in every eight.
LEMMA UtileVicino ==
  ASSUME NEW n \in Nat
  PROVE  \E k \in 0 .. 7 : EGiornoUtile(n + k)
<1>1. PICK f1 \in Int, f2 \in Int, f3 \in Int :
        \A v \in Nat : n <= v /\ v <= n + 7 /\ EFestivo(v) => v = f1 \/ v = f2 \/ v = f3
  BY TreFestivi
<1>2. PICK k1 \in Nat, k2 \in Nat, k3 \in Nat, k4 \in Nat :
        /\ k1 < k2 /\ k2 < k3 /\ k3 < k4 /\ k4 < 8
        /\ GiornoSettimana(n + k1) < 5 /\ GiornoSettimana(n + k2) < 5
        /\ GiornoSettimana(n + k3) < 5 /\ GiornoSettimana(n + k4) < 5
  BY QuattroFeriali
<1>3. ASSUME NEW k \in Nat, k < 8, GiornoSettimana(n + k) < 5, ~EGiornoUtile(n + k)
      PROVE  n + k = f1 \/ n + k = f2 \/ n + k = f3
  <2>1. EFestivo(n + k)
    BY <1>3 DEF EGiornoUtile
  <2>2. n + k \in Nat /\ n <= n + k /\ n + k <= n + 7
    BY SMT, <1>3
  <2> QED BY <1>1, <2>1, <2>2
<1>4. SUFFICES ASSUME \A k \in 0 .. 7 : ~EGiornoUtile(n + k) PROVE FALSE
  OBVIOUS
<1>5. /\ n + k1 = f1 \/ n + k1 = f2 \/ n + k1 = f3
      /\ n + k2 = f1 \/ n + k2 = f2 \/ n + k2 = f3
      /\ n + k3 = f1 \/ n + k3 = f2 \/ n + k3 = f3
      /\ n + k4 = f1 \/ n + k4 = f2 \/ n + k4 = f3
  BY SMT, <1>2, <1>3, <1>4
<1> QED BY SMT, <1>2, <1>5

\* The day a reminder moves to is the first working day, at most a week away.
LEMMA PrimoUtileGiusto ==
  ASSUME NEW n \in Nat
  PROVE  /\ PrimoUtile(n) \in Nat /\ n <= PrimoUtile(n) /\ PrimoUtile(n) <= n + 7
         /\ EGiornoUtile(PrimoUtile(n))
         /\ \A v \in Nat : n <= v /\ v < PrimoUtile(n) => ~EGiornoUtile(v)
<1> DEFINE Utile(k) == EGiornoUtile(n + k)
           Giorni9 == n .. n + 9
           Ottimo(u) == EGiornoUtile(u) /\ \A v \in n .. u - 1 : ~EGiornoUtile(v)
<1>1. \E k \in 0 .. 7 : Utile(k)
  BY UtileVicino
<1>2. \E k \in 0 .. 7 : Utile(k) /\ \A j \in 0 .. 7 : j < k => ~Utile(j)
  <2> HIDE DEF Utile
  <2>1. Utile(0) \/ Utile(1) \/ Utile(2) \/ Utile(3) \/ Utile(4) \/ Utile(5) \/ Utile(6) \/ Utile(7)
    BY <1>1
  <2> QED BY <2>1
<1>3. PICK k \in 0 .. 7 : Utile(k) /\ \A j \in 0 .. 7 : j < k => ~Utile(j)
  BY <1>2
<1>4. ASSUME NEW v \in Int, n <= v, v < n + k PROVE ~EGiornoUtile(v)
  <2>1. v - n \in 0 .. 7 /\ v - n < k /\ n + (v - n) = v
    BY SMT, <1>4
  <2>2. ~Utile(v - n)
    BY <1>3, <2>1
  <2> QED BY SMT, <2>1, <2>2
<1>5. n + k \in Giorni9 /\ Ottimo(n + k)
  BY SMT, <1>3, <1>4
<1>6. PrimoUtile(n) = CHOOSE u \in Giorni9 : Ottimo(u)
  BY SMT DEF PrimoUtile
<1>7. PrimoUtile(n) \in Giorni9 /\ Ottimo(PrimoUtile(n))
  <2> HIDE DEF Giorni9, Ottimo
  <2> QED BY Zenon, <1>5, <1>6
<1>8. PrimoUtile(n) \in Nat /\ n <= PrimoUtile(n) /\ EGiornoUtile(PrimoUtile(n))
  BY SMT, <1>7
<1>9. PrimoUtile(n) <= n + k
  <2>1. SUFFICES ASSUME n + k < PrimoUtile(n) PROVE FALSE
    BY SMT, <1>8
  <2>2. n + k \in n .. PrimoUtile(n) - 1
    BY SMT, <1>8, <2>1
  <2> QED BY <1>3, <1>7, <2>2
<1>10. \A v \in Nat : n <= v /\ v < PrimoUtile(n) => ~EGiornoUtile(v)
  BY SMT, <1>7, <1>8
<1> QED BY SMT, <1>8, <1>9, <1>10

\* Nothing else is the first working day.
LEMMA PrimoUtileUnico ==
  ASSUME NEW n \in Nat, NEW u \in Nat, n <= u, EGiornoUtile(u),
         \A v \in Nat : n <= v /\ v < u => ~EGiornoUtile(v)
  PROVE  PrimoUtile(n) = u
<1>1. /\ PrimoUtile(n) \in Nat /\ n <= PrimoUtile(n) /\ EGiornoUtile(PrimoUtile(n))
      /\ \A v \in Nat : n <= v /\ v < PrimoUtile(n) => ~EGiornoUtile(v)
  BY PrimoUtileGiusto
<1> QED BY SMT, <1>1

(***************************************************************************)
(* The clock of Rome.                                                      *)
(***************************************************************************)
\* From 01:00 UTC on, day g is in summer time.
Legale(g) ==
  /\ UltimaDomenica(Anno(g), 3) <= g
  /\ g < UltimaDomenica(Anno(g), 10)

\* The days on which summer time begins and ends are days.
LEMMA UltimaDomenicaIntera ==
  ASSUME NEW a \in Nat
  PROVE  UltimaDomenica(a, 3) \in Int /\ UltimaDomenica(a, 10) \in Int
<1>1. Ordinale(a, 3, 31) = Ordinale(a, 3, 1) + 31 - 1 /\ Ordinale(a, 10, 31) = Ordinale(a, 3, 1) + 31 + 213 /\ Ordinale(a, 3, 1) \in Int
  BY SMT, Date
<1>2. Ordinale(a, 3, 31) \in Int /\ Ordinale(a, 10, 31) \in Int
  BY SMT, <1>1
<1> QED BY SMT, <1>2 DEF UltimaDomenica, GiornoSettimana

\* From 01:00 UTC on, a day has one difference from Rome.
LEMMA DalleUna ==
  ASSUME NEW t \in Nat, NEW g \in Nat, 1440 * g + 60 <= t, t < 1440 * g + 1440
  PROVE  Locale(t) = t + (IF Legale(g) THEN 120 ELSE 60)
<1>1. t \div 1440 = g
  BY SMT
<1>2. PICK u3 \in Int, u10 \in Int : u3 = UltimaDomenica(Anno(g), 3) /\ u10 = UltimaDomenica(Anno(g), 10)
  BY SMT, AnnoGiusto, UltimaDomenicaIntera
<1>3. OraLegale(t) <=> 1440 * u3 + 60 <= t /\ t < 1440 * u10 + 60
  BY SMT, <1>1, <1>2 DEF OraLegale
<1>4. OraLegale(t) <=> u3 <= g /\ g < u10
  BY SMT, <1>3
<1>5. OraLegale(t) <=> Legale(g)
  BY SMT, <1>2, <1>4 DEF Legale
<1> QED BY SMT, <1>5 DEF Locale

\* Local time is one or two hours ahead.
LEMMA LocaleAvanti ==
  ASSUME NEW t \in Nat
  PROVE  Locale(t) \in Nat /\ t + 60 <= Locale(t) /\ Locale(t) <= t + 120
BY SMT DEF Locale

\* From 03:00 to midnight, and at midnight, a local hour is that of one instant.
OraUnivoca(n, ora) == (n > 0 /\ ora = 0) \/ (180 <= ora /\ ora < 1440)

\* At these hours the time of Rome names an instant.
LEMMA IstanteGiusto ==
  ASSUME NEW n \in Nat, NEW ora \in Nat, OraUnivoca(n, ora)
  PROVE  /\ IstanteInvio(n, ora) \in Nat /\ Locale(IstanteInvio(n, ora)) = 1440 * n + ora
         /\ 1440 * n + ora - 120 <= IstanteInvio(n, ora) /\ IstanteInvio(n, ora) <= 1440 * n + ora - 60
<1>1. PICK g \in Nat, t \in Nat, r \in Nat :
        /\ 1440 * n + ora = t + 120 /\ r = t + 60
        /\ 1440 * g + 60 <= t /\ r < 1440 * g + 1440
  <2>1. PICK t \in Nat, r \in Nat : 1440 * n + ora = t + 120 /\ r = t + 60
    <3>1. 1440 * n + ora - 120 \in Nat /\ 1440 * n + ora - 60 \in Nat
      BY SMT DEF OraUnivoca
    <3> QED BY SMT, <3>1
  <2>2. CASE n > 0 /\ ora = 0
    <3>1. PICK h \in Nat : h + 1 = n
      <4>1. n - 1 \in Nat /\ (n - 1) + 1 = n
        BY SMT, <2>2
      <4> QED BY SMT, <4>1
    <3>2. 1440 * h + 60 <= t /\ r < 1440 * h + 1440
      BY SMT, <2>1, <2>2, <3>1
    <3> QED BY SMT, <2>1, <3>2
  <2>3. CASE 180 <= ora /\ ora < 1440
    <3>1. 1440 * n + 60 <= t /\ r < 1440 * n + 1440
      BY SMT, <2>1, <2>3
    <3> QED BY SMT, <2>1, <3>1
  <2> QED BY <2>2, <2>3 DEF OraUnivoca
<1>2. /\ Locale(t) = t + (IF Legale(g) THEN 120 ELSE 60)
      /\ Locale(r) = r + (IF Legale(g) THEN 120 ELSE 60)
  <2>1. t < 1440 * g + 1440 /\ 1440 * g + 60 <= r
    BY SMT, <1>1
  <2> QED BY SMT, <1>1, <2>1, DalleUna
<1> DEFINE Scelte == {1440 * n + ora - 60, 1440 * n + ora - 120}
           Giusto(u) == Locale(u) = 1440 * n + ora
<1>3. \E u \in Scelte : Giusto(u)
  <2>1. CASE Legale(g)
    <3>1. 1440 * n + ora - 120 = t
      BY SMT, <1>1
    <3>2. Giusto(1440 * n + ora - 120)
      BY SMT, <1>1, <1>2, <2>1, <3>1
    <3> QED BY <3>2
  <2>2. CASE ~Legale(g)
    <3>1. 1440 * n + ora - 60 = r
      BY SMT, <1>1
    <3>2. Giusto(1440 * n + ora - 60)
      BY SMT, <1>1, <1>2, <2>2, <3>1
    <3> QED BY <3>2
  <2> QED BY <2>1, <2>2
<1>4. IstanteInvio(n, ora) = CHOOSE u \in Scelte : Giusto(u)
  BY SMT DEF IstanteInvio
<1>5. IstanteInvio(n, ora) \in Scelte /\ Giusto(IstanteInvio(n, ora))
  <2> HIDE DEF Scelte, Giusto
  <2> QED BY SMT, <1>3, <1>4
<1> QED BY SMT, <1>1, <1>5

(***************************************************************************)
(* The window.                                                             *)
(***************************************************************************)
\* An instant that Rome reads as minute m of day g.
Letto(t, g, m) == t \in Nat /\ g \in Nat /\ m \in Nat /\ m < 1440 /\ Locale(t) = 1440 * g + m

\* Its day and its minute are what Finestra computes.
LEMMA Lettura ==
  ASSUME NEW t, NEW g, NEW m, Letto(t, g, m)
  PROVE  Locale(t) \div 1440 = g /\ Locale(t) % 1440 = m
BY SMT DEF Letto

\* Every instant has a day and a minute in Rome.
LEMMA OgniIstanteLetto ==
  ASSUME NEW t \in Nat
  PROVE  \E g, m \in Nat : Letto(t, g, m)
<1>1. PICK l \in Nat : l = Locale(t)
  BY SMT, LocaleAvanti
<1>2. l \div 1440 \in Nat /\ l % 1440 \in Nat /\ l % 1440 < 1440 /\ l = 1440 * (l \div 1440) + (l % 1440)
  BY SMT
<1>3. Letto(t, l \div 1440, l % 1440)
  BY SMT, <1>1, <1>2 DEF Letto
<1> QED BY <1>2, <1>3

\* What is on a working day and not late stays where it is.
LEMMA FinestraFerma ==
  ASSUME NEW t, NEW g, NEW m, Letto(t, g, m), m <= ORA_LIMITE, EGiornoUtile(g)
  PROVE  Finestra(t) = t
<1>1. g \in Nat /\ m \in Nat
  BY DEF Letto
<1>2. PrimoUtile(g) = g
  BY SMT, <1>1, PrimoUtileUnico
<1>3. ~(m > ORA_LIMITE) /\ g + 0 = g
  BY SMT, <1>1 DEF ORA_LIMITE
<1> QED BY SMT, <1>2, <1>3, Lettura DEF Finestra

\* What is not goes to the sending hour of the first working day.
LEMMA FinestraMossa ==
  ASSUME NEW t, NEW g, NEW m, Letto(t, g, m), NEW p \in Nat,
         IF m > ORA_LIMITE THEN p = g + 1 ELSE p = g /\ ~EGiornoUtile(g)
  PROVE  Finestra(t) = IstanteInvio(PrimoUtile(p), ORA_INVIO)
<1>1. g \in Nat /\ m \in Nat
  BY DEF Letto
<1>2. Locale(t) \div 1440 = g /\ Locale(t) % 1440 = m
  BY Lettura
<1>3. CASE m > ORA_LIMITE
  <2>1. p = g + 1
    BY <1>3
  <2> QED BY SMT, <1>2, <1>3, <2>1 DEF Finestra
<1>4. CASE ~(m > ORA_LIMITE)
  <2>1. p = g /\ ~EGiornoUtile(g) /\ g + 0 = g
    BY SMT, <1>1, <1>4
  <2>2. PrimoUtile(g) # g
    BY <1>1, <2>1, PrimoUtileGiusto
  <2> QED BY SMT, <1>2, <1>4, <2>1, <2>2 DEF Finestra
<1> QED BY <1>3, <1>4

\* The sending hour of a day.
LEMMA AlleDieci ==
  ASSUME NEW u \in Nat
  PROVE  /\ Letto(IstanteInvio(u, ORA_INVIO), u, ORA_INVIO)
         /\ 1440 * u + 480 <= IstanteInvio(u, ORA_INVIO)
         /\ IstanteInvio(u, ORA_INVIO) <= 1440 * u + 540
<1>1. PICK o \in Nat : o = ORA_INVIO /\ o = 600
  BY SMT DEF ORA_INVIO
<1>2. /\ IstanteInvio(u, o) \in Nat /\ Locale(IstanteInvio(u, o)) = 1440 * u + o
      /\ 1440 * u + o - 120 <= IstanteInvio(u, o) /\ IstanteInvio(u, o) <= 1440 * u + o - 60
  <2>1. OraUnivoca(u, o)
    BY SMT, <1>1 DEF OraUnivoca
  <2> QED BY <2>1, IstanteGiusto
<1> QED BY SMT, <1>1, <1>2 DEF Letto

\* What FinestraUtile says, of every instant.
LEMMA FinestraPerOgniIstante ==
  ASSUME NEW t \in Nat
  PROVE  LET dopo == Finestra(t)
         IN  /\ Dentro(dopo) /\ t <= dopo
             /\ Dentro(t) => dopo = t
             /\ dopo # t =>
                  /\ Locale(dopo) % 1440 = ORA_INVIO
                  /\ \A h \in Locale(t) \div 1440 .. (Locale(dopo) \div 1440) - 1 :
                       ~EGiornoUtile(h) \/ (h = Locale(t) \div 1440 /\ ~Dentro(t))
<1>1. PICK g \in Nat, m \in Nat : Letto(t, g, m)
  BY OgniIstanteLetto
<1>2. Locale(t) \div 1440 = g /\ Locale(t) % 1440 = m
  BY <1>1, Lettura
<1>3. Dentro(t) <=> EGiornoUtile(g) /\ m <= ORA_LIMITE
  BY <1>2 DEF Dentro
<1>4. CASE Dentro(t)
  <2>1. Finestra(t) = t
    BY <1>1, <1>3, <1>4, FinestraFerma
  <2> QED BY SMT, <1>4, <2>1
<1>5. CASE ~Dentro(t)
  <2>1. PICK p \in Nat : /\ p = (IF m > ORA_LIMITE THEN g + 1 ELSE g)
                         /\ m <= ORA_LIMITE => ~EGiornoUtile(g)
    BY SMT, <1>3, <1>5 DEF ORA_LIMITE
  <2>2. PICK u \in Nat : /\ u = PrimoUtile(p) /\ p <= u /\ EGiornoUtile(u)
                         /\ \A v \in Nat : p <= v /\ v < u => ~EGiornoUtile(v)
    BY PrimoUtileGiusto
  <2>3. PICK d : d = Finestra(t) /\ d = IstanteInvio(u, ORA_INVIO)
    <3>1. IF m > ORA_LIMITE THEN p = g + 1 ELSE p = g /\ ~EGiornoUtile(g)
      BY SMT, <2>1 DEF ORA_LIMITE
    <3> QED BY <1>1, <2>2, <3>1, FinestraMossa
  <2>4. Letto(d, u, ORA_INVIO) /\ 1440 * u + 480 <= d
    BY <2>3, AlleDieci
  <2>5. Locale(d) \div 1440 = u /\ Locale(d) % 1440 = ORA_INVIO
    BY <2>4, Lettura
  <2>6. Dentro(d)
    BY SMT, <2>2, <2>5 DEF Dentro, ORA_INVIO, ORA_LIMITE
  <2>7. g < u
    <3>1. CASE m > ORA_LIMITE
      BY SMT, <2>1, <2>2, <3>1
    <3>2. CASE ~(m > ORA_LIMITE)
      <4>1. p = g /\ ~EGiornoUtile(g)
        BY SMT, <2>1, <3>2 DEF ORA_LIMITE
      <4> QED BY SMT, <2>2, <4>1
    <3> QED BY <3>1, <3>2
  <2>8. t <= d
    <3>1. Locale(t) = 1440 * g + m /\ m < 1440 /\ t <= Locale(t)
      BY SMT, <1>1, LocaleAvanti DEF Letto
    <3>2. d \in Nat
      BY <2>4 DEF Letto
    <3> QED BY SMT, <2>4, <2>7, <3>1, <3>2
  <2>9. ASSUME NEW h \in g .. u - 1 PROVE ~EGiornoUtile(h) \/ h = g
    <3>1. h \in Nat /\ g <= h /\ h < u
      BY SMT
    <3>2. CASE p <= h
      BY <2>2, <3>1, <3>2
    <3>3. CASE ~(p <= h)
      BY SMT, <2>1, <3>1, <3>3
    <3> QED BY <3>2, <3>3
  <2> HIDE DEF Dentro
  <2> QED BY <1>2, <1>5, <2>3, <2>5, <2>6, <2>8, <2>9
<1> QED BY <1>4, <1>5

-----------------------------------------------------------------------------
\* Days are counted from the first of 1970, and those looked at come after it.
GiornoVero == giorno \in Nat /\ giorno > 0

\* The day looked at is always one of them.
LEMMA GiorniVeri == GiorniSpec => []GiornoVero
<1>1. GiorniInit => GiornoVero
  <2> SUFFICES ASSUME GiorniInit PROVE GiornoVero
    OBVIOUS
  <2>1. PICK a \in Anni : giorno = Ordinale(a, 1, 1)
    BY DEF GiorniInit
  <2>2. PICK p \in Nat : p + 1 = a /\ p >= 1970
    <3>1. a - 1 \in Nat /\ (a - 1) + 1 = a /\ a - 1 >= 1970
      BY SMT, AnniAssumption
    <3> QED BY SMT, <3>1
  <2>3. Ordinale(a, 1, 1) = Ordinale(p + 1, 1, 1)
    BY <2>2
  <2>4. Ordinale(p + 1, 1, 1) = Ordinale(p, 3, 1) + 1 + 305 /\ Ordinale(p, 3, 1) = Passati(p) - 719468
    BY SMT, Date
  <2>5. PICK q \in Nat : q = 1970
    BY SMT
  <2>6. Passati(q) = 719527
    BY SMT, <2>5 DEF Passati
  <2>7. Passati(p) \in Nat /\ Passati(q) + 365 * (p - q) <= Passati(p)
    <3>1. p \in Nat /\ q \in Nat /\ q <= p
      BY SMT, <2>2, <2>5
    <3> QED BY <3>1, PassatiCresce
  <2> QED BY SMT, <2>1, <2>2, <2>3, <2>4, <2>5, <2>6, <2>7 DEF GiornoVero
<1>2. GiornoVero /\ [GiornoDopo]_giorno => GiornoVero'
  BY SMT DEF GiornoVero, GiornoDopo
<1> QED BY PTL, <1>1, <1>2 DEF GiorniSpec

\* The window, on every day after 1970: domain/calendario.py, applica_finestra.
THEOREM FinestraSempreUtile == GiorniSpec => []FinestraUtile
<1>1. GiornoVero => FinestraUtile
  <2> SUFFICES ASSUME GiornoVero PROVE FinestraUtile
    OBVIOUS
  <2>1. ASSUME NEW minuto \in Minuti PROVE 1440 * giorno + minuto \in Nat
    BY SMT DEF Minuti, GiornoVero
  <2> QED BY <2>1, FinestraPerOgniIstante DEF FinestraUtile
<1> QED BY PTL, <1>1, GiorniVeri

(***************************************************************************)
(* The calendar of Dominio.                                                *)
(***************************************************************************)
\* On the days without sending of ten days, Dominio finds the same first working
\* day, from the first of them or from the second.
SenzaInvio(n) == {g \in n .. n + 9 : ~EGiornoUtile(g)}

LEMMA StessoPrimo ==
  ASSUME NEW n \in Nat, NEW p \in Nat, p = n \/ p = n + 1
  PROVE  Dominio!ProssimoGiornoUtile(p, SenzaInvio(n)) = PrimoUtile(p)
<1>0. PICK festivi : festivi = SenzaInvio(n)
  OBVIOUS
<1> DEFINE Giorni8 == p .. p + Dominio!MaxFestiviConsecutivi
           Suo(g) == g \notin festivi /\ \A h \in p .. g - 1 : h \in festivi
<1>1. Dominio!MaxFestiviConsecutivi = 7
  BY DEF Dominio!MaxFestiviConsecutivi
<1>2. ASSUME NEW g \in Nat, p <= g, g <= p + 8 PROVE g \in festivi <=> ~EGiornoUtile(g)
  BY SMT, <1>0, <1>2 DEF SenzaInvio
<1>3. PICK u \in Nat : /\ u = PrimoUtile(p) /\ p <= u /\ u <= p + 7 /\ EGiornoUtile(u)
                       /\ \A v \in Nat : p <= v /\ v < u => ~EGiornoUtile(v)
  BY PrimoUtileGiusto
<1>4. u \in Giorni8 /\ Suo(u)
  <2>1. u \in Giorni8
    BY SMT, <1>1, <1>3
  <2>2. u \notin festivi
    BY SMT, <1>2, <1>3
  <2>3. ASSUME NEW h \in p .. u - 1 PROVE h \in festivi
    <3>1. h \in Nat /\ p <= h /\ h < u /\ h <= p + 8
      BY SMT, <1>3
    <3> QED BY <1>2, <1>3, <3>1
  <2> QED BY <2>1, <2>2, <2>3
<1>5. Dominio!ProssimoGiornoUtile(p, festivi) = CHOOSE g \in Giorni8 : Suo(g)
  BY DEF Dominio!ProssimoGiornoUtile
<1>6. PICK d : d = Dominio!ProssimoGiornoUtile(p, festivi) /\ d \in Giorni8 /\ Suo(d)
  <2> HIDE DEF Giorni8, Suo
  <2> QED BY <1>4, <1>5
<1>7. d \in Nat /\ p <= d /\ d <= p + 7 /\ d \notin festivi
  BY SMT, <1>1, <1>6
<1>8. EGiornoUtile(d)
  BY SMT, <1>2, <1>7
<1>9. ~(d < u)
  BY <1>3, <1>7, <1>8
<1>10. ~(u < d)
  <2>1. SUFFICES ASSUME u < d PROVE FALSE
    OBVIOUS
  <2>2. u \in p .. d - 1
    BY SMT, <1>3, <1>7, <2>1
  <2>3. u \in festivi
    BY <1>6, <2>2
  <2> QED BY <1>4, <2>3
<1> QED BY SMT, <1>0, <1>3, <1>6, <1>7, <1>9, <1>10

\* The window on a whole local hour, read in Rome.
LEMMA FinestraLocale ==
  ASSUME NEW n \in Nat, n > 0, NEW ora \in Nat, ora = 0 \/ (3 <= ora /\ ora < 24),
         NEW p \in Nat, p = IF ora > 18 THEN n + 1 ELSE n
  PROVE  Locale(Finestra(IstanteInvio(n, 60 * ora))) =
           IF ora > 18 \/ PrimoUtile(p) # n THEN 1440 * PrimoUtile(p) + 600 ELSE 1440 * n + 60 * ora
<1>1. PICK m \in Nat : m = 60 * ora /\ m < 1440 /\ (m > 1080 <=> ora > 18)
  BY SMT
<1>2. PICK t \in Nat : t = IstanteInvio(n, m) /\ Locale(t) = 1440 * n + m
  <2>1. OraUnivoca(n, m)
    BY SMT, <1>1 DEF OraUnivoca
  <2>2. IstanteInvio(n, m) \in Nat /\ Locale(IstanteInvio(n, m)) = 1440 * n + m
    BY <1>1, <2>1, IstanteGiusto
  <2> QED BY <2>2
<1>3. Letto(t, n, m)
  BY SMT, <1>1, <1>2 DEF Letto
<1>4. ORA_LIMITE = 1080 /\ ORA_INVIO = 600
  BY SMT DEF ORA_LIMITE, ORA_INVIO
<1>5. PICK u \in Nat : u = PrimoUtile(p) /\ p <= u /\ EGiornoUtile(u)
  BY PrimoUtileGiusto
<1>6. Locale(IstanteInvio(u, ORA_INVIO)) = 1440 * u + 600
  BY SMT, <1>4, AlleDieci DEF Letto
<1>7. CASE ora > 18 \/ u # n
  <2>1. IF m > ORA_LIMITE THEN p = n + 1 ELSE p = n /\ ~EGiornoUtile(n)
    <3>1. CASE ora > 18
      BY SMT, <1>1, <1>4, <3>1
    <3>2. CASE ~(ora > 18)
      <4>1. p = n /\ u # n
        BY SMT, <1>7, <3>2
      <4>2. ~EGiornoUtile(n)
        BY SMT, <1>5, <4>1, PrimoUtileUnico
      <4> QED BY SMT, <1>1, <1>4, <3>2, <4>1, <4>2
    <3> QED BY <3>1, <3>2
  <2>2. Finestra(t) = IstanteInvio(PrimoUtile(p), ORA_INVIO)
    BY <1>3, <2>1, FinestraMossa
  <2>3. Locale(Finestra(t)) = 1440 * u + 600
    BY <1>5, <1>6, <2>2
  <2> QED BY SMT, <1>1, <1>2, <1>5, <1>7, <2>3
<1>8. CASE ~(ora > 18 \/ u # n)
  <2>1. m <= ORA_LIMITE /\ EGiornoUtile(n)
    BY SMT, <1>1, <1>4, <1>5, <1>8
  <2>2. Finestra(t) = t
    BY <1>3, <2>1, FinestraFerma
  <2> QED BY SMT, <1>1, <1>2, <1>5, <1>8, <2>2
<1> QED BY <1>7, <1>8

\* The same of Dominio.
LEMMA FinestraDiDominio ==
  ASSUME NEW n \in Nat, NEW ora \in Nat, ora < 24,
         NEW p \in Nat, p = IF ora > 18 THEN n + 1 ELSE n
  PROVE  Dominio!ApplicaFinestra(24 * n + ora, SenzaInvio(n)) =
           IF ora > 18 \/ PrimoUtile(p) # n THEN 24 * PrimoUtile(p) + 10 ELSE 24 * n + ora
<1>1. PICK t \in Nat : t = 24 * n + ora
  BY SMT
<1>2. Dominio!Giorno(t) = n /\ Dominio!Ora(t) = ora
  BY SMT, <1>1 DEF Dominio!Giorno, Dominio!Ora
<1>3. Dominio!ORA_LIMITE = 18 /\ Dominio!ORA_INVIO = 10
  BY DEF Dominio!ORA_LIMITE, Dominio!ORA_INVIO
<1>4. PICK u \in Nat : u = PrimoUtile(p)
  BY PrimoUtileGiusto
<1>5. Dominio!ProssimoGiornoUtile(p, SenzaInvio(n)) = u
  BY SMT, <1>4, StessoPrimo
<1>6. CASE ora > 18
  <2>1. n + 1 = p
    BY <1>6
  <2> QED BY SMT, <1>1, <1>2, <1>3, <1>4, <1>5, <1>6, <2>1 DEF Dominio!ApplicaFinestra
<1>7. CASE ~(ora > 18)
  <2>1. n + 0 = p
    BY SMT, <1>7
  <2>2. p = n
    BY SMT, <2>1
  <2>3. Dominio!ApplicaFinestra(t, SenzaInvio(n)) = 24 * u + (IF u # n THEN 10 ELSE ora)
    BY SMT, <1>2, <1>3, <1>5, <1>7, <2>1, <2>2 DEF Dominio!ApplicaFinestra
  <2>4. CASE u # n
    BY SMT, <1>1, <1>4, <2>3, <2>4
  <2>5. CASE u = n
    BY SMT, <1>1, <1>4, <1>7, <2>3, <2>5
  <2> QED BY <2>4, <2>5
<1> QED BY <1>6, <1>7

\* Steps planned for different days stay in order, and those of one day together.
LEMMA OrdineDellaSequenza ==
  ASSUME NEW n \in Nat
  PROVE  Finestra(IstanteInvio(n, ORA_INVIO)) <= Finestra(IstanteInvio(n + 1, ORA_INVIO))
<1>1. ASSUME NEW g \in Nat
      PROVE  Finestra(IstanteInvio(g, ORA_INVIO)) = IstanteInvio(PrimoUtile(g), ORA_INVIO)
  <2>1. Letto(IstanteInvio(g, ORA_INVIO), g, ORA_INVIO)
    BY AlleDieci
  <2>2. ORA_INVIO <= ORA_LIMITE /\ ~(ORA_INVIO > ORA_LIMITE)
    BY SMT DEF ORA_INVIO, ORA_LIMITE
  <2>3. CASE EGiornoUtile(g)
    <3>1. PrimoUtile(g) = g
      BY SMT, <2>3, PrimoUtileUnico
    <3> QED BY <2>1, <2>2, <2>3, <3>1, FinestraFerma
  <2>4. CASE ~EGiornoUtile(g)
    BY <2>1, <2>2, <2>4, FinestraMossa
  <2> QED BY <2>3, <2>4
<1>2. PICK u \in Nat : /\ u = PrimoUtile(n) /\ n <= u
                       /\ \A v \in Nat : n <= v /\ v < u => ~EGiornoUtile(v)
  BY PrimoUtileGiusto
<1>3. PICK z \in Nat : z = PrimoUtile(n + 1) /\ n + 1 <= z /\ EGiornoUtile(z)
  <2>1. n + 1 \in Nat
    BY SMT
  <2> QED BY <2>1, PrimoUtileGiusto
<1>4. u <= z
  BY SMT, <1>2, <1>3
<1>5. PICK x \in Nat, y \in Nat :
        /\ x = IstanteInvio(u, ORA_INVIO) /\ x <= 1440 * u + 540
        /\ y = IstanteInvio(z, ORA_INVIO) /\ 1440 * z + 480 <= y
  <2>1. IstanteInvio(u, ORA_INVIO) \in Nat /\ IstanteInvio(u, ORA_INVIO) <= 1440 * u + 540
    BY AlleDieci DEF Letto
  <2>2. IstanteInvio(z, ORA_INVIO) \in Nat /\ 1440 * z + 480 <= IstanteInvio(z, ORA_INVIO)
    BY AlleDieci DEF Letto
  <2> QED BY <2>1, <2>2
<1>6. x <= y
  <2>1. CASE u = z
    BY SMT, <1>5, <2>1
  <2>2. CASE u # z
    BY SMT, <1>4, <1>5, <2>2
  <2> QED BY <2>1, <2>2
<1>7. n + 1 \in Nat
  BY SMT
<1> QED BY <1>1, <1>2, <1>3, <1>5, <1>6, <1>7

\* Dominio's calendar is the real one, on every day after 1970 (calendario.py,
\* and the planned instants of domain/flussi.py that the other modules compute).
THEOREM CalendarioDiDominioFedele == GiorniSpec => []CalendarioDiDominio
<1>1. GiornoVero => CalendarioDiDominio
  <2> SUFFICES ASSUME GiornoVero PROVE CalendarioDiDominio
    OBVIOUS
  <2>1. PICK n \in Nat : n = giorno /\ n > 0
    BY DEF GiornoVero
  <2>2. \E g \in n .. n + Dominio!MaxFestiviConsecutivi : EGiornoUtile(g)
    <3>1. PrimoUtile(n) \in Nat /\ n <= PrimoUtile(n) /\ PrimoUtile(n) <= n + 7 /\ EGiornoUtile(PrimoUtile(n))
      BY PrimoUtileGiusto
    <3>2. PrimoUtile(n) \in n .. n + Dominio!MaxFestiviConsecutivi
      BY SMT, <3>1 DEF Dominio!MaxFestiviConsecutivi
    <3> QED BY <3>1, <3>2
  <2>3. ASSUME NEW ora \in {0, 9, 10, 18, 19, 23}
        PROVE  Locale(Finestra(IstanteInvio(n, 60 * ora))) = 60 * Dominio!ApplicaFinestra(24 * n + ora, SenzaInvio(n))
    <3>1. ora \in Nat /\ ora < 24 /\ (ora = 0 \/ (3 <= ora /\ ora < 24))
      BY SMT
    <3>2. PICK p \in Nat : p = IF ora > 18 THEN n + 1 ELSE n
      BY SMT, <3>1
    <3>3. PICK u \in Nat : u = PrimoUtile(p)
      BY PrimoUtileGiusto
    <3>4. Locale(Finestra(IstanteInvio(n, 60 * ora))) =
            IF ora > 18 \/ u # n THEN 1440 * u + 600 ELSE 1440 * n + 60 * ora
      BY <2>1, <3>1, <3>2, <3>3, FinestraLocale
    <3>5. Dominio!ApplicaFinestra(24 * n + ora, SenzaInvio(n)) =
            IF ora > 18 \/ u # n THEN 24 * u + 10 ELSE 24 * n + ora
      BY <2>1, <3>1, <3>2, <3>3, FinestraDiDominio
    <3> QED BY SMT, <3>1, <3>4, <3>5
  <2>4. Finestra(IstanteInvio(n, ORA_INVIO)) <= Finestra(IstanteInvio(n + 1, ORA_INVIO))
    BY OrdineDellaSequenza
  <2> QED BY <2>1, <2>2, <2>3, <2>4 DEF CalendarioDiDominio, SenzaInvio
<1> QED BY PTL, <1>1, GiorniVeri

(***************************************************************************)
(* Easter by the tables of the Church.                                     *)
(***************************************************************************)
\* The definitions of PasquaDellaChiesa.
Aureo(a) == (a % 19) + 1
Secolo(a) == (a \div 100) + 1
Epatta(a) ==
  (11 * Aureo(a) + 20 + (((8 * Secolo(a) + 5) \div 25) - 5) - (((3 * Secolo(a)) \div 4) - 12)) % 30
Corretta(a) ==
  IF Epatta(a) = 24 \/ (Epatta(a) = 25 /\ Aureo(a) > 11) THEN Epatta(a) + 1 ELSE Epatta(a)
Plenilunio(a) ==
  Ordinale(a, 3, 1) + (IF 44 - Corretta(a) < 21 THEN 74 - Corretta(a) ELSE 44 - Corretta(a)) - 1

\* What Meeus takes off for the leap days a century misses, and for the moon, is
\* what the Church does.
LEMMA Equazioni ==
  ASSUME NEW b \in Nat
  PROVE  /\ b - (b \div 4) = (3 * (b + 1)) \div 4
         /\ (b - ((b + 8) \div 25) + 1) \div 3 = (8 * (b + 1) + 5) \div 25
<1>1. b - (b \div 4) = (3 * (b + 1)) \div 4
  <2>1. PICK q \in Nat, r \in Nat : b = 4 * q + r /\ r < 4 /\ b \div 4 = q
    <3>1. b \div 4 \in Nat /\ b % 4 \in Nat /\ b % 4 < 4 /\ b = 4 * (b \div 4) + (b % 4)
      BY SMT
    <3> QED BY <3>1
  <2>2. 3 * (b + 1) = 4 * (3 * q + r) + (3 - r) /\ 3 * q + r \in Nat /\ 3 - r \in Nat /\ 3 - r < 4
    BY SMT, <2>1
  <2>3. (3 * (b + 1)) \div 4 = 3 * q + r
    BY SMT, <2>2
  <2> QED BY SMT, <2>1, <2>3
<1>2. (b - ((b + 8) \div 25) + 1) \div 3 = (8 * (b + 1) + 5) \div 25
  <2>1. PICK q \in Nat, r \in Nat : b = 25 * q + r /\ r < 25
    <3>1. b \div 25 \in Nat /\ b % 25 \in Nat /\ b % 25 < 25 /\ b = 25 * (b \div 25) + (b % 25)
      BY SMT
    <3> QED BY <3>1
  <2>2. PICK s \in Nat, w \in Nat : s = (8 * r + 13) \div 25 /\ w < 25 /\ 8 * r + 13 = 25 * s + w
    <3>1. /\ (8 * r + 13) \div 25 \in Nat /\ (8 * r + 13) % 25 \in Nat /\ (8 * r + 13) % 25 < 25
          /\ 8 * r + 13 = 25 * ((8 * r + 13) \div 25) + ((8 * r + 13) % 25)
      BY SMT
    <3> QED BY <3>1
  <2>3. (8 * (b + 1) + 5) \div 25 = 8 * q + s
    BY SMT, <2>1, <2>2
  <2>4. CASE r < 17
    <3>1. (b + 8) \div 25 = q
      BY SMT, <2>1, <2>4
    <3>2. 3 * s <= r + 1 /\ r + 1 < 3 * s + 3
      BY SMT, <2>1, <2>2, <2>4
    <3> QED BY SMT, <2>1, <2>3, <3>1, <3>2
  <2>5. CASE r >= 17
    <3>1. (b + 8) \div 25 = q + 1
      BY SMT, <2>1, <2>5
    <3>2. 3 * s <= r /\ r < 3 * s + 3
      BY SMT, <2>1, <2>2, <2>5
    <3> QED BY SMT, <2>1, <2>3, <3>1, <3>2
  <2> QED BY SMT, <2>1, <2>4, <2>5
<1> QED BY <1>1, <1>2

\* The full moon of Meeus, before the correction, is the one of the epact.
LEMMA LunaEdEpatta ==
  ASSUME NEW a \in Nat
  PROVE  /\ Epatta(a) \in Nat /\ Epatta(a) < 30
         /\ Luna(a) = IF Epatta(a) <= 23 THEN 23 - Epatta(a) ELSE 53 - Epatta(a)
<1>1. PICK x \in Nat, b \in Nat : x = a % 19 /\ b = a \div 100
  BY SMT
<1>2. PICK so \in Int, lu \in Int : so = (3 * (b + 1)) \div 4 /\ lu = (8 * (b + 1) + 5) \div 25
  BY SMT
<1>3. b - (b \div 4) = so /\ (b - ((b + 8) \div 25) + 1) \div 3 = lu
  BY <1>2, Equazioni
<1>4. Luna(a) = (19 * x + so - lu + 15) % 30
  <2>1. b \div 4 \in Int
    BY SMT
  <2>2. Luna(a) = (19 * x + b - (b \div 4) - lu + 15) % 30
    BY SMT, <1>1, <1>3 DEF Luna
  <2>3. 19 * x + b - (b \div 4) - lu + 15 = 19 * x + so - lu + 15
    BY SMT, <1>2, <1>3, <2>1
  <2> QED BY <2>2, <2>3
<1>5. Epatta(a) = (11 * (x + 1) + 20 + (lu - 5) - (so - 12)) % 30
  BY SMT, <1>1, <1>2 DEF Epatta, Aureo, Secolo
<1>6. PICK h \in Nat, q \in Int : h = Luna(a) /\ h < 30 /\ 19 * x + so - lu + 15 = 30 * q + h
  <2> DEFINE y == 19 * x + so - lu + 15
  <2>1. y \in Int
    BY SMT, <1>1, <1>2
  <2> HIDE DEF y
  <2>2. y % 30 \in Nat /\ y % 30 < 30 /\ y \div 30 \in Int /\ y = 30 * (y \div 30) + (y % 30)
    BY SMT, <2>1
  <2> QED BY <1>4, <2>2 DEF y
<1>7. PICK e \in Nat, r \in Int : e = Epatta(a) /\ e < 30 /\ 11 * (x + 1) + 20 + (lu - 5) - (so - 12) = 30 * r + e
  <2> DEFINE y == 11 * (x + 1) + 20 + (lu - 5) - (so - 12)
  <2>1. y \in Int
    BY SMT, <1>1, <1>2
  <2> HIDE DEF y
  <2>2. y % 30 \in Nat /\ y % 30 < 30 /\ y \div 30 \in Int /\ y = 30 * (y \div 30) + (y % 30)
    BY SMT, <2>1
  <2> QED BY <1>5, <2>2 DEF y
<1>8. h + e = 30 * (x - q - r + 1) + 23
  BY SMT, <1>1, <1>2, <1>6, <1>7
<1>9. PICK w \in Int : h + e = 30 * w + 23
  <2>1. x - q - r + 1 \in Int
    BY SMT, <1>1, <1>6, <1>7
  <2> QED BY <1>8, <2>1
<1>10. w = 0 \/ w = 1
  BY SMT, <1>6, <1>7, <1>9
<1> QED BY SMT, <1>6, <1>7, <1>9, <1>10

\* Easter is in the week after that full moon.
LEMMA DopoIlPlenilunio ==
  ASSUME NEW a \in Nat
  PROVE  /\ Plenilunio(a) \in Int
         /\ Plenilunio(a) < Pasqua(a) /\ Pasqua(a) <= Plenilunio(a) + 7
<1>1. PICK e \in Nat, h \in Nat, x \in Nat, w \in Nat, mz \in Int :
        /\ e = Epatta(a) /\ e < 30 /\ h = Luna(a) /\ h < 30 /\ x = a % 19 /\ x < 19
        /\ w = Attesa(a) /\ w < 7 /\ mz = Ordinale(a, 3, 1)
  <2>1. Epatta(a) \in Nat /\ Epatta(a) < 30
    BY LunaEdEpatta
  <2>2. Luna(a) \in Nat /\ Luna(a) < 30 /\ Attesa(a) \in Nat /\ Attesa(a) < 7
    BY PasquaDaMarzo
  <2>3. Ordinale(a, 3, 1) \in Int
    BY Date
  <2>4. a % 19 \in Nat /\ a % 19 < 19
    BY SMT
  <2> QED BY <2>1, <2>2, <2>3, <2>4
<1>2. h = IF e <= 23 THEN 23 - e ELSE 53 - e
  BY <1>1, LunaEdEpatta
<1>3. Pasqua(a) = mz + 21 + h + w - (IF w = 6 /\ (h = 29 \/ (h = 28 /\ x > 10)) THEN 7 ELSE 0)
  BY <1>1, PasquaDaMarzo
<1>4. Corretta(a) = IF e = 24 \/ (e = 25 /\ x > 10) THEN e + 1 ELSE e
  BY SMT, <1>1 DEF Corretta, Aureo
<1>5. Plenilunio(a) = mz + 20 + h - (IF h = 29 \/ (h = 28 /\ x > 10) THEN 1 ELSE 0)
  <2>1. CASE e = 24 \/ (e = 25 /\ x > 10)
    <3>1. Corretta(a) = e + 1
      BY <1>4, <2>1
    <3> QED BY SMT, <1>1, <1>2, <2>1, <3>1 DEF Plenilunio
  <2>2. CASE ~(e = 24 \/ (e = 25 /\ x > 10))
    <3>1. Corretta(a) = e
      BY <1>4, <2>2
    <3> QED BY SMT, <1>1, <1>2, <2>2, <3>1 DEF Plenilunio
  <2> QED BY <2>1, <2>2
<1>6. CASE h = 29 \/ (h = 28 /\ x > 10)
  <2>1. CASE w = 6
    BY SMT, <1>1, <1>3, <1>5, <1>6, <2>1
  <2>2. CASE w # 6
    BY SMT, <1>1, <1>3, <1>5, <1>6, <2>2
  <2> QED BY <2>1, <2>2
<1>7. CASE ~(h = 29 \/ (h = 28 /\ x > 10))
  BY SMT, <1>1, <1>3, <1>5, <1>7
<1> QED BY <1>6, <1>7

\* And a Sunday.
LEMMA PasquaDomenica ==
  ASSUME NEW a \in Nat
  PROVE  \E q \in Int : Pasqua(a) + 3 = 7 * q + 6
<1>1. PICK d, e, i, k : Secoli(a, d, e, i, k)
  BY OgniAnnoHaSecoli
<1>2. d \in Nat /\ e \in 0 .. 3 /\ i \in 0 .. 24 /\ k \in 0 .. 3 /\ a = 400 * d + 100 * e + 4 * i + k
  BY <1>1 DEF Secoli
<1>3. Passati(a) = 146097 * d + 36524 * e + 1461 * i + 365 * k /\ a \div 100 = 4 * d + e
  BY SMT, <1>1, PassatiSecoli
<1>4. (a \div 100) % 4 = e /\ a % 100 = 4 * i + k /\ (a % 100) \div 4 = i /\ (a % 100) % 4 = k
  <2>1. (4 * d + e) % 4 = e
    BY SMT, <1>2
  <2>2. a % 100 = 4 * i + k
    BY SMT, <1>2
  <2>3. (4 * i + k) \div 4 = i /\ (4 * i + k) % 4 = k
    BY SMT, <1>2
  <2> QED BY <1>3, <2>1, <2>2, <2>3
<1>5. PICK h \in Nat, w \in Nat, m \in Int, mz \in Int :
        /\ h = Luna(a) /\ h < 30 /\ w = Attesa(a) /\ w < 7 /\ (m = 0 \/ m = 1)
        /\ Pasqua(a) = mz + 21 + h + w - 7 * m /\ mz = Passati(a) - 719468
  <2>1. /\ Luna(a) \in Nat /\ Luna(a) < 30 /\ Attesa(a) \in Nat /\ Attesa(a) < 7
        /\ \/ Pasqua(a) = Ordinale(a, 3, 1) + 21 + Luna(a) + Attesa(a) - 7
           \/ Pasqua(a) = Ordinale(a, 3, 1) + 21 + Luna(a) + Attesa(a) - 0
    BY Zenon, PasquaDaMarzo
  <2>2. Ordinale(a, 3, 1) \in Int /\ Ordinale(a, 3, 1) = Passati(a) - 719468
    BY SMT, Date
  <2> QED BY SMT, <2>1, <2>2
<1>6. w = (32 + 2 * e + 2 * i - h - k) % 7
  BY SMT, <1>4, <1>5 DEF Attesa
<1>7. PICK q \in Int : 32 + 2 * e + 2 * i - h - k = 7 * q + w
  <2> DEFINE y == 32 + 2 * e + 2 * i - h - k
  <2>1. y \in Int
    BY SMT, <1>2, <1>5
  <2> HIDE DEF y
  <2>2. y \div 7 \in Int /\ y = 7 * (y \div 7) + (y % 7)
    BY SMT, <2>1
  <2> QED BY <1>6, <2>2 DEF y
<1>8. PICK z \in Int : z = 20871 * d + 5218 * e + 209 * i + 52 * k - 102774 - q - m
  BY SMT, <1>2, <1>5, <1>7
<1>9. Pasqua(a) + 3 = 7 * z + 6
  BY SMT, <1>2, <1>3, <1>5, <1>7, <1>8
<1> QED BY <1>9

\* There is one Sunday in that week, and Easter is it.
LEMMA PasquaGiusta ==
  ASSUME NEW n \in Nat, NEW a \in Nat
  PROVE  n = Pasqua(a) <=>
           /\ GiornoSettimana(n) = Domenica
           /\ Plenilunio(a) < n /\ n <= Plenilunio(a) + 7
<1>1. PICK p \in Int, l \in Int : p = Pasqua(a) /\ l = Plenilunio(a) /\ l < p /\ p <= l + 7
  BY SMT, DopoIlPlenilunio, PasquaFra
<1>2. PICK q \in Int : p + 3 = 7 * q + 6
  BY <1>1, PasquaDomenica
<1>3. PICK r \in Int, w \in Nat : n + 3 = 7 * r + w /\ w < 7 /\ w = GiornoSettimana(n)
  <2>1. (n + 3) \div 7 \in Int /\ (n + 3) % 7 \in Nat /\ (n + 3) % 7 < 7 /\ n + 3 = 7 * ((n + 3) \div 7) + ((n + 3) % 7)
    BY SMT
  <2> QED BY <2>1 DEF GiornoSettimana
<1>4. Domenica = 6
  BY DEF Domenica
<1>5. ASSUME n = p PROVE w = 6 /\ l < n /\ n <= l + 7
  BY SMT, <1>1, <1>2, <1>3, <1>5
<1>6. ASSUME w = 6, l < n, n <= l + 7 PROVE n = p
  BY SMT, <1>1, <1>2, <1>3, <1>6
<1> QED BY <1>1, <1>3, <1>4, <1>5, <1>6

\* Easter of domain/calendario.py (Meeus, Jones and Butcher) is the Church's, in
\* every year after 1970 and against every day of it.
THEOREM PasquaSempreDellaChiesa == GiorniSpec => []PasquaDellaChiesa
<1>1. GiornoVero => PasquaDellaChiesa
  <2> SUFFICES ASSUME GiornoVero PROVE PasquaDellaChiesa
    OBVIOUS
  <2>1. PICK n \in Nat, a \in Nat : n = giorno /\ a = Anno(n)
    BY AnnoGiusto DEF GiornoVero
  <2>2. n = Pasqua(a) <=>
          /\ GiornoSettimana(n) = Domenica
          /\ Plenilunio(a) < n /\ n <= Plenilunio(a) + 7
    BY PasquaGiusta
  <2> QED BY <2>1, <2>2 DEF PasquaDellaChiesa, Plenilunio, Corretta, Epatta, Secolo, Aureo
<1> QED BY PTL, <1>1, GiorniVeri
=============================================================================
