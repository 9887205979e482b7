----------------------- MODULE IncassiConcorrentiProofs -----------------------
(***************************************************************************)
(* Proofs about module IncassiConcorrenti, for any number of requests of   *)
(* the operator open together and over one cycle, and any of the values    *)
(* they bring.                                                             *)
(*                                                                         *)
(* Rows are merged cell by cell, so what a commit leaves may be a state no *)
(* session ever had in memory.  The invariant therefore relates what each  *)
(* session has in memory to what is committed by now: the cycle's memory   *)
(* by Vista, a request's by RichiestaNota.  Positions and exact residuals, *)
(* which module Incassi keeps and the interleavings do not, are no part of *)
(* it.                                                                     *)
(***************************************************************************)
EXTENDS IncassiConcorrenti, IncassiProofs

\* What the payments P leave of the amount of f is still due in the rows d.
Scoperto(P, f) == Importo[f] - SommaImporti({p \in P : p.fattura = f})

Coperta(d, P) ==
  \A f \in Fatture :
    /\ d.stato[f] = "assente" => d.residuo[f] = 0
    /\ d.stato[f] # "assente" => d.residuo[f] >= Scoperto(P, f)
    /\ d.stato[f] = "saldata" => Scoperto(P, f) <= 0

Sano(d, P) ==
  /\ d \in Database
  /\ SenzaPendenti(d)
  /\ Coperta(d, P)

\* The rows e that a transaction has in memory, of which it wrote the cells M,
\* against the committed ones d: it knows every invoice of d, it wrote whole
\* the invoices d has not, and what it believes planned or not is so unless it
\* wrote it.
Vista(d, e, M) ==
  /\ \A f \in Fatture :
       /\ d.stato[f] # "assente" => e.stato[f] # "assente"
       /\ <<"stato", f>> \in M \/ <<"residuo", f>> \in M => e.stato[f] # "assente"
       /\ d.stato[f] = "assente" /\ e.stato[f] # "assente" =>
            <<"stato", f>> \in M /\ <<"residuo", f>> \in M
  /\ \A c \in Comunicazioni :
       IF <<"com", c>> \in M
       THEN e.com[c] = "programmata" => d.stato[c[1]] = "assente"
       ELSE d.com[c] = "programmata" => e.com[c] = "programmata"

PagamentiNoti == db.pagamenti \cup tx.pagamenti

\* What no request can miss when the committed rows go from d to e: payments
\* and invoices stay, reminders are planned of new invoices only.
Avanza(d, e) ==
  /\ d.pagamenti \subseteq e.pagamenti
  /\ \A f \in Fatture : d.stato[f] # "assente" => e.stato[f] # "assente"
  /\ \A c \in Comunicazioni :
       d.stato[c[1]] # "assente" /\ e.com[c] = "programmata" => d.com[c] = "programmata"

SessioniAperte == [passo : {"letta", "pronta"}, op : Operazioni, letto : Database]

\* A payment: in what the request read its invoice owes at least what is due,
\* and once the reminders are read none planned escapes it.
PagamentoNoto(d, q) ==
  /\ q.letto.residuo[q.op.fattura] >= Scoperto(d.pagamenti, q.op.fattura)
  /\ q.passo = "pronta" =>
       \A c \in Comunicazioni :
         c[1] = q.op.fattura /\ d.com[c] = "programmata" => q.letto.com[c] = "programmata"

\* What a request has in memory against the committed rows d.
RichiestaNota(d, q) ==
  /\ q.letto.pagamenti \subseteq d.pagamenti
  /\ \A f \in Fatture : q.letto.stato[f] # "assente" => d.stato[f] # "assente"
  /\ q.op.tipo \in {"paga", "pausa", "riprendi"} =>
       q.letto.stato[q.op.fattura] \in STATI_CREDITO_APERTO
  /\ q.op.tipo = "paga" => PagamentoNoto(d, q)

InvSessioni ==
  /\ sessione \in [Sessioni -> {Libera} \cup SessioniAperte]
  /\ \A s \in Sessioni : sessione[s] # Libera => RichiestaNota(db, sessione[s])

InvRighe ==
  /\ IsFiniteSet(PagamentiNoti)
  /\ \A p, q \in PagamentiNoti : p.chiave = q.chiave => p = q
  /\ Sano(db, db.pagamenti) /\ Sano(tx, PagamentiNoti)
  /\ Vista(db, tx, mie)

InvFasi ==
  /\ fase = "ferma" => tx = db /\ mie = {}
  /\ \A mf \in Abbinamenti : quota[mf] # 0 => tx.stato[mf[2]] # "assente"
  /\ fase = "invii" =>
       \A c \in Comunicazioni : c[1] \in pagate => tx.com[c] # "programmata"
  /\ ChiHaPagatoNonRiceve

InvC == TypeOK /\ InvSessioni /\ InvRighe /\ InvFasi

-----------------------------------------------------------------------------
(***************************************************************************)
(* Cells.                                                                  *)
(***************************************************************************)
\* The cells in which two versions of the rows differ.
LEMMA CellaDiversa ==
  ASSUME NEW d \in Database, NEW e \in Database, NEW k \in {"stato", "residuo", "com"}, NEW r
  PROVE  <<k, r>> \in Celle(d, e) <=> r \in DOMAIN d[k] /\ d[k][r] # e[k][r]
<1> DEFINE C(j) == {<<j, q>> : q \in {q \in DOMAIN d[j] : d[j][q] # e[j][q]}}
<1>1. k \in Colonne
  BY DEF Colonne, ColonneFattura
<1>2. Celle(d, e) = UNION {C(j) : j \in Colonne}
  BY DEF Celle
<1>3. <<k, r>> \in C(k) <=> r \in DOMAIN d[k] /\ d[k][r] # e[k][r]
  OBVIOUS
<1>4. ASSUME NEW j \in Colonne, <<k, r>> \in C(j) PROVE j = k
  BY <1>4
<1> HIDE DEF C
<1>5. <<k, r>> \in UNION {C(j) : j \in Colonne} <=> \E j \in Colonne : <<k, r>> \in C(j)
  OBVIOUS
<1> QED BY <1>1, <1>2, <1>3, <1>4, <1>5

\* See above, column by column.
LEMMA CelleDiverse ==
  ASSUME NEW d \in Database, NEW e \in Database
  PROVE  /\ \A f \in Fatture : <<"stato", f>> \in Celle(d, e) <=> d.stato[f] # e.stato[f]
         /\ \A f \in Fatture : <<"residuo", f>> \in Celle(d, e) <=> d.residuo[f] # e.residuo[f]
         /\ \A c \in Comunicazioni : <<"com", c>> \in Celle(d, e) <=> d.com[c] # e.com[c]
<1>1. /\ DOMAIN d.stato = Fatture /\ DOMAIN d.residuo = Fatture /\ DOMAIN d.com = Comunicazioni
      /\ d["stato"] = d.stato /\ e["stato"] = e.stato
      /\ d["residuo"] = d.residuo /\ e["residuo"] = e.residuo
      /\ d["com"] = d.com /\ e["com"] = e.com
  BY DEF Database
<1>2. ASSUME NEW f \in Fatture
      PROVE  <<"stato", f>> \in Celle(d, e) <=> d.stato[f] # e.stato[f]
  BY <1>1, CellaDiversa
<1>3. ASSUME NEW f \in Fatture
      PROVE  <<"residuo", f>> \in Celle(d, e) <=> d.residuo[f] # e.residuo[f]
  BY <1>1, CellaDiversa
<1>4. ASSUME NEW c \in Comunicazioni
      PROVE  <<"com", c>> \in Celle(d, e) <=> d.com[c] # e.com[c]
  BY <1>1, CellaDiversa
<1> QED BY <1>2, <1>3, <1>4

\* The rows r are those of d with the cells M as they are in e.
Mista(r, d, e, M) ==
  /\ \A f \in Fatture :
       /\ r.stato[f] = IF <<"stato", f>> \in M THEN e.stato[f] ELSE d.stato[f]
       /\ r.residuo[f] = IF <<"residuo", f>> \in M THEN e.residuo[f] ELSE d.residuo[f]
  /\ \A c \in Comunicazioni :
       r.com[c] = IF <<"com", c>> \in M THEN e.com[c] ELSE d.com[c]

\* Writing the columns that are not merged keeps the type of the rows.
LEMMA AltriCampi ==
  ASSUME NEW d \in Database, NEW P \in SUBSET Pagamenti, NEW v \in Flussi \cup {0},
         NEW S \in [Flussi -> SUBSET Passi],
         NEW F \in [Fatture -> {"assente", "viva", "letta"}],
         NEW L \in [Collegamenti -> {"assente", "viva", "letta"}]
  PROVE  [d EXCEPT !.pagamenti = P, !.flusso = v, !.passi = S, !.preavviso = F, !.avviso = L]
           \in Database
  BY DEF Database

\* Sovrascritto mixes two versions of the rows and joins their payments.
LEMMA SovrascrittoMista ==
  ASSUME NEW d \in Database, NEW e \in Database, NEW M, NEW r, r = Sovrascritto(d, e, M)
  PROVE  r \in Database /\ Mista(r, d, e, M) /\ r.pagamenti = d.pagamenti \cup e.pagamenti
<1> DEFINE Colonna(k) == [q \in DOMAIN d[k] |-> IF <<k, q>> \in M THEN e[k][q] ELSE d[k][q]]
<1>1. r = [d EXCEPT !.stato = Colonna("stato"), !.residuo = Colonna("residuo"),
                !.pausaFinoA = Colonna("pausaFinoA"), !.posizione = Colonna("posizione"),
                !.statoPos = Colonna("statoPos"), !.com = Colonna("com"),
                !.pagamenti = @ \cup e.pagamenti,
                !.flusso = e.flusso, !.passi = e.passi,
                !.preavviso = e.preavviso, !.avviso = e.avviso]
  BY DEF Sovrascritto
<1>2. /\ Colonna("stato") \in [Fatture -> StatiFattura \cup {"assente"}]
      /\ Colonna("residuo") \in [Fatture -> 0 .. ImportoMax]
      /\ Colonna("pausaFinoA") \in [Fatture -> FinePausa \cup {Mai}]
  BY DEF Database
<1>3. /\ Colonna("posizione") \in [Fatture -> Fatture]
      /\ Colonna("statoPos") \in [Fatture -> {"assente", "aperta", "chiusa"}]
      /\ Colonna("com") \in [Comunicazioni -> StatiComunicazione \cup {"assente"}]
  BY DEF Database
<1>4. /\ \A f \in Fatture :
           /\ Colonna("stato")[f] = IF <<"stato", f>> \in M THEN e.stato[f] ELSE d.stato[f]
           /\ Colonna("residuo")[f] = IF <<"residuo", f>> \in M THEN e.residuo[f] ELSE d.residuo[f]
      /\ \A c \in Comunicazioni :
           Colonna("com")[c] = IF <<"com", c>> \in M THEN e.com[c] ELSE d.com[c]
  BY DEF Database
<1> HIDE DEF Colonna
<1>5. /\ d.pagamenti \cup e.pagamenti \in SUBSET Pagamenti
      /\ e.flusso \in Flussi \cup {0} /\ e.passi \in [Flussi -> SUBSET Passi]
      /\ e.preavviso \in [Fatture -> {"assente", "viva", "letta"}]
      /\ e.avviso \in [Collegamenti -> {"assente", "viva", "letta"}]
  BY DEF Database
<1>7. r \in Database /\ r.pagamenti = d.pagamenti \cup e.pagamenti
  <2> DEFINE a == [d EXCEPT !.stato = Colonna("stato"), !.residuo = Colonna("residuo"),
                     !.pausaFinoA = Colonna("pausaFinoA")]
             b == [a EXCEPT !.posizione = Colonna("posizione"),
                     !.statoPos = Colonna("statoPos"), !.com = Colonna("com")]
  <2>1. a \in Database /\ a.pagamenti = d.pagamenti
    BY <1>2 DEF Database
  <2>2. r = [b EXCEPT !.pagamenti = d.pagamenti \cup e.pagamenti, !.flusso = e.flusso,
               !.passi = e.passi, !.preavviso = e.preavviso, !.avviso = e.avviso]
    BY <1>1 DEF Database
  <2> HIDE DEF a
  <2>3. b \in Database /\ b.pagamenti = d.pagamenti
    BY <1>3, <2>1 DEF Database
  <2> HIDE DEF b
  <2>4. [b EXCEPT !.pagamenti = d.pagamenti \cup e.pagamenti, !.flusso = e.flusso,
            !.passi = e.passi, !.preavviso = e.preavviso, !.avviso = e.avviso] \in Database
    BY <1>5, <2>3, AltriCampi, ZenonT(30)
  <2>5. r.pagamenti = d.pagamenti \cup e.pagamenti
    BY <1>1 DEF Database
  <2> QED BY <2>2, <2>4, <2>5
<1>6. r.stato = Colonna("stato") /\ r.residuo = Colonna("residuo") /\ r.com = Colonna("com")
  BY <1>1 DEF Database
<1> QED BY <1>4, <1>6, <1>7 DEF Mista

-----------------------------------------------------------------------------
(***************************************************************************)
(* What is due.                                                            *)
(***************************************************************************)
\* What is due is an integer, never more than the amount; more payments never
\* raise it.
LEMMA ScopertoCala ==
  ASSUME NEW Q \in SUBSET Pagamenti, IsFiniteSet(Q), NEW P \in SUBSET Q, NEW f \in Fatture
  PROVE  /\ Scoperto(P, f) \in Int /\ Scoperto(Q, f) \in Int
         /\ Scoperto(Q, f) <= Scoperto(P, f)
         /\ Scoperto(P, f) <= Importo[f]
<1> DEFINE X == {p \in P : p.fattura = f}
           Y == {p \in Q : p.fattura = f}
<1>1. X \in SUBSET Y /\ Y \in SUBSET Pagamenti /\ IsFiniteSet(Y) /\ IsFiniteSet(X)
  <2>1. X \subseteq Y /\ Y \subseteq Q
    OBVIOUS
  <2> QED BY <2>1, FS_Subset
<1>2. Scoperto(P, f) = Importo[f] - SommaImporti(X) /\ Scoperto(Q, f) = Importo[f] - SommaImporti(Y)
  BY DEF Scoperto
<1> HIDE DEF X, Y
<1>3. SommaImporti(X) \in Nat /\ SommaImporti(Y) \in Nat /\ SommaImporti(X) <= SommaImporti(Y)
  BY <1>1, ImportiNaturali, ImportiMonotoni
<1>4. Importo[f] \in Int
  BY IncassiAssumption
<1> QED BY <1>2, <1>3, <1>4

\* A payment lowers by its amount what is due of its invoice.
LEMMA ScopertoDopo ==
  ASSUME NEW P \in SUBSET Pagamenti, IsFiniteSet(P), NEW p \in Pagamenti, p \notin P,
         NEW f \in Fatture
  PROVE  Scoperto(P \cup {p}, f) = Scoperto(P, f) - (IF f = p.fattura THEN p.importo ELSE 0)
<1> DEFINE X == {q \in P : q.fattura = f}
           Y == {q \in P \cup {p} : q.fattura = f}
<1>1. X \in SUBSET Pagamenti /\ IsFiniteSet(X) /\ p \notin X
  <2>1. X \subseteq P
    OBVIOUS
  <2> QED BY <2>1, FS_Subset
<1>2. Y = IF f = p.fattura THEN X \cup {p} ELSE X
  OBVIOUS
<1>3. Scoperto(P, f) = Importo[f] - SommaImporti(X)
      /\ Scoperto(P \cup {p}, f) = Importo[f] - SommaImporti(Y)
  BY DEF Scoperto
<1>4. p.importo \in Int /\ Importo[f] \in Int
  BY IncassiAssumption DEF Pagamenti
<1> HIDE DEF X, Y
<1>5. SommaImporti(X) \in Nat
  BY <1>1, ImportiNaturali
<1>6. SommaImporti(X \cup {p}) = SommaImporti(X) + p.importo
  BY <1>1, ImportiAggiunti
<1> QED BY <1>2, <1>3, <1>4, <1>5, <1>6

\* More payments keep rows covered.
LEMMA SanoCresce ==
  ASSUME NEW Q \in SUBSET Pagamenti, IsFiniteSet(Q), NEW P \in SUBSET Q, NEW d, Sano(d, P)
  PROVE  Sano(d, Q)
<1>1. ASSUME NEW f \in Fatture
      PROVE  /\ d.stato[f] # "assente" => d.residuo[f] >= Scoperto(Q, f)
             /\ d.stato[f] = "saldata" => Scoperto(Q, f) <= 0
  <2>1. d.residuo[f] \in Int
    BY ResiduoNaturale DEF Sano
  <2>2. Scoperto(P, f) \in Int /\ Scoperto(Q, f) \in Int /\ Scoperto(Q, f) <= Scoperto(P, f)
    BY ScopertoCala
  <2> QED BY <2>1, <2>2 DEF Sano, Coperta
<1> QED BY <1>1 DEF Sano, Coperta

\* The rows r hold every invoice that e has.
Ritrova(e, r) == \A f \in Fatture : e.stato[f] # "assente" => r.stato[f] # "assente"

\* The rows of a session laid over the committed ones: what it has written and
\* what it has not make rows as sound as either, and it sees them as its own.
LEMMA SovrascrittoSano ==
  ASSUME NEW P, NEW d, NEW e, NEW M, Sano(d, P), Sano(e, P), Vista(d, e, M),
         NEW r, r = Sovrascritto(d, e, M)
  PROVE  Sano(r, P) /\ Vista(d, r, M) /\ Ritrova(e, r)
<1>1. d \in Database /\ e \in Database
  BY DEF Sano
<1>2. r \in Database /\ Mista(r, d, e, M)
  BY <1>1, SovrascrittoMista
<1>3. \A c \in Comunicazioni : c[1] \in Fatture
  BY TipoComunicazione
<1>4. SenzaPendenti(r)
  BY <1>2, <1>3 DEF Mista, Vista, Sano, SenzaPendenti, STATI_TERMINALI
<1>5. Coperta(r, P)
  <2> SUFFICES ASSUME NEW f \in Fatture
               PROVE  /\ r.stato[f] = "assente" => r.residuo[f] = 0
                      /\ r.stato[f] # "assente" => r.residuo[f] >= Scoperto(P, f)
                      /\ r.stato[f] = "saldata" => Scoperto(P, f) <= 0
    BY DEF Coperta
  <2> QED BY <1>2 DEF Mista, Vista, Sano, Coperta
<1>6. Vista(d, r, M)
  BY <1>2 DEF Mista, Vista
<1>7. ASSUME NEW f \in Fatture, e.stato[f] # "assente" PROVE r.stato[f] # "assente"
  BY <1>2, <1>7 DEF Mista, Vista
<1> QED BY <1>2, <1>4, <1>5, <1>6, <1>7 DEF Sano, Ritrova

-----------------------------------------------------------------------------
(***************************************************************************)
(* The steps of the cycle on the rows it has in memory.                    *)
(***************************************************************************)
\* From a to b no invoice is lost, one that appears comes whole, and reminders
\* are planned of new invoices only.
Lavoro(a, b) ==
  /\ \A f \in Fatture :
       /\ a.stato[f] # "assente" => b.stato[f] # "assente"
       /\ a.stato[f] # b.stato[f] \/ a.residuo[f] # b.residuo[f] => b.stato[f] # "assente"
       /\ a.stato[f] = "assente" /\ b.stato[f] # "assente" => a.residuo[f] # b.residuo[f]
  /\ \A c \in Comunicazioni :
       b.com[c] # a.com[c] /\ b.com[c] = "programmata" => a.stato[c[1]] = "assente"

\* The rows a step computes, with the cells in which they differ from those it
\* started from, are seen as those were.
LEMMA LavoroVista ==
  ASSUME NEW d, NEW a \in Database, NEW b \in Database, NEW M, Vista(d, a, M), Lavoro(a, b)
  PROVE  Vista(d, b, M \cup Celle(a, b))
<1>1. \A c \in Comunicazioni : c[1] \in Fatture
  BY TipoComunicazione
<1> DEFINE N == Celle(a, b)
<1>2. /\ \A f \in Fatture : <<"stato", f>> \in N <=> a.stato[f] # b.stato[f]
      /\ \A f \in Fatture : <<"residuo", f>> \in N <=> a.residuo[f] # b.residuo[f]
      /\ \A c \in Comunicazioni : <<"com", c>> \in N <=> a.com[c] # b.com[c]
  BY CelleDiverse
<1> HIDE DEF N
<1>3. ASSUME NEW f \in Fatture
      PROVE  /\ d.stato[f] # "assente" => b.stato[f] # "assente"
             /\ <<"stato", f>> \in M \cup N \/ <<"residuo", f>> \in M \cup N
                  => b.stato[f] # "assente"
             /\ d.stato[f] = "assente" /\ b.stato[f] # "assente" =>
                  <<"stato", f>> \in M \cup N /\ <<"residuo", f>> \in M \cup N
  BY <1>2 DEF Vista, Lavoro
<1>4. ASSUME NEW c \in Comunicazioni
      PROVE  IF <<"com", c>> \in M \cup N
             THEN b.com[c] = "programmata" => d.stato[c[1]] = "assente"
             ELSE d.com[c] = "programmata" => b.com[c] = "programmata"
  BY <1>1, <1>2 DEF Vista, Lavoro
<1>5. Vista(d, b, M \cup N)
  BY <1>3, <1>4 DEF Vista
<1> QED BY <1>5 DEF N

\* Steps that register no payment ...
LEMMA IntattiLavoro ==
  ASSUME NEW d \in Database, NEW e, Intatti(d, e), VitaCiclo(d, e)
  PROVE  Lavoro(d, e)
<1>1. \A c \in Comunicazioni : c[1] \in Fatture
  BY TipoComunicazione
<1> QED BY <1>1 DEF Lavoro, Intatti, VitaCiclo, Vita

\* ... keep the rows sound if they withdraw the reminders of what they escalate.
LEMMA IntattiSano ==
  ASSUME NEW P, NEW d, Sano(d, P), NEW e \in Database, Intatti(d, e), VitaCiclo(d, e),
         \A c \in Comunicazioni :
           e.stato[c[1]] # d.stato[c[1]] /\ e.stato[c[1]] = "insoluto" => e.com[c] # "programmata"
  PROVE  Sano(e, P) /\ Lavoro(d, e)
<1>1. \A c \in Comunicazioni : c[1] \in Fatture
  BY TipoComunicazione
<1>2. SenzaPendenti(e)
  <2> SUFFICES ASSUME NEW c \in Comunicazioni, e.stato[c[1]] \in STATI_TERMINALI,
                      e.com[c] = "programmata"
               PROVE  FALSE
    BY DEF SenzaPendenti
  <2>1. c[1] \in Fatture
    BY <1>1
  <2>2. e.stato[c[1]] = d.stato[c[1]]
    BY <2>1 DEF Intatti, STATI_TERMINALI
  <2>3. d.com[c] = "programmata"
    BY <2>2 DEF VitaCiclo, STATI_TERMINALI
  <2> QED BY <2>2, <2>3 DEF Sano, SenzaPendenti
<1>3. Coperta(e, P)
  BY DEF Coperta, Sano, Intatti
<1>4. Lavoro(d, e)
  BY IntattiLavoro DEF Sano
<1> QED BY <1>2, <1>3, <1>4 DEF Sano

\* The phases that register no payment and escalate nothing.
LEMMA FasiSane ==
  ASSUME NEW P, NEW d, Sano(d, P)
  PROVE  /\ Sano(PosizioniAggiornate(d), P) /\ Lavoro(d, PosizioniAggiornate(d))
         /\ PosizioniAggiornate(d).pagamenti = d.pagamenti
         /\ Sano(PauseRiprese(d), P) /\ Lavoro(d, PauseRiprese(d))
         /\ PauseRiprese(d).pagamenti = d.pagamenti
         /\ Sano(DovuteVagliate(d), P) /\ Lavoro(d, DovuteVagliate(d))
         /\ DovuteVagliate(d).pagamenti = d.pagamenti
<1>1. d \in Database
  BY DEF Sano
<1>2. /\ PosizioniAggiornate(d) \in Database
      /\ PosizioniAggiornate(d).stato = d.stato
  BY <1>1 DEF Database, PosizioniAggiornate
<1>3. Sano(PosizioniAggiornate(d), P) /\ Lavoro(d, PosizioniAggiornate(d))
  BY <1>1, <1>2, PosizioniAggiornateConti, IntattiSano
<1>4. /\ PauseRiprese(d) \in Database
      /\ \A f \in Fatture :
           PauseRiprese(d).stato[f] = "insoluto" => PauseRiprese(d).stato[f] = d.stato[f]
  BY <1>1 DEF Database, PauseRiprese, StatiFattura
<1>5. \A c \in Comunicazioni : c[1] \in Fatture
  BY TipoComunicazione
<1>6. Sano(PauseRiprese(d), P) /\ Lavoro(d, PauseRiprese(d))
  BY <1>1, <1>4, <1>5, PauseRipreseConti, IntattiSano
<1>7. DovuteVagliate(d) \in Database
  BY <1>1 DEF Database, DovuteVagliate, StatiComunicazione
<1>8. Sano(DovuteVagliate(d), P) /\ Lavoro(d, DovuteVagliate(d))
  BY <1>1, <1>7, DovuteVagliateConti, IntattiSano
<1>9. /\ PosizioniAggiornate(d).pagamenti = d.pagamenti
      /\ PauseRiprese(d).pagamenti = d.pagamenti
      /\ DovuteVagliate(d).pagamenti = d.pagamenti
  BY <1>1 DEF Database, PosizioniAggiornate, PauseRiprese, DovuteVagliate
<1> QED BY <1>3, <1>6, <1>8, <1>9

\* Handing an invoice to debt recovery.
LEMMA EscalataSana ==
  ASSUME NEW P, NEW d, Sano(d, P), NEW f \in Fatture, d.stato[f] = "gestione",
         NEW e, e = Escalata(d, f)
  PROVE  Sano(e, P) /\ Lavoro(d, e) /\ e.pagamenti = d.pagamenti
<1>1. d \in Database
  BY DEF Sano
<1>2. e \in Database /\ e.pagamenti = d.pagamenti
  BY <1>1 DEF Database, Escalata, Annulla, StatiComunicazione, StatiFattura
<1>3. \A c \in Comunicazioni :
        e.stato[c[1]] # d.stato[c[1]] => e.com[c] # "programmata"
  BY <1>1, TipoComunicazione DEF Database, Escalata, Annulla
<1> QED BY <1>1, <1>2, <1>3, EscalataConti, IntattiSano

\* Recording the outcome of a message.
LEMMA ConEsitoSano ==
  ASSUME NEW P, NEW d, Sano(d, P), NEW C \in SUBSET Comunicazioni,
         \A c \in C : d.com[c] = "programmata",
         NEW x \in {"inviata", "fallita"}, NEW e, e = ConEsito(d, C, x)
  PROVE  Sano(e, P) /\ Lavoro(d, e) /\ e.pagamenti = d.pagamenti
<1>1. d \in Database
  BY DEF Sano
<1>2. e \in Database /\ e.pagamenti = d.pagamenti
  BY <1>1 DEF Database, ConEsito, StatiComunicazione
<1> QED BY <1>1, <1>2, ConEsitoConti, IntattiSano

\* The notices.
LEMMA NotificateSane ==
  ASSUME NEW P, NEW d, Sano(d, P), NEW L \in SUBSET Collegamenti, NEW e, e = Notificate(d, L)
  PROVE  /\ Sano(e, P) /\ e.pagamenti = d.pagamenti
         /\ e.stato = d.stato /\ e.residuo = d.residuo /\ e.com = d.com
<1>1. d \in Database
  BY DEF Sano
<1>2. /\ e \in Database /\ e.pagamenti = d.pagamenti
      /\ e.stato = d.stato /\ e.residuo = d.residuo /\ e.com = d.com
  BY <1>1 DEF Database, Notificate, Risolta
<1> QED BY <1>2 DEF Sano, SenzaPendenti, Coperta

\* The import of an invoice.
LEMMA ImportataSana ==
  ASSUME NEW P \in SUBSET Pagamenti, IsFiniteSet(P), NEW d, Sano(d, P), NEW f \in Fatture,
         d.stato[f] = "assente", NEW e, e = Importata(ConFlusso(d), f)
  PROVE  Sano(e, P) /\ Lavoro(d, e) /\ e.pagamenti = d.pagamenti
<1> DEFINE a == ConFlusso(d)
<1>1. d \in Database
  BY DEF Sano
<1>2. /\ a \in Database
      /\ a.stato = d.stato /\ a.residuo = d.residuo /\ a.com = d.com /\ a.pagamenti = d.pagamenti
  <2>1. MaxFlussi \in Nat \ {0} /\ PassiDefault \in SUBSET Passi
    BY IncassiAssumption
  <2>2. 1 \in Flussi
    BY <2>1 DEF Flussi
  <2> QED BY <1>1, <2>1, <2>2 DEF ConFlusso, Database
<1> HIDE DEF a
<1>3. PICK p \in Fatture : p = PosizionePer(a, f)
  BY <1>2, PosizionePerTipo
<1>4. Importo[f] \in 1 .. ImportoMax /\ Importo[f] \in Int
  BY IncassiAssumption
<1>5. e = [a EXCEPT !.stato[f] = "gestione", !.residuo[f] = Importo[f], !.posizione[f] = p,
             !.statoPos[p] = IF @ = "assente" THEN "aperta" ELSE @,
             !.com = [c \in Comunicazioni |->
                        IF c[1] = f /\ c[2] = a.flusso /\ c[3] \in a.passi[c[2]]
                        THEN "programmata" ELSE @[c]]]
  BY <1>3 DEF Importata, a
<1>6. e \in Database
  <2>1. e.stato \in [Fatture -> StatiFattura \cup {"assente"}]
        /\ e.residuo \in [Fatture -> 0 .. ImportoMax]
        /\ e.posizione \in [Fatture -> Fatture]
        /\ e.statoPos \in [Fatture -> {"assente", "aperta", "chiusa"}]
    BY <1>2, <1>4, <1>5 DEF Database, StatiFattura
  <2>2. e.com \in [Comunicazioni -> StatiComunicazione \cup {"assente"}]
    BY <1>2, <1>5 DEF Database, StatiComunicazione
  <2>3. e = [a EXCEPT !.stato = e.stato, !.residuo = e.residuo, !.posizione = e.posizione,
               !.statoPos = e.statoPos, !.com = e.com]
    BY <1>2, <1>5 DEF Database
  <2> QED BY <1>2, <2>1, <2>2, <2>3 DEF Database
<1>7. /\ e.pagamenti = d.pagamenti
      /\ \A g \in Fatture :
           /\ e.stato[g] = IF g = f THEN "gestione" ELSE d.stato[g]
           /\ e.residuo[g] = IF g = f THEN Importo[f] ELSE d.residuo[g]
      /\ \A c \in Comunicazioni : c[1] # f => e.com[c] = d.com[c]
  BY <1>2, <1>5 DEF Database
<1>8. \A c \in Comunicazioni : c[1] \in Fatture
  BY TipoComunicazione
<1>9. SenzaPendenti(e)
  BY <1>7, <1>8 DEF Sano, SenzaPendenti, STATI_TERMINALI
<1>10. Coperta(e, P)
  <2>1. Scoperto(P, f) \in Int /\ Scoperto(P, f) <= Importo[f]
    BY ScopertoCala
  <2> QED BY <1>4, <1>7, <2>1 DEF Coperta, Sano
<1>11. Lavoro(d, e)
  <2>1. d.residuo[f] = 0
    BY DEF Sano, Coperta
  <2> QED BY <1>4, <1>7, <1>8, <2>1 DEF Lavoro
<1> QED BY <1>6, <1>7, <1>9, <1>10, <1>11 DEF Sano

\* The rows e are d after the payment p of invoice f, on top of the payments P.
Incasso(P, d, f, p, e) ==
  /\ e \in Database /\ Coperta(e, P \cup {p})
  /\ p \in Pagamenti /\ e.pagamenti = d.pagamenti \cup {p}
  /\ e.com = d.com /\ e.posizione = d.posizione
  /\ \A g \in Fatture :
       /\ e.stato[g] = "assente" <=> d.stato[g] = "assente"
       /\ e.stato[g] # d.stato[g] => g = f /\ e.stato[g] = "saldata"
       /\ e.residuo[g] # d.residuo[g] => g = f

\* A payment of an invoice that is there, under a new key.
LEMMA IncassataSana ==
  ASSUME NEW P \in SUBSET Pagamenti, IsFiniteSet(P), NEW d \in Database, NEW f \in Fatture,
         Coperta(d, P), d.stato[f] # "assente",
         NEW importo \in 1 .. ImportoMax, NEW k \in Chiavi,
         NEW origine \in {"riconciliazione", "manuale"},
         \A q \in P : q.chiave # k,
         NEW p, p = [chiave |-> k, fattura |-> f, importo |-> importo, origine |-> origine],
         NEW e, e = Incassata(d, f, importo, k, origine)
  PROVE  Incasso(P, d, f, p, e)
<1> DEFINE r == ResiduoDopoIncasso(d.residuo[f], importo)
<1>1. e \in Database /\ e.com = d.com /\ e.posizione = d.posizione
  BY IncassataTipo
<1>2. p \in Pagamenti /\ p \notin P
  BY DEF Pagamenti
<1>3. /\ e.pagamenti = d.pagamenti \cup {p}
      /\ \A g \in Fatture :
           /\ e.residuo[g] = IF g = f THEN r ELSE d.residuo[g]
           /\ e.stato[g] = IF g = f THEN StatoDopoPagamento(d.stato[f], r) ELSE d.stato[g]
  BY DEF Incassata, Database
<1>4. /\ d.residuo[f] \in Nat /\ importo \in Nat /\ r \in Nat
      /\ r >= d.residuo[f] - importo
      /\ r <= 0 => d.residuo[f] <= importo
  <2>1. d.residuo[f] \in Nat
    BY ResiduoNaturale
  <2>2. ImportoMax \in Nat
    BY IncassiAssumption
  <2> QED BY <2>1, <2>2 DEF ResiduoDopoIncasso
<1>5. \A g \in Fatture :
        /\ Scoperto(P, g) \in Int
        /\ Scoperto(P \cup {p}, g) = Scoperto(P, g) - (IF g = f THEN importo ELSE 0)
  <2>1. p.fattura = f /\ p.importo = importo
    OBVIOUS
  <2> QED BY <1>2, <2>1, ScopertoCala, ScopertoDopo
<1> HIDE DEF r
<1>6. Coperta(e, P \cup {p})
  <2> SUFFICES ASSUME NEW g \in Fatture
               PROVE  /\ e.stato[g] = "assente" => e.residuo[g] = 0
                      /\ e.stato[g] # "assente" => e.residuo[g] >= Scoperto(P \cup {p}, g)
                      /\ e.stato[g] = "saldata" => Scoperto(P \cup {p}, g) <= 0
    BY DEF Coperta
  <2>1. CASE g # f
    <3>1. Scoperto(P \cup {p}, g) = Scoperto(P, g)
      BY <1>5, <2>1
    <3>2. e.residuo[g] = d.residuo[g] /\ e.stato[g] = d.stato[g]
      BY <1>3, <2>1
    <3> QED BY <3>1, <3>2 DEF Coperta
  <2>2. CASE g = f
    <3>1. d.residuo[f] >= Scoperto(P, f) /\ (d.stato[f] = "saldata" => Scoperto(P, f) <= 0)
      BY DEF Coperta
    <3>2. e.residuo[f] = r /\ e.stato[f] = IF r <= 0 THEN "saldata" ELSE d.stato[f]
      BY <1>3 DEF StatoDopoPagamento
    <3>6. Scoperto(P \cup {p}, f) = Scoperto(P, f) - importo
      BY <1>5
    <3>3. /\ Scoperto(P \cup {p}, f) \in Int /\ Scoperto(P, f) \in Int
          /\ Scoperto(P \cup {p}, f) = Scoperto(P, f) - importo
      <4>1. Scoperto(P, f) \in Int /\ importo \in Int
        BY <1>4, <1>5
      <4> QED BY <3>6, <4>1
    <3>4. r >= Scoperto(P \cup {p}, f) /\ (r <= 0 => Scoperto(P \cup {p}, f) <= 0)
      BY <1>4, <3>1, <3>3
    <3>5. d.stato[f] = "saldata" => Scoperto(P \cup {p}, f) <= 0
      BY <1>4, <3>1, <3>3
    <3> QED BY <2>2, <3>2, <3>4, <3>5
  <2> QED BY <2>1, <2>2
<1> QED BY <1>1, <1>2, <1>3, <1>6 DEF StatoDopoPagamento, Incasso

\* The rows e follow from d, on top of the payments P, by no payment or by one
\* under a new key.
Computata(P, d, e) ==
  /\ Lavoro(d, e)
  /\ \/ Sano(e, P) /\ e.pagamenti = d.pagamenti
     \/ \E p \in Pagamenti :
          /\ \A q \in P : q.chiave # p.chiave
          /\ e.pagamenti = d.pagamenti \cup {p}
          /\ Sano(e, P \cup {p})

\* A payment found in a movement.
LEMMA ConPagamentoSano ==
  ASSUME NEW P \in SUBSET Pagamenti, IsFiniteSet(P), NEW d, Sano(d, P), d.pagamenti \subseteq P,
         NEW m \in Movimenti, NEW f \in Fatture, d.stato[f] # "assente",
         NEW importo \in 1 .. ImportoMax,
         RegistratoCon(d, <<m, f>>) \/ \A q \in P : q.chiave # <<m, f>>,
         NEW e, e = ConPagamento(d, m, f, importo)
  PROVE  Computata(P, d, e)
<1>1. d \in Database
  BY DEF Sano
<1>2. CASE RegistratoCon(d, <<m, f>>)
  <2>1. e = d
    BY <1>2 DEF ConPagamento
  <2> QED BY <2>1 DEF Computata, Lavoro
<1>3. CASE ~RegistratoCon(d, <<m, f>>)
  <2> DEFINE a == Incassata(d, f, importo, <<m, f>>, "riconciliazione")
             p == [chiave |-> <<m, f>>, fattura |-> f, importo |-> importo,
                   origine |-> "riconciliazione"]
  <2>0. <<m, f>> \in Chiavi /\ \A q \in P : q.chiave # <<m, f>>
    BY <1>3 DEF Chiavi, Abbinamenti
  <2>9. /\ a = Incassata(d, f, importo, <<m, f>>, "riconciliazione")
        /\ p = [chiave |-> <<m, f>>, fattura |-> f, importo |-> importo,
                origine |-> "riconciliazione"]
    OBVIOUS
  <2>3. p.chiave = <<m, f>>
    OBVIOUS
  <2>10. Coperta(d, P)
    BY DEF Sano
  <2> HIDE DEF a, p
  <2>11. "riconciliazione" \in {"riconciliazione", "manuale"}
    OBVIOUS
  <2>12. Incasso(P, d, f, p, a)
    BY <1>1, <2>0, <2>9, <2>10, <2>11, IncassataSana, ZenonT(30)
  <2>1. /\ a \in Database /\ Coperta(a, P \cup {p})
        /\ p \in Pagamenti /\ a.pagamenti = d.pagamenti \cup {p}
        /\ a.com = d.com
        /\ \A g \in Fatture :
             /\ a.stato[g] = "assente" <=> d.stato[g] = "assente"
             /\ a.stato[g] # d.stato[g] => g = f /\ a.stato[g] = "saldata"
             /\ a.residuo[g] # d.residuo[g] => g = f
    BY <2>12 DEF Incasso
  <2>2. e = IF PuoRicevereSollecito(a.stato[f]) THEN a ELSE Annulla(a, {f})
    BY <1>3, <2>9 DEF ConPagamento
  <2>4. /\ e \in Database /\ e.stato = a.stato /\ e.residuo = a.residuo
        /\ e.pagamenti = a.pagamenti
        /\ \A c \in Comunicazioni :
             /\ e.com[c] \in {d.com[c], "annullata"}
             /\ c[1] = f /\ ~PuoRicevereSollecito(a.stato[f]) => e.com[c] # "programmata"
    <3>1. CASE PuoRicevereSollecito(a.stato[f])
      BY <2>1, <2>2, <3>1
    <3>2. CASE ~PuoRicevereSollecito(a.stato[f])
      <4>1. e = Annulla(a, {f})
        BY <2>2, <3>2
      <4>2. e.residuo = a.residuo
        BY <2>1, <4>1 DEF Annulla, Database
      <4> QED BY <2>1, <4>1, <4>2, AnnullaTipo
    <3> QED BY <3>1, <3>2
  <2>5. \A c \in Comunicazioni : c[1] \in Fatture
    BY TipoComunicazione
  <2>6. SenzaPendenti(e)
    <3> SUFFICES ASSUME NEW c \in Comunicazioni, e.stato[c[1]] \in STATI_TERMINALI,
                        e.com[c] = "programmata"
                 PROVE  FALSE
      BY DEF SenzaPendenti
    <3>1. c[1] \in Fatture /\ d.com[c] = "programmata"
      BY <2>4, <2>5
    <3>2. d.stato[c[1]] \notin STATI_TERMINALI
      BY <3>1 DEF Sano, SenzaPendenti
    <3>3. c[1] = f /\ a.stato[f] = "saldata"
      BY <2>1, <2>4, <3>1, <3>2
    <3> QED BY <2>4, <3>3 DEF PuoRicevereSollecito, STATI_NON_SOLLECITABILI
  <2>7. Coperta(e, P \cup {p})
    BY <2>1, <2>4 DEF Coperta
  <2>8. Lavoro(d, e)
    BY <2>1, <2>4, <2>5 DEF Lavoro
  <2> QED BY <2>0, <2>1, <2>3, <2>4, <2>6, <2>7, <2>8 DEF Computata, Sano
<1> QED BY <1>2, <1>3

-----------------------------------------------------------------------------
(***************************************************************************)
(* What a phase of the cycle reads.                                        *)
(***************************************************************************)
\* Rows see themselves.
LEMMA VistaDiSe ==
  ASSUME NEW d
  PROVE  Vista(d, d, {})
  BY DEF Vista

\* Nothing done is a step of the cycle.
LEMMA LavoroNullo ==
  ASSUME NEW d
  PROVE  Lavoro(d, d)
  BY DEF Lavoro

\* A new query of the cycle.
LEMMA FrescaSana ==
  ASSUME TypeOK, InvRighe
  PROVE  /\ Sano(db, PagamentiNoti)
         /\ Sano(Fresca, PagamentiNoti) /\ Vista(db, Fresca, mie)
         /\ Fresca.pagamenti = PagamentiNoti
         /\ Ritrova(tx, Fresca)
<1>1. PagamentiNoti \in SUBSET Pagamenti /\ db.pagamenti \in SUBSET PagamentiNoti
  BY DEF TypeOK, Database, PagamentiNoti
<1>2. Sano(db, PagamentiNoti) /\ Sano(tx, PagamentiNoti) /\ Vista(db, tx, mie)
  BY <1>1, SanoCresce DEF InvRighe
<1>3. Fresca.pagamenti = PagamentiNoti
  BY SovrascrittoMista DEF TypeOK, Fresca, PagamentiNoti
<1>4. /\ Sano(Fresca, PagamentiNoti) /\ Vista(db, Fresca, mie)
      /\ Ritrova(tx, Fresca)
  <2>1. PICK r : r = Sovrascritto(db, tx, mie)
    OBVIOUS
  <2>2. Sano(r, PagamentiNoti) /\ Vista(db, r, mie)
        /\ Ritrova(tx, r)
    BY <1>2, <2>1, SovrascrittoSano, ZenonT(30)
  <2> QED BY <2>1, <2>2 DEF Fresca
<1> QED BY <1>2, <1>3, <1>4

\* The reminders of one invoice read anew.
LEMMA SollecitiSani ==
  ASSUME TypeOK, InvRighe, NEW e, e = ConSollecitiFreschi
  PROVE  /\ Sano(e, PagamentiNoti) /\ Vista(db, e, mie)
         /\ e.pagamenti = tx.pagamenti /\ e.stato = tx.stato
<1>1. /\ e \in Database /\ e.pagamenti = tx.pagamenti
      /\ e.stato = tx.stato /\ e.residuo = tx.residuo
      /\ \A c \in Comunicazioni :
           e.com[c] = IF <<"com", c>> \in mie THEN tx.com[c] ELSE db.com[c]
  <2>1. Fresca \in Database /\ Mista(Fresca, db, tx, mie)
    BY SovrascrittoMista DEF TypeOK, Fresca
  <2>2. e = [tx EXCEPT !.com = Fresca.com]
    BY DEF ConSollecitiFreschi
  <2>3. e.com = Fresca.com
    BY <2>2 DEF TypeOK, Database
  <2> QED BY <2>1, <2>2, <2>3 DEF TypeOK, Database, Mista
<1>2. Sano(tx, PagamentiNoti) /\ Vista(db, tx, mie)
  BY DEF InvRighe
<1>3. SenzaPendenti(e) /\ Coperta(e, PagamentiNoti)
  BY <1>1, <1>2 DEF Sano, SenzaPendenti, Coperta, Vista
<1>4. Vista(db, e, mie)
  BY <1>1, <1>2 DEF Vista
<1> QED BY <1>1, <1>3, <1>4 DEF Sano

-----------------------------------------------------------------------------
(***************************************************************************)
(* One lemma for all the steps of the cycle before its commit.             *)
(***************************************************************************)
\* The cycle's memory stays in order whatever phase computes it.
LEMMA PassoRigheC ==
  ASSUME TypeOK, InvRighe, db' = db,
         NEW letta, Sano(letta, PagamentiNoti), Vista(db, letta, mie),
         db.pagamenti \cup letta.pagamenti = PagamentiNoti,
         NEW nuova, Computata(PagamentiNoti, letta, nuova),
         mie' = mie \cup Celle(letta, nuova),
         tx' = nuova \/ tx' = Sovrascritto(db, nuova, mie')
  PROVE  /\ InvRighe' /\ tx' \in Database /\ Vista(db, nuova, mie')
         /\ Ritrova(nuova, tx')
<1>1. PICK P \in SUBSET Pagamenti :
        /\ P = db.pagamenti \cup nuova.pagamenti
        /\ IsFiniteSet(P) /\ PagamentiNoti \subseteq P
        /\ \A p, q \in P : p.chiave = q.chiave => p = q
        /\ Sano(nuova, P)
  <2>1. PagamentiNoti \in SUBSET Pagamenti
    BY DEF TypeOK, Database, PagamentiNoti
  <2>2. IsFiniteSet(PagamentiNoti) /\ \A p, q \in PagamentiNoti : p.chiave = q.chiave => p = q
    BY DEF InvRighe
  <2>3. CASE Sano(nuova, PagamentiNoti) /\ nuova.pagamenti = letta.pagamenti
    BY <2>1, <2>2, <2>3
  <2>4. CASE \E p \in Pagamenti :
               /\ \A q \in PagamentiNoti : q.chiave # p.chiave
               /\ nuova.pagamenti = letta.pagamenti \cup {p}
               /\ Sano(nuova, PagamentiNoti \cup {p})
    <3>1. PICK p \in Pagamenti :
               /\ \A q \in PagamentiNoti : q.chiave # p.chiave
               /\ nuova.pagamenti = letta.pagamenti \cup {p}
               /\ Sano(nuova, PagamentiNoti \cup {p})
      BY <2>4
    <3>2. PagamentiNoti \cup {p} = db.pagamenti \cup nuova.pagamenti
      BY <3>1
    <3>3. IsFiniteSet(PagamentiNoti \cup {p})
      BY <2>2, FS_AddElement
    <3> QED BY <2>1, <2>2, <3>1, <3>2, <3>3
  <2> QED BY <2>3, <2>4 DEF Computata
<1>2. nuova \in Database /\ letta \in Database
  BY <1>1 DEF Sano
<1>3. Vista(db, nuova, mie')
  BY <1>2, LavoroVista DEF Computata
<1>4. Sano(db, db.pagamenti) /\ Sano(db, P)
  <2>1. db.pagamenti \in SUBSET P
    BY <1>1
  <2> QED BY <1>1, <2>1, SanoCresce DEF InvRighe
<1>5. /\ Sano(tx', P) /\ Vista(db, tx', mie')
      /\ db.pagamenti \cup tx'.pagamenti = P
      /\ Ritrova(nuova, tx')
  <2>1. CASE tx' = nuova
    BY <1>1, <1>3, <2>1 DEF Ritrova
  <2>2. CASE tx' = Sovrascritto(db, nuova, mie')
    <3>1. tx'.pagamenti = db.pagamenti \cup nuova.pagamenti
      BY <1>2, <2>2, SovrascrittoMista DEF TypeOK
    <3>2. /\ Sano(tx', P) /\ Vista(db, tx', mie')
          /\ Ritrova(nuova, tx')
      <4>1. PICK r : r = Sovrascritto(db, nuova, mie')
        OBVIOUS
      <4>2. Sano(db, P) /\ Sano(nuova, P) /\ Vista(db, nuova, mie')
        BY <1>1, <1>3, <1>4
      <4>3. PICK M : M = mie'
        OBVIOUS
      <4>4. /\ Sano(r, P) /\ Vista(db, r, M)
            /\ Ritrova(nuova, r)
        BY <4>1, <4>2, <4>3, SovrascrittoSano, ZenonT(30)
      <4> QED BY <2>2, <4>1, <4>3, <4>4
    <3> QED BY <1>1, <3>1, <3>2
  <2> QED BY <2>1, <2>2
<1>6. PagamentiNoti' = P
  BY <1>5 DEF PagamentiNoti
<1>7. InvRighe'
  BY <1>1, <1>4, <1>5, <1>6 DEF InvRighe
<1> QED BY <1>3, <1>5, <1>7 DEF Sano

\* What the steps of the cycle before its commit leave alone.
Quieta == UNCHANGED <<db, collegamenti, adesso, azioni, cadute, sessione>>

\* A step of the cycle keeps the invariant if what it reads is in order and
\* what it computes follows from it.
LEMMA PassoMemoria ==
  ASSUME InvC, Quieta,
         fase' \in Fasi \ {"ferma"}, quota' \in Quote,
         partiti' \in [Comunicazioni -> Nat],
         ultimo' \in [tipo : {"nessuno", "escalation", "sollecito", "forzato"},
                      fatture : SUBSET Fatture, comunicazioni : SUBSET Comunicazioni],
         NEW letta, Sano(letta, PagamentiNoti), Vista(db, letta, mie),
         db.pagamenti \cup letta.pagamenti = PagamentiNoti,
         NEW nuova, Computata(PagamentiNoti, letta, nuova),
         mie' = mie \cup Celle(letta, nuova),
         tx' = nuova \/ tx' = Sovrascritto(db, nuova, mie'),
         \A mf \in Abbinamenti : quota'[mf] # 0 => nuova.stato[mf[2]] # "assente",
         fase' = "invii" =>
           \A c \in Comunicazioni : c[1] \in pagate' => tx'.com[c] # "programmata",
         ChiHaPagatoNonRiceve'
  PROVE  InvC'
<1>1. TypeOK /\ InvRighe /\ db' = db /\ sessione' = sessione
  BY DEF InvC, Quieta
<1>2. /\ InvRighe' /\ tx' \in Database
      /\ Ritrova(nuova, tx')
  BY <1>1, PassoRigheC
<1>3. TypeOK'
  BY <1>1, <1>2 DEF TypeOK, Quieta
<1>4. InvSessioni'
  BY <1>1 DEF InvC, InvSessioni
<1>5. InvFasi'
  BY <1>2 DEF InvFasi, Abbinamenti, Ritrova
<1> QED BY <1>2, <1>3, <1>4, <1>5 DEF InvC

-----------------------------------------------------------------------------
(***************************************************************************)
(* The steps of the cycle, one by one.                                     *)
(***************************************************************************)
\* The reconciler gives to an invoice no more than its residual, so what it
\* finds is a quota the cycle can hold.
LEMMA TrovatiTipo ==
  ASSUME NEW d \in Database, IsFiniteSet(d.pagamenti)
  PROVE  /\ Trovati(d) \in Quote
         /\ \A mf \in Abbinamenti : Trovati(d)[mf] # 0 => d.stato[mf[2]] # "assente"
<1> DEFINE res == ResiduiAperti(d)
           dis == Disponibili(d)
<1>1. Ordinate
  BY IncassiAssumption DEF Ordinate
<1>2. res \in [Fatture -> Nat] /\ res \in [Fatture -> 0 .. ImportoMax] /\ ImportoMax \in Nat
  BY ResiduoNaturale, IncassiAssumption DEF ResiduiAperti, Database
<1>3. dis \in [Movimenti -> Nat]
  <2> SUFFICES ASSUME NEW m \in Movimenti PROVE dis[m] \in Nat
    BY DEF Disponibili
  <2> DEFINE P == {p \in d.pagamenti : p.chiave \in {m} \X Fatture}
  <2>1. P \in SUBSET Pagamenti /\ IsFiniteSet(P)
    BY FS_Subset DEF Database
  <2>2. Allocato(d, m) = SommaImporti(P)
    BY DEF Allocato
  <2> HIDE DEF P
  <2>3. Allocato(d, m) \in Nat
    BY <2>1, <2>2, ImportiNaturali
  <2> QED BY <2>3, IncassiAssumption DEF Disponibili, Massimo
<1>4. Trovati(d) = [mf \in Abbinamenti |->
                      IF Aperta(d, mf[2]) THEN Quota(res, dis, mf[1], mf[2]) ELSE 0]
  BY DEF Trovati, Riconcilia, Abbinamenti
<1> HIDE DEF res, dis
<1>5. ASSUME NEW m \in Movimenti, NEW f \in Fatture
      PROVE  Quota(res, dis, m, f) \in 0 .. ImportoMax
  <2>1. Quota(res, dis, m, f) \in Nat
    BY <1>1, <1>2, <1>3, QuoteEntroIlDisponibile
  <2>2. InizioFattura(res, f) \in Nat
    <3> DEFINE F == {k \in Fatture : Debitore[k] = Debitore[f] /\ PrimaInScadenza(k, f)}
    <3>1. IsFiniteSet(F) /\ Naturale(res, F)
      BY <1>1, <1>2, FS_Subset DEF Ordinate, Naturale
    <3>2. InizioFattura(res, f) = SommaSu(res, F)
      BY DEF InizioFattura
    <3> HIDE DEF F
    <3> QED BY <3>1, <3>2, SommaNaturale
  <2>3. InizioMovimento(dis, m) \in Nat
    <3> DEFINE M == {n \in Movimenti : Mittente[n] = Mittente[m] /\ Posto[n] < Posto[m]}
    <3>1. IsFiniteSet(M) /\ Naturale(dis, M)
      BY <1>1, <1>3, FS_Subset DEF Ordinate, Naturale
    <3>2. InizioMovimento(dis, m) = SommaSu(dis, M)
      BY DEF InizioMovimento
    <3> HIDE DEF M
    <3> QED BY <3>1, <3>2, SommaNaturale
  <2>4. res[f] \in Nat /\ res[f] <= ImportoMax /\ dis[m] \in Nat
    BY <1>2, <1>3
  <2>5. Quota(res, dis, m, f) <= res[f]
    BY <2>2, <2>3, <2>4 DEF Quota, Massimo, Minimo
  <2> QED BY <1>2, <2>1, <2>4, <2>5
<1>6. Trovati(d) \in Quote
  <2> SUFFICES ASSUME NEW mf \in Abbinamenti
               PROVE  (IF Aperta(d, mf[2]) THEN Quota(res, dis, mf[1], mf[2]) ELSE 0)
                        \in 0 .. ImportoMax
    BY <1>4 DEF Quote
  <2>1. mf[1] \in Movimenti /\ mf[2] \in Fatture
    BY DEF Abbinamenti
  <2> QED BY <1>2, <1>5, <2>1
<1>7. \A mf \in Abbinamenti : Trovati(d)[mf] # 0 => d.stato[mf[2]] # "assente"
  BY <1>4 DEF Aperta, StatiFattura
<1> QED BY <1>6, <1>7

\* The cycle's own memory is something it may start from.
LEMMA MemoriaPropria ==
  ASSUME InvC
  PROVE  /\ TypeOK /\ InvRighe
         /\ Sano(tx, PagamentiNoti) /\ Vista(db, tx, mie)
         /\ db.pagamenti \cup tx.pagamenti = PagamentiNoti
         /\ PagamentiNoti \in SUBSET Pagamenti /\ IsFiniteSet(PagamentiNoti)
         /\ \A mf \in Abbinamenti : quota[mf] # 0 => tx.stato[mf[2]] # "assente"
  BY DEF InvC, InvRighe, InvFasi, PagamentiNoti, TypeOK, Database

\* A step that hands no message to the channel.
LEMMA MutoTipi ==
  ASSUME TypeOK, CicloMuto
  PROVE  /\ Quieta /\ partiti' \in [Comunicazioni -> Nat]
         /\ ultimo' \in [tipo : {"nessuno", "escalation", "sollecito", "forzato"},
                         fatture : SUBSET Fatture, comunicazioni : SUBSET Comunicazioni]
         /\ ChiHaPagatoNonRiceve'
  BY DEF TypeOK, CicloMuto, Quieta, NessunMessaggio, Messaggio, ChiHaPagatoNonRiceve

\* ImportaFatturaC keeps the invariant.
LEMMA ImportaFatturaCInv ==
  ASSUME InvC, NEW f \in Fatture, ImportaFatturaC(f)
  PROVE  InvC'
<1>1. /\ tx.stato[f] = "assente" /\ tx' = Importata(ConFlusso(tx), f)
      /\ mie' = mie \cup Celle(tx, tx') /\ quota' = quota /\ fase' = "import"
      /\ CicloMuto
  BY DEF ImportaFatturaC, Scrive
<1>2. PICK P \in SUBSET Pagamenti : P = PagamentiNoti /\ IsFiniteSet(P) /\ Sano(tx, P)
  BY MemoriaPropria
<1>3. PICK e : e = tx'
  OBVIOUS
<1>4. e = Importata(ConFlusso(tx), f)
  BY <1>1, <1>3
<1>5. Sano(e, P) /\ Lavoro(tx, e) /\ e.pagamenti = tx.pagamenti
  <2>1. PICK d : d = tx
    OBVIOUS
  <2>2. Sano(d, P) /\ d.stato[f] = "assente" /\ e = Importata(ConFlusso(d), f)
    BY <1>1, <1>2, <1>4, <2>1
  <2>3. Sano(e, P) /\ Lavoro(d, e) /\ e.pagamenti = d.pagamenti
    BY <1>2, <2>2, ImportataSana
  <2> QED BY <2>1, <2>3
<1>6. Computata(PagamentiNoti, tx, e)
  BY <1>2, <1>5 DEF Computata
<1>7. \A mf \in Abbinamenti : quota'[mf] # 0 => e.stato[mf[2]] # "assente"
  BY <1>1, <1>5, MemoriaPropria DEF Lavoro, Abbinamenti
<1>8. quota' \in Quote /\ fase' \in Fasi \ {"ferma"} /\ fase' # "invii"
  BY <1>1, MemoriaPropria DEF TypeOK, Fasi
<1> QED BY <1>1, <1>3, <1>6, <1>7, <1>8, MemoriaPropria, MutoTipi, PassoMemoria

\* A phase that reads what it had in memory and computes nothing from it.
LEMMA FaseOziosa ==
  ASSUME InvC, NEW prima, NEW dopo \in Fasi \ {"ferma", "invii"},
         FaseSuccessiva(prima, dopo, tx, tx), CicloMuto, quota' \in Quote,
         \A mf \in Abbinamenti : quota'[mf] # 0 => tx.stato[mf[2]] # "assente"
  PROVE  InvC'
<1>1. /\ fase' = dopo /\ mie' = mie \cup Celle(tx, tx)
      /\ tx' = Sovrascritto(db, tx, mie')
  BY DEF FaseSuccessiva, Scrive
<1>2. Computata(PagamentiNoti, tx, tx)
  BY MemoriaPropria, LavoroNullo DEF Computata
<1> QED BY <1>1, <1>2, MemoriaPropria, MutoTipi, PassoMemoria

\* FineImportC and RilevaIncassiC keep the invariant.
LEMMA FineImportCInv ==
  ASSUME InvC, FineImportC
  PROVE  InvC'
<1>1. FaseSuccessiva("import", "movimenti", tx, tx) /\ CicloMuto /\ quota' = quota
  BY DEF FineImportC
<1>2. "movimenti" \in Fasi \ {"ferma", "invii"} /\ quota' \in Quote
  BY <1>1, MemoriaPropria DEF Fasi, TypeOK
<1>3. \A mf \in Abbinamenti : quota'[mf] # 0 => tx.stato[mf[2]] # "assente"
  BY <1>1, MemoriaPropria
<1> QED BY <1>1, <1>2, <1>3, FaseOziosa

\* See above.
LEMMA RilevaIncassiCInv ==
  ASSUME InvC, RilevaIncassiC
  PROVE  InvC'
<1>1. /\ FaseSuccessiva("movimenti", "incassi", tx, tx) /\ CicloMuto
      /\ quota' = IF "psd2" \in collegamenti THEN Trovati(tx') ELSE quota
      /\ fase' = "incassi" /\ mie' = mie \cup Celle(tx, tx)
      /\ tx' = Sovrascritto(db, tx, mie')
  BY DEF RilevaIncassiC, FaseSuccessiva, Scrive
<1>2. Computata(PagamentiNoti, tx, tx)
  BY MemoriaPropria, LavoroNullo DEF Computata
<1>3. /\ InvRighe' /\ tx' \in Database /\ Ritrova(tx, tx')
  BY <1>1, <1>2, MemoriaPropria, PassoRigheC DEF CicloMuto
<1>4. IsFiniteSet(tx'.pagamenti)
  <2>1. tx'.pagamenti \subseteq PagamentiNoti' /\ IsFiniteSet(PagamentiNoti')
    BY <1>3 DEF InvRighe, PagamentiNoti
  <2> QED BY <2>1, FS_Subset
<1>5. /\ quota' \in Quote
      /\ \A mf \in Abbinamenti : quota'[mf] # 0 => tx'.stato[mf[2]] # "assente"
  <2>1. CASE "psd2" \in collegamenti
    <3>1. PICK e \in Database : e = tx' /\ IsFiniteSet(e.pagamenti)
      BY <1>3, <1>4
    <3>2. /\ Trovati(e) \in Quote
          /\ \A mf \in Abbinamenti : Trovati(e)[mf] # 0 => e.stato[mf[2]] # "assente"
      BY <3>1, TrovatiTipo
    <3> QED BY <1>1, <2>1, <3>1, <3>2
  <2>2. CASE "psd2" \notin collegamenti
    BY <1>1, <1>3, <2>2, MemoriaPropria DEF TypeOK, Ritrova, Abbinamenti
  <2> QED BY <2>1, <2>2
<1>6. TypeOK'
  BY <1>1, <1>3, <1>5, MemoriaPropria, MutoTipi DEF TypeOK, Quieta, Fasi
<1>7. InvSessioni'
  BY <1>1 DEF InvC, InvSessioni, CicloMuto
<1>8. InvFasi'
  BY <1>1, <1>5, MemoriaPropria, MutoTipi DEF InvFasi
<1> QED BY <1>3, <1>6, <1>7, <1>8 DEF InvC

\* ApplicaPagamentoC keeps the invariant: the key is either in the memory of
\* the cycle, and the payment is skipped, or nowhere.
LEMMA ApplicaPagamentoCInv ==
  ASSUME InvC, NEW m \in Movimenti, NEW f \in Fatture, ApplicaPagamentoC(m, f)
  PROVE  InvC'
<1>1. PICK letta, e, importo :
        /\ letta = ConSollecitiFreschi /\ importo = quota[<<m, f>>] /\ importo > 0
        /\ e = tx' /\ e = ConPagamento(letta, m, f, importo)
        /\ mie' = mie \cup Celle(letta, e)
        /\ quota' = [quota EXCEPT ![<<m, f>>] = 0]
        /\ fase' = "incassi" /\ CicloMuto
        /\ RegistratoCon(db, <<m, f>>) => RegistratoCon(tx, <<m, f>>)
  BY DEF ApplicaPagamentoC, Scrive
<1>2. <<m, f>> \in Abbinamenti /\ <<m, f>>[2] = f /\ quota \in Quote
  BY MemoriaPropria DEF Abbinamenti, TypeOK
<1>3. importo \in 1 .. ImportoMax
  BY <1>1, <1>2, IncassiAssumption DEF Quote
<1>4. PICK P \in SUBSET Pagamenti : P = PagamentiNoti /\ IsFiniteSet(P)
  BY MemoriaPropria
<1>5. /\ Sano(letta, P) /\ Vista(db, letta, mie)
      /\ letta.pagamenti = tx.pagamenti /\ letta.stato = tx.stato
  BY <1>1, <1>4, MemoriaPropria, SollecitiSani
<1>6. letta.pagamenti \subseteq P /\ db.pagamenti \cup letta.pagamenti = P
  BY <1>4, <1>5 DEF PagamentiNoti
<1>7. letta.stato[f] # "assente"
  BY <1>1, <1>2, <1>5, MemoriaPropria
<1>8. RegistratoCon(letta, <<m, f>>) \/ \A q \in P : q.chiave # <<m, f>>
  BY <1>1, <1>5, <1>6 DEF RegistratoCon
<1>9. Computata(P, letta, e)
  BY <1>1, <1>3, <1>4, <1>5, <1>6, <1>7, <1>8, ConPagamentoSano
<1>10. Computata(PagamentiNoti, letta, e) /\ Lavoro(letta, e)
  BY <1>4, <1>9 DEF Computata
<1>11. quota' \in Quote
  BY <1>1, <1>2, IncassiAssumption DEF Quote
<1>12. \A mf \in Abbinamenti : quota'[mf] # 0 => e.stato[mf[2]] # "assente"
  <2> SUFFICES ASSUME NEW mf \in Abbinamenti, quota'[mf] # 0 PROVE e.stato[mf[2]] # "assente"
    OBVIOUS
  <2>1. quota[mf] # 0 /\ mf[2] \in Fatture
    BY <1>1, <1>2 DEF Quote, Abbinamenti
  <2> QED BY <1>5, <1>10, <2>1, MemoriaPropria DEF Lavoro
<1>13. fase' \in Fasi \ {"ferma"} /\ fase' # "invii"
  BY <1>1 DEF Fasi
<1>14. /\ Sano(letta, PagamentiNoti) /\ Vista(db, letta, mie)
       /\ db.pagamenti \cup letta.pagamenti = PagamentiNoti
       /\ mie' = mie \cup Celle(letta, e) /\ tx' = e
  BY <1>1, <1>4, <1>5, <1>6
<1>15. /\ Quieta /\ partiti' \in [Comunicazioni -> Nat]
       /\ ultimo' \in [tipo : {"nessuno", "escalation", "sollecito", "forzato"},
                       fatture : SUBSET Fatture, comunicazioni : SUBSET Comunicazioni]
       /\ ChiHaPagatoNonRiceve'
  BY <1>1, MemoriaPropria, MutoTipi
<1> QED BY <1>10, <1>11, <1>12, <1>13, <1>14, <1>15, PassoMemoria

\* AggiornaPosizioniC keeps the invariant.
LEMMA AggiornaPosizioniCInv ==
  ASSUME InvC, AggiornaPosizioniC
  PROVE  InvC'
<1>1. PICK letta, e :
        /\ letta = Fresca /\ e = PosizioniAggiornate(letta)
        /\ fase' = "pause" /\ mie' = mie \cup Celle(letta, e)
        /\ tx' = Sovrascritto(db, e, mie')
        /\ quota' = quota /\ CicloMuto
        /\ \A mf \in Abbinamenti : quota[mf] = 0
  BY DEF AggiornaPosizioniC, FaseSuccessiva, Scrive
<1>2. /\ Sano(letta, PagamentiNoti) /\ Vista(db, letta, mie)
      /\ letta.pagamenti = PagamentiNoti
  BY <1>1, MemoriaPropria, FrescaSana
<1>3. Computata(PagamentiNoti, letta, e)
  BY <1>1, <1>2, FasiSane DEF Computata
<1>4. /\ quota' \in Quote /\ fase' \in Fasi \ {"ferma"} /\ fase' # "invii"
      /\ \A mf \in Abbinamenti : quota'[mf] # 0 => e.stato[mf[2]] # "assente"
      /\ db.pagamenti \cup letta.pagamenti = PagamentiNoti
  BY <1>1, <1>2, MemoriaPropria DEF TypeOK, Fasi, PagamentiNoti
<1>5. /\ Quieta /\ partiti' \in [Comunicazioni -> Nat]
      /\ ultimo' \in [tipo : {"nessuno", "escalation", "sollecito", "forzato"},
                      fatture : SUBSET Fatture, comunicazioni : SUBSET Comunicazioni]
      /\ ChiHaPagatoNonRiceve'
  BY <1>1, MemoriaPropria, MutoTipi
<1> QED BY <1>1, <1>2, <1>3, <1>4, <1>5, PassoMemoria

\* RiprendiPauseScaduteC keeps the invariant.
LEMMA RiprendiPauseScaduteCInv ==
  ASSUME InvC, RiprendiPauseScaduteC
  PROVE  InvC'
<1>1. PICK letta, e :
        /\ letta = tx /\ e = PauseRiprese(letta)
        /\ fase' = "escalation" /\ mie' = mie \cup Celle(letta, e)
        /\ tx' = Sovrascritto(db, e, mie')
        /\ quota' = quota /\ CicloMuto
  BY DEF RiprendiPauseScaduteC, FaseSuccessiva, Scrive
<1>2. /\ Sano(letta, PagamentiNoti) /\ Vista(db, letta, mie)
      /\ db.pagamenti \cup letta.pagamenti = PagamentiNoti
  BY <1>1, MemoriaPropria
<1>3. Computata(PagamentiNoti, letta, e) /\ Lavoro(letta, e)
  BY <1>1, <1>2, FasiSane DEF Computata
<1>4. /\ quota' \in Quote /\ fase' \in Fasi \ {"ferma"} /\ fase' # "invii"
      /\ \A mf \in Abbinamenti : quota'[mf] # 0 => e.stato[mf[2]] # "assente"
  BY <1>1, <1>3, MemoriaPropria DEF TypeOK, Fasi, Lavoro, Abbinamenti
<1>5. /\ Quieta /\ partiti' \in [Comunicazioni -> Nat]
      /\ ultimo' \in [tipo : {"nessuno", "escalation", "sollecito", "forzato"},
                      fatture : SUBSET Fatture, comunicazioni : SUBSET Comunicazioni]
      /\ ChiHaPagatoNonRiceve'
  BY <1>1, MemoriaPropria, MutoTipi
<1> QED BY <1>1, <1>2, <1>3, <1>4, <1>5, PassoMemoria

\* EseguiEscalationC keeps the invariant.
LEMMA EseguiEscalationCInv ==
  ASSUME InvC, NEW f \in Fatture, EseguiEscalationC(f)
  PROVE  InvC'
<1>1. PICK letta, e :
        /\ letta = ConSollecitiFreschi /\ e = Escalata(letta, f)
        /\ fase = "escalation" /\ fase' = fase /\ mie' = mie \cup Celle(letta, e)
        /\ tx' = e /\ tx.stato[f] = "gestione" /\ quota' = quota
        /\ Quieta /\ Manda(Messaggio("escalation", {f}, {}), {})
  BY DEF EseguiEscalationC, Scrive, DaEscalare, Quieta
<1>2. /\ Sano(letta, PagamentiNoti) /\ Vista(db, letta, mie)
      /\ letta.pagamenti = tx.pagamenti /\ letta.stato = tx.stato
      /\ db.pagamenti \cup letta.pagamenti = PagamentiNoti
  BY <1>1, MemoriaPropria, SollecitiSani
<1>3. Sano(e, PagamentiNoti) /\ Lavoro(letta, e) /\ e.pagamenti = letta.pagamenti
  BY <1>1, <1>2, EscalataSana
<1>4. Computata(PagamentiNoti, letta, e)
  BY <1>3 DEF Computata
<1>5. /\ quota' \in Quote /\ fase' \in Fasi \ {"ferma"} /\ fase' # "invii"
      /\ \A mf \in Abbinamenti : quota'[mf] # 0 => e.stato[mf[2]] # "assente"
  BY <1>1, <1>2, <1>3, MemoriaPropria DEF TypeOK, Fasi, Lavoro, Abbinamenti
<1>6. /\ partiti' \in [Comunicazioni -> Nat]
      /\ ultimo' \in [tipo : {"nessuno", "escalation", "sollecito", "forzato"},
                      fatture : SUBSET Fatture, comunicazioni : SUBSET Comunicazioni]
      /\ ChiHaPagatoNonRiceve'
  BY <1>1, MemoriaPropria DEF TypeOK, Manda, Messaggio, ChiHaPagatoNonRiceve
<1> QED BY <1>1, <1>2, <1>4, <1>5, <1>6, PassoMemoria

\* VagliaDovuteC keeps the invariant: what was settled when the reminders were
\* read has none planned in what the cycle read.
LEMMA VagliaDovuteCInv ==
  ASSUME InvC, VagliaDovuteC
  PROVE  InvC'
<1>1. PICK letta, e :
        /\ letta = Fresca /\ e = DovuteVagliate(letta)
        /\ fase' = "invii" /\ mie' = mie \cup Celle(letta, e)
        /\ tx' = Sovrascritto(db, e, mie')
        /\ pagate' = {f \in Fatture : db.stato[f] = "saldata"}
        /\ quota' = quota /\ CicloMuto
  BY DEF VagliaDovuteC, FaseSuccessiva, Scrive
<1>2. /\ Sano(letta, PagamentiNoti) /\ Vista(db, letta, mie)
      /\ letta.pagamenti = PagamentiNoti /\ Ritrova(tx, letta)
      /\ db.pagamenti \cup letta.pagamenti = PagamentiNoti
  BY <1>1, MemoriaPropria, FrescaSana DEF PagamentiNoti
<1>3. Computata(PagamentiNoti, letta, e) /\ Lavoro(letta, e) /\ e \in Database
  BY <1>1, <1>2, FasiSane DEF Computata, Sano
<1>4. /\ quota' \in Quote /\ fase' \in Fasi \ {"ferma"}
      /\ \A mf \in Abbinamenti : quota'[mf] # 0 => e.stato[mf[2]] # "assente"
  BY <1>1, <1>2, <1>3, MemoriaPropria DEF TypeOK, Fasi, Lavoro, Ritrova, Abbinamenti
<1>5. /\ Quieta /\ partiti' \in [Comunicazioni -> Nat]
      /\ ultimo' \in [tipo : {"nessuno", "escalation", "sollecito", "forzato"},
                      fatture : SUBSET Fatture, comunicazioni : SUBSET Comunicazioni]
      /\ ChiHaPagatoNonRiceve' /\ db' = db
  BY <1>1, MemoriaPropria, MutoTipi DEF CicloMuto
<1>6. Vista(db, e, mie')
  BY <1>1, <1>2, <1>3, <1>5, MemoriaPropria, PassoRigheC
<1>7. ASSUME NEW c \in Comunicazioni, c[1] \in pagate'
      PROVE  tx'.com[c] # "programmata"
  <2>1. db.stato[c[1]] = "saldata" /\ c[1] \in Fatture
    BY <1>1, <1>7
  <2>2. db.com[c] # "programmata"
    BY <2>1 DEF InvC, InvRighe, Sano, SenzaPendenti, STATI_TERMINALI
  <2>3. Mista(tx', db, e, mie')
    BY <1>1, <1>3, MemoriaPropria, SovrascrittoMista DEF TypeOK
  <2> QED BY <1>6, <2>1, <2>2, <2>3 DEF Mista, Vista
<1> QED BY <1>1, <1>2, <1>3, <1>4, <1>5, <1>7, PassoMemoria

\* InviaGruppoC keeps the invariant.
LEMMA InviaGruppoCInv ==
  ASSUME InvC, NEW cliente \in Clienti, NEW canale \in Canali, NEW b \in BOOLEAN,
         InviaGruppoC(cliente, canale, b)
  PROVE  InvC'
<1>1. PICK C \in SUBSET Comunicazioni :
        /\ C = Gruppo(tx, cliente, canale)
        /\ \A c \in C : tx.com[c] = "programmata"
  <2>1. Gruppo(tx, cliente, canale) \in SUBSET Comunicazioni
    BY DEF Gruppo, DaInviare
  <2>2. \A c \in Gruppo(tx, cliente, canale) : tx.com[c] = "programmata"
    BY DEF Gruppo, DaInviare, Dovuta
  <2> QED BY <2>1, <2>2
<1>11. PICK x \in {"inviata", "fallita"} : x = Esito(b)
  BY DEF Esito
<1>12. PICK e : e = tx'
  OBVIOUS
<1>2. /\ e = ConEsito(tx, C, x)
      /\ fase = "invii" /\ fase' = fase /\ mie' = mie \cup Celle(tx, e)
      /\ quota' = quota /\ pagate' = pagate /\ Quieta
      /\ Manda(Messaggio("sollecito", {c[1] : c \in C}, C), IF b THEN C ELSE {})
  BY <1>1, <1>11, <1>12 DEF InviaGruppoC, Scrive, Quieta
<1>3. Sano(e, PagamentiNoti) /\ Lavoro(tx, e) /\ e.pagamenti = tx.pagamenti
  BY <1>1, <1>2, MemoriaPropria, ConEsitoSano
<1>4. Computata(PagamentiNoti, tx, e)
  BY <1>3 DEF Computata
<1>5. /\ quota' \in Quote /\ fase' \in Fasi \ {"ferma"}
      /\ \A mf \in Abbinamenti : quota'[mf] # 0 => e.stato[mf[2]] # "assente"
  BY <1>2, <1>3, MemoriaPropria DEF TypeOK, Fasi, Lavoro, Abbinamenti
<1>6. \A c \in Comunicazioni : c[1] \in pagate => tx.com[c] # "programmata"
  BY <1>2 DEF InvC, InvFasi
<1>7. /\ partiti' \in [Comunicazioni -> Nat]
      /\ ultimo' = Messaggio("sollecito", {c[1] : c \in C}, C)
  BY <1>2, MemoriaPropria DEF TypeOK, Manda
<1>8. {c[1] : c \in C} \subseteq Fatture /\ {c[1] : c \in C} \cap pagate = {}
  BY <1>1, <1>6, TipoComunicazione
<1>9. /\ ultimo' \in [tipo : {"nessuno", "escalation", "sollecito", "forzato"},
                      fatture : SUBSET Fatture, comunicazioni : SUBSET Comunicazioni]
      /\ ChiHaPagatoNonRiceve'
  BY <1>1, <1>2, <1>7, <1>8 DEF Messaggio, ChiHaPagatoNonRiceve
<1>10. \A c \in Comunicazioni : c[1] \in pagate' => tx'.com[c] # "programmata"
  BY <1>2, <1>6, <1>12, MemoriaPropria DEF TypeOK, Database, ConEsito
<1> QED BY <1>2, <1>12, <1>4, <1>5, <1>7, <1>9, <1>10, MemoriaPropria, PassoMemoria

-----------------------------------------------------------------------------
(***************************************************************************)
(* Commits.                                                                *)
(***************************************************************************)
\* What an open request is.
LEMMA TipoRichiesta ==
  ASSUME NEW q \in SessioniAperte
  PROVE  /\ q.letto \in Database /\ q.op \in Operazioni /\ q.passo \in {"letta", "pronta"}
         /\ q # Libera
         /\ q.op.tipo \in {"paga", "pausa", "riprendi", "annulla", "forza"}
         /\ q.op.tipo \in {"paga", "pausa", "riprendi"} => q.op.fattura \in Fatture
         /\ q.op.tipo = "paga" =>
              q.op.importo \in ImportiManuali /\ q.op.chiave \in ChiaviManuali
         /\ q.op.tipo \in {"annulla", "forza"} => q.op.com \in Comunicazioni
<1>1. q.letto \in Database /\ q.op \in Operazioni /\ q.passo \in {"letta", "pronta"}
  BY DEF SessioniAperte
<1>2. q # Libera
  BY <1>1 DEF Libera
<1>3. ASSUME NEW o \in Operazioni
      PROVE  /\ o.tipo \in {"paga", "pausa", "riprendi", "annulla", "forza"}
             /\ o.tipo \in {"paga", "pausa", "riprendi"} => o.fattura \in Fatture
             /\ o.tipo = "paga" => o.importo \in ImportiManuali /\ o.chiave \in ChiaviManuali
             /\ o.tipo \in {"annulla", "forza"} => o.com \in Comunicazioni
  BY DEF Operazioni
<1> QED BY <1>1, <1>2, <1>3

\* A request stands whatever the others commit.
LEMMA RichiestaResta ==
  ASSUME NEW d, NEW e, e.pagamenti \in SUBSET Pagamenti, IsFiniteSet(e.pagamenti),
         Avanza(d, e), NEW q \in SessioniAperte, RichiestaNota(d, q)
  PROVE  RichiestaNota(e, q)
<1>1. /\ q.letto.pagamenti \subseteq e.pagamenti
      /\ \A f \in Fatture : q.letto.stato[f] # "assente" => e.stato[f] # "assente"
  BY DEF RichiestaNota, Avanza
<1>2. CASE q.op.tipo # "paga"
  BY <1>1, <1>2 DEF RichiestaNota
<1>3. CASE q.op.tipo = "paga"
  <2> DEFINE f == q.op.fattura
  <2>1. f \in Fatture /\ q.letto \in Database
    BY <1>3, TipoRichiesta
  <2>2. d.stato[f] # "assente"
    BY <1>3, <2>1 DEF RichiestaNota, STATI_CREDITO_APERTO
  <2>3. /\ Scoperto(d.pagamenti, f) \in Int /\ Scoperto(e.pagamenti, f) \in Int
        /\ Scoperto(e.pagamenti, f) <= Scoperto(d.pagamenti, f)
    <3>1. d.pagamenti \in SUBSET e.pagamenti
      BY DEF Avanza
    <3> QED BY <2>1, <3>1, ScopertoCala
  <2>4. q.letto.residuo[f] \in Int /\ q.letto.residuo[f] >= Scoperto(d.pagamenti, f)
    BY <1>3, <2>1, ResiduoNaturale DEF RichiestaNota, PagamentoNoto
  <2>5. q.letto.residuo[f] >= Scoperto(e.pagamenti, f)
    BY <2>3, <2>4
  <2>6. ASSUME q.passo = "pronta", NEW c \in Comunicazioni, c[1] = f, e.com[c] = "programmata"
        PROVE  q.letto.com[c] = "programmata"
    BY <1>3, <2>2, <2>6 DEF RichiestaNota, PagamentoNoto, Avanza
  <2> QED BY <1>1, <1>3, <2>5, <2>6 DEF RichiestaNota, PagamentoNoto
<1> QED BY <1>2, <1>3

\* When the committed rows advance, the requests that stay open stand.
LEMMA SessioniRestano ==
  ASSUME InvC, Avanza(db, db'), db' \in Database, IsFiniteSet(db'.pagamenti),
         \A s \in Sessioni : sessione'[s] \in {Libera, sessione[s]},
         sessione' \in [Sessioni -> {Libera} \cup SessioniAperte]
  PROVE  InvSessioni'
<1>1. db'.pagamenti \in SUBSET Pagamenti
  BY DEF Database
<1>2. ASSUME NEW s \in Sessioni, sessione'[s] # Libera
      PROVE  RichiestaNota(db', sessione'[s])
  <2>1. /\ sessione'[s] = sessione[s] /\ sessione[s] \in SessioniAperte
        /\ RichiestaNota(db, sessione[s])
    BY <1>2 DEF InvC, InvSessioni
  <2>2. PICK q \in SessioniAperte : q = sessione[s]
    BY <2>1
  <2>3. PICK e : e = db'
    OBVIOUS
  <2>4. RichiestaNota(e, q)
    BY <1>1, <2>1, <2>2, <2>3, RichiestaResta
  <2> QED BY <2>1, <2>2, <2>3, <2>4
<1> QED BY <1>2 DEF InvSessioni

\* The initial state has no requests and no payments.
LEMMA InvCInit == InitC => InvC
<1> SUFFICES ASSUME InitC PROVE InvC
  OBVIOUS
<1>1. TypeOK /\ db = DbVuoto /\ tx = DbVuoto /\ DbVuoto \in Database /\ mie = {}
  BY InvInit DEF InitC, Init, Inv, TypeOK
<1>2. /\ DbVuoto.pagamenti = {}
      /\ \A f \in Fatture : DbVuoto.stato[f] = "assente" /\ DbVuoto.residuo[f] = 0
  BY DEF DbVuoto
<1>3. Sano(DbVuoto, {})
  BY <1>1, <1>2, TipoComunicazione DEF Sano, SenzaPendenti, STATI_TERMINALI, Coperta
<1>4. InvRighe
  BY <1>1, <1>2, <1>3, FS_EmptySet, VistaDiSe DEF InvRighe, PagamentiNoti
<1>5. InvSessioni
  BY DEF InitC, InvSessioni
<1>6. InvFasi
  BY <1>1 DEF InitC, Init, InvFasi, ChiHaPagatoNonRiceve, NessunMessaggio, Messaggio
<1> QED BY <1>1, <1>4, <1>5, <1>6 DEF InvC

\* AvviaCicloC keeps the invariant.
LEMMA AvviaCicloCInv ==
  ASSUME InvC, NEW attivi \in StatiCollegamenti, AvviaCicloC(attivi)
  PROVE  InvC'
<1>1. TypeOK'
  BY IncassiAssumption DEF InvC, TypeOK, AvviaCicloC, AvviaCiclo, Fasi, NessunMessaggio, Messaggio
<1>2. InvSessioni'
  BY DEF InvC, InvSessioni, AvviaCicloC, AvviaCiclo
<1>3. InvRighe'
  BY DEF InvC, InvRighe, PagamentiNoti, AvviaCicloC, AvviaCiclo
<1>4. InvFasi'
  BY DEF InvC, InvFasi, ChiHaPagatoNonRiceve, NessunMessaggio, Messaggio, AvviaCicloC, AvviaCiclo
<1> QED BY <1>1, <1>2, <1>3, <1>4 DEF InvC

\* PassaIlTempoC keeps the invariant.
LEMMA PassaIlTempoCInv ==
  ASSUME InvC, PassaIlTempoC
  PROVE  InvC'
<1>1. TypeOK'
  BY DEF InvC, TypeOK, PassaIlTempoC, PassaIlTempo, NessunMessaggio, Messaggio
<1>2. InvSessioni'
  BY DEF InvC, InvSessioni, PassaIlTempoC, PassaIlTempo
<1>3. InvRighe'
  BY DEF InvC, InvRighe, PagamentiNoti, PassaIlTempoC, PassaIlTempo
<1>4. InvFasi'
  BY DEF InvC, InvFasi, ChiHaPagatoNonRiceve, NessunMessaggio, Messaggio, PassaIlTempoC, PassaIlTempo
<1> QED BY <1>1, <1>2, <1>3, <1>4 DEF InvC

\* CadutaC keeps the invariant.
LEMMA CadutaCInv ==
  ASSUME InvC, CadutaC
  PROVE  InvC'
<1>1. /\ db' = db /\ tx' = db /\ mie' = {} /\ fase' = "ferma" /\ pagate' = {}
      /\ quota' = [mf \in Abbinamenti |-> 0] /\ ultimo' = NessunMessaggio
      /\ cadute < MaxCadute /\ cadute' = cadute + 1 /\ collegamenti' = {}
      /\ adesso' = adesso /\ partiti' = partiti /\ azioni' = azioni /\ sessione' = sessione
  BY DEF CadutaC, Caduta
<1>2. TypeOK'
  BY <1>1, IncassiAssumption DEF InvC, TypeOK, Quote, Fasi, NessunMessaggio, Messaggio
<1>3. InvSessioni'
  BY <1>1 DEF InvC, InvSessioni
<1>4. InvRighe'
  <2>1. PagamentiNoti' = db.pagamenti
    BY <1>1 DEF PagamentiNoti
  <2>2. db.pagamenti \subseteq PagamentiNoti
    BY DEF PagamentiNoti
  <2>3. IsFiniteSet(db.pagamenti)
    BY <2>2, FS_Subset DEF InvC, InvRighe
  <2> QED BY <1>1, <2>1, <2>2, <2>3, VistaDiSe DEF InvC, InvRighe
<1>5. InvFasi'
  BY <1>1 DEF InvFasi, ChiHaPagatoNonRiceve, NessunMessaggio, Messaggio
<1> QED BY <1>2, <1>3, <1>4, <1>5 DEF InvC

\* ConcludiCicloC keeps the invariant: the commit of the cycle withdraws nothing
\* an open request counts on.
LEMMA ConcludiCicloCInv ==
  ASSUME InvC, ConcludiCicloC
  PROVE  InvC'
<1>1. PICK r, e :
        /\ r = Fresca /\ e = Notificate(r, collegamenti)
        /\ db' = e /\ tx' = e /\ mie' = {} /\ fase' = "ferma" /\ pagate' = {}
        /\ collegamenti' = {} /\ ultimo' = NessunMessaggio
        /\ quota' = quota /\ adesso' = adesso /\ partiti' = partiti
        /\ azioni' = azioni /\ cadute' = cadute /\ sessione' = sessione
  BY DEF ConcludiCicloC
<1>2. /\ Sano(r, PagamentiNoti) /\ Vista(db, r, mie)
      /\ r.pagamenti = PagamentiNoti /\ Ritrova(tx, r)
      /\ Mista(r, db, tx, mie)
  BY <1>1, MemoriaPropria, FrescaSana, SovrascrittoMista DEF TypeOK, Fresca
<1>3. /\ Sano(e, PagamentiNoti) /\ e.pagamenti = PagamentiNoti
      /\ e.stato = r.stato /\ e.residuo = r.residuo /\ e.com = r.com
  <2>1. collegamenti \in SUBSET Collegamenti
    BY MemoriaPropria DEF TypeOK
  <2> QED BY <1>1, <1>2, <2>1, NotificateSane
<1>4. e \in Database /\ IsFiniteSet(e.pagamenti)
  BY <1>3, MemoriaPropria DEF Sano
<1>5. Avanza(db, e)
  <2>1. ASSUME NEW c \in Comunicazioni, db.stato[c[1]] # "assente", e.com[c] = "programmata"
        PROVE  db.com[c] = "programmata"
    BY <1>2, <1>3, <2>1, MemoriaPropria DEF Mista, Vista
  <2>2. ASSUME NEW f \in Fatture, db.stato[f] # "assente" PROVE e.stato[f] # "assente"
    BY <1>2, <1>3, <2>2 DEF Vista
  <2> QED BY <1>3, <2>1, <2>2 DEF Avanza, PagamentiNoti
<1>6. InvSessioni'
  <2>1. /\ Avanza(db, db') /\ db' \in Database /\ IsFiniteSet(db'.pagamenti)
        /\ \A s \in Sessioni : sessione'[s] \in {Libera, sessione[s]}
        /\ sessione' \in [Sessioni -> {Libera} \cup SessioniAperte]
    BY <1>1, <1>4, <1>5 DEF InvC, InvSessioni
  <2> QED BY <2>1, SessioniRestano
<1>7. InvRighe'
  <2>1. PagamentiNoti' = PagamentiNoti
    BY <1>1, <1>3 DEF PagamentiNoti
  <2> QED BY <1>1, <1>3, <2>1, VistaDiSe DEF InvC, InvRighe
<1>8. TypeOK'
  BY <1>1, <1>4, MemoriaPropria DEF TypeOK, Fasi, NessunMessaggio, Messaggio
<1>9. InvFasi'
  BY <1>1, <1>2, <1>3, MemoriaPropria
  DEF InvFasi, Ritrova, Abbinamenti, ChiHaPagatoNonRiceve, NessunMessaggio, Messaggio
<1> QED BY <1>6, <1>7, <1>8, <1>9 DEF InvC

-----------------------------------------------------------------------------
(***************************************************************************)
(* What a request computes from what it has read, and what its commit      *)
(* makes of the committed rows.                                            *)
(***************************************************************************)
\* A request that registers no payment moves open invoices among the open
\* states and takes reminders out of "programmata".
Ritocco(l, n) ==
  /\ n \in Database
  /\ n.pagamenti = l.pagamenti
  /\ \A f \in Fatture :
       /\ n.residuo[f] = l.residuo[f]
       /\ n.stato[f] # l.stato[f] =>
            l.stato[f] \in STATI_CREDITO_APERTO /\ n.stato[f] \in STATI_CREDITO_APERTO
  /\ \A c \in Comunicazioni : n.com[c] # l.com[c] => n.com[c] # "programmata"

\* A payment p lowers the residual of its invoice by no more than its amount,
\* and if it settles the invoice withdraws the reminders it knows.
Saldo(l, n, p) ==
  /\ n \in Database
  /\ p \in Pagamenti /\ n.pagamenti = l.pagamenti \cup {p}
  /\ \A f \in Fatture :
       f # p.fattura => n.stato[f] = l.stato[f] /\ n.residuo[f] = l.residuo[f]
  /\ n.residuo[p.fattura] >= l.residuo[p.fattura] - p.importo
  /\ n.stato[p.fattura] # l.stato[p.fattura] =>
       n.stato[p.fattura] = "saldata" /\ l.residuo[p.fattura] <= p.importo
  /\ \A c \in Comunicazioni :
       /\ n.com[c] # l.com[c] => n.com[c] # "programmata"
       /\ n.stato[p.fattura] = "saldata" /\ c[1] = p.fattura => n.com[c] # "programmata"

\* The pauses, their end, a cancelled or forced reminder.
LEMMA EseguitaRitocco ==
  ASSUME NEW q \in SessioniAperte, NEW d, RichiestaNota(d, q), q.op.tipo # "paga",
         NEW l, l = q.letto, NEW n, n = Eseguita(l, q.op)
  PROVE  Ritocco(l, n)
<1>1. l \in Database
  BY TipoRichiesta
<1>2. CASE q.op.tipo \in {"pausa", "riprendi"}
  <2>1. /\ q.op.fattura \in Fatture
        /\ l.stato[q.op.fattura] \in STATI_CREDITO_APERTO
    BY <1>2, TipoRichiesta DEF RichiestaNota
  <2>2. PICK g \in Fatture, x \in STATI_CREDITO_APERTO, t \in FinePausa \cup {Mai} :
          /\ n = ConStato(l, g, x, t)
          /\ l.stato[g] \in STATI_CREDITO_APERTO
    <3>1. CASE q.op.tipo = "pausa"
      <4>1. n = ConStato(l, q.op.fattura, "pausa", q.op.fino)
        BY <3>1 DEF Eseguita
      <4>2. q.op.fino \in FinePausa
        <5>1. \A o \in Operazioni : o.tipo = "pausa" => o.fino \in FinePausa
          BY DEF Operazioni
        <5> QED BY <3>1, <5>1, TipoRichiesta
      <4> QED BY <2>1, <4>1, <4>2 DEF STATI_CREDITO_APERTO
    <3>2. CASE q.op.tipo = "riprendi"
      <4>1. n = ConStato(l, q.op.fattura, "gestione", Mai)
        BY <3>2 DEF Eseguita
      <4> QED BY <2>1, <4>1 DEF STATI_CREDITO_APERTO
    <3> QED BY <1>2, <3>1, <3>2
  <2>3. /\ n \in Database /\ n.pagamenti = l.pagamenti
        /\ n.residuo = l.residuo /\ n.com = l.com
        /\ \A f \in Fatture : n.stato[f] # l.stato[f] => f = g /\ n.stato[f] = x
    <3> DEFINE S == [l.stato EXCEPT ![g] = x]
               T == [l.pausaFinoA EXCEPT ![g] = t]
    <3>1. n = [l EXCEPT !.stato = S, !.pausaFinoA = T]
      BY <2>2 DEF ConStato
    <3>2. /\ S \in [Fatture -> StatiFattura \cup {"assente"}]
          /\ \A f \in Fatture : S[f] # l.stato[f] => f = g /\ S[f] = x
      BY <1>1 DEF Database, StatiFattura, STATI_CREDITO_APERTO
    <3>3. T \in [Fatture -> FinePausa \cup {Mai}]
      BY <1>1 DEF Database
    <3> HIDE DEF S, T
    <3>4. n \in Database
      <4>1. [l EXCEPT !.stato = S] \in Database
        BY <1>1, <3>2, StatoTipo
      <4>2. \A y \in Database : [y EXCEPT !.pausaFinoA = T] \in Database
        BY <3>3 DEF Database
      <4> QED BY <3>1, <4>1, <4>2
    <3>5. n.pagamenti = l.pagamenti /\ n.residuo = l.residuo /\ n.com = l.com /\ n.stato = S
      BY <1>1, <3>1 DEF Database
    <3> QED BY <3>2, <3>4, <3>5
  <2> QED BY <2>2, <2>3 DEF Ritocco
<1>3. CASE q.op.tipo \in {"annulla", "forza"}
  <2>1. PICK c \in Comunicazioni, x \in {"annullata", "inviata", "fallita"} :
          n = [l EXCEPT !.com[c] = x]
    <3>1. q.op.com \in Comunicazioni
      BY <1>3, TipoRichiesta
    <3>2. CASE q.op.tipo = "annulla"
      BY <3>1, <3>2 DEF Eseguita
    <3>3. CASE q.op.tipo = "forza"
      <4>1. n = [l EXCEPT !.com[q.op.com] = Esito(q.op.consegnato)]
        BY <3>3 DEF Eseguita
      <4> QED BY <3>1, <4>1 DEF Esito
    <3> QED BY <1>3, <3>2, <3>3
  <2>2. /\ n \in Database /\ n.pagamenti = l.pagamenti
        /\ n.residuo = l.residuo /\ n.stato = l.stato
        /\ \A k \in Comunicazioni : n.com[k] # l.com[k] => n.com[k] = x
    <3> DEFINE C == [l.com EXCEPT ![c] = x]
    <3>1. /\ C \in [Comunicazioni -> StatiComunicazione \cup {"assente"}]
          /\ \A k \in Comunicazioni : C[k] # l.com[k] => C[k] = x
      BY <1>1 DEF Database, StatiComunicazione
    <3>2. n = [l EXCEPT !.com = C]
      BY <2>1
    <3> HIDE DEF C
    <3> QED BY <1>1, <3>1, <3>2 DEF Database
  <2> QED BY <2>2 DEF Ritocco
<1> QED BY <1>2, <1>3, TipoRichiesta

\* A manual payment.
LEMMA EseguitaSaldo ==
  ASSUME NEW q \in SessioniAperte, NEW d, RichiestaNota(d, q), q.op.tipo = "paga",
         NEW l, l = q.letto, NEW n, n = Eseguita(l, q.op)
  PROVE  \E p \in Pagamenti :
           p.chiave = q.op.chiave /\ p.fattura = q.op.fattura /\ Saldo(l, n, p)
<1>1. /\ l \in Database
      /\ l.stato[q.op.fattura] \in STATI_CREDITO_APERTO
  BY TipoRichiesta DEF RichiestaNota
<1>2. PICK f \in Fatture, importo \in 1 .. ImportoMax, k \in Chiavi :
        /\ f = q.op.fattura /\ importo = q.op.importo /\ k = q.op.chiave
        /\ n = PagataAMano(l, f, importo, k)
  <2>1. /\ q.op.fattura \in Fatture /\ q.op.importo \in 1 .. ImportoMax
        /\ q.op.chiave \in Chiavi
    BY TipoRichiesta, IncassiAssumption DEF Chiavi
  <2>2. n = PagataAMano(l, q.op.fattura, q.op.importo, q.op.chiave)
    BY DEF Eseguita
  <2> QED BY <2>1, <2>2
<1> DEFINE a == Incassata(l, f, importo, k, "manuale")
           r == ResiduoDopoIncasso(l.residuo[f], importo)
           p == [chiave |-> k, fattura |-> f, importo |-> importo, origine |-> "manuale"]
           x == l.posizione[f]
           nuova == StatoPosizione({a.stato[g] : g \in InPosizione(a, x)})
<1>3. /\ p \in Pagamenti /\ p.chiave = k /\ p.fattura = f /\ p.importo = importo
  BY DEF Pagamenti
<1>4. a \in Database /\ a.com = l.com /\ a.posizione = l.posizione
  <2>1. "manuale" \in {"riconciliazione", "manuale"}
    OBVIOUS
  <2> QED BY <1>1, <2>1, IncassataTipo
<1>5. /\ a.pagamenti = l.pagamenti \cup {p}
      /\ \A g \in Fatture :
           /\ a.residuo[g] = IF g = f THEN r ELSE l.residuo[g]
           /\ a.stato[g] = IF g = f THEN StatoDopoPagamento(l.stato[f], r) ELSE l.stato[g]
  BY <1>1 DEF Incassata, Database
<1>6. /\ l.residuo[f] \in Nat /\ importo \in Nat /\ r \in Nat
      /\ r >= l.residuo[f] - importo
      /\ r <= 0 => l.residuo[f] <= importo
  <2>1. l.residuo[f] \in Nat
    BY <1>1, ResiduoNaturale
  <2>2. ImportoMax \in Nat
    BY IncassiAssumption
  <2> QED BY <2>1, <2>2 DEF ResiduoDopoIncasso
<1>7. n = IF a.stato[f] # "saldata" THEN a
          ELSE [Annulla(a, {f}) EXCEPT !.statoPos[x] = nuova]
  BY <1>2 DEF PagataAMano
<1>8. nuova \in {"aperta", "chiusa"}
  BY DEF StatoPosizione
<1> HIDE DEF a, r, p, x, nuova
<1>9. /\ n \in Database /\ n.pagamenti = a.pagamenti
      /\ n.stato = a.stato /\ n.residuo = a.residuo
      /\ \A c \in Comunicazioni :
           n.com[c] = IF a.stato[f] = "saldata" /\ c[1] = f /\ l.com[c] = "programmata"
                      THEN "annullata" ELSE l.com[c]
  <2>1. CASE a.stato[f] # "saldata"
    BY <1>4, <1>7, <2>1
  <2>2. CASE a.stato[f] = "saldata"
    <3>1. PICK b : b = Annulla(a, {f})
      OBVIOUS
    <3>2. /\ b \in Database /\ b.stato = a.stato /\ b.pagamenti = a.pagamenti
          /\ \A c \in Comunicazioni :
               b.com[c] = IF c[1] = f /\ a.com[c] = "programmata" THEN "annullata" ELSE a.com[c]
      BY <1>4, <3>1, AnnullaTipo
    <3>3. b.residuo = a.residuo
      BY <1>4, <3>1 DEF Annulla, Database
    <3>4. n = [b EXCEPT !.statoPos[x] = nuova]
      BY <1>7, <2>2, <3>1
    <3>5. /\ n \in Database /\ n.pagamenti = b.pagamenti
          /\ n.stato = b.stato /\ n.residuo = b.residuo /\ n.com = b.com
      <4> DEFINE S == [b.statoPos EXCEPT ![x] = nuova]
      <4>1. S \in [Fatture -> {"assente", "aperta", "chiusa"}]
        BY <1>8, <3>2 DEF Database
      <4>2. n = [b EXCEPT !.statoPos = S]
        BY <3>4
      <4> HIDE DEF S
      <4>3. n \in Database
        BY <3>2, <4>1, <4>2, StatoPosTipo
      <4> QED BY <3>2, <4>2, <4>3 DEF Database
    <3> QED BY <1>4, <2>2, <3>2, <3>3, <3>5
  <2> QED BY <2>1, <2>2
<1>10. /\ a.stato[f] # l.stato[f] => a.stato[f] = "saldata" /\ l.residuo[f] <= importo
       /\ a.residuo[f] >= l.residuo[f] - importo
  BY <1>5, <1>6 DEF StatoDopoPagamento
<1>11. Saldo(l, n, p)
  BY <1>3, <1>5, <1>9, <1>10 DEF Saldo
<1> QED BY <1>2, <1>3, <1>11

\* The rows e are the committed ones d with what n changes of l.
Fusa(e, d, l, n) ==
  /\ e \in Database /\ e.pagamenti = d.pagamenti \cup n.pagamenti
  /\ \A f \in Fatture :
       /\ e.stato[f] = IF n.stato[f] # l.stato[f] THEN n.stato[f] ELSE d.stato[f]
       /\ e.residuo[f] = IF n.residuo[f] # l.residuo[f] THEN n.residuo[f] ELSE d.residuo[f]
  /\ \A c \in Comunicazioni :
       e.com[c] = IF n.com[c] # l.com[c] THEN n.com[c] ELSE d.com[c]

\* What the commit of a request makes of the committed rows.
LEMMA ConfermatoFuso ==
  ASSUME NEW d \in Database, NEW l \in Database, NEW n \in Database,
         NEW r, r = Sovrascritto(d, n, Celle(l, n)),
         NEW e, e = [r EXCEPT !.flusso = d.flusso, !.passi = d.passi,
                              !.preavviso = d.preavviso, !.avviso = d.avviso]
  PROVE  Fusa(e, d, l, n)
<1> DEFINE N == Celle(l, n)
<1>1. /\ \A f \in Fatture : <<"stato", f>> \in N <=> l.stato[f] # n.stato[f]
      /\ \A f \in Fatture : <<"residuo", f>> \in N <=> l.residuo[f] # n.residuo[f]
      /\ \A c \in Comunicazioni : <<"com", c>> \in N <=> l.com[c] # n.com[c]
  BY CelleDiverse
<1> HIDE DEF N
<1>2. r \in Database /\ Mista(r, d, n, N) /\ r.pagamenti = d.pagamenti \cup n.pagamenti
  BY SovrascrittoMista DEF N
<1>3. /\ d.flusso \in Flussi \cup {0} /\ d.passi \in [Flussi -> SUBSET Passi]
      /\ d.preavviso \in [Fatture -> {"assente", "viva", "letta"}]
      /\ d.avviso \in [Collegamenti -> {"assente", "viva", "letta"}]
  BY DEF Database
<1>4. e \in Database
  <2>1. r.pagamenti \in SUBSET Pagamenti
    BY <1>2 DEF Database
  <2>2. [r EXCEPT !.pagamenti = r.pagamenti, !.flusso = d.flusso, !.passi = d.passi,
                  !.preavviso = d.preavviso, !.avviso = d.avviso] \in Database
    BY <1>2, <1>3, <2>1, AltriCampi, ZenonT(30)
  <2>3. e = [r EXCEPT !.pagamenti = r.pagamenti, !.flusso = d.flusso, !.passi = d.passi,
                  !.preavviso = d.preavviso, !.avviso = d.avviso]
    BY <1>2 DEF Database
  <2> QED BY <2>2, <2>3
<1>5. /\ e.pagamenti = r.pagamenti /\ e.stato = r.stato
      /\ e.residuo = r.residuo /\ e.com = r.com
  BY <1>2 DEF Database
<1>6. ASSUME NEW f \in Fatture
      PROVE  /\ e.stato[f] = IF n.stato[f] # l.stato[f] THEN n.stato[f] ELSE d.stato[f]
             /\ e.residuo[f] = IF n.residuo[f] # l.residuo[f] THEN n.residuo[f] ELSE d.residuo[f]
  <2>1. /\ r.stato[f] = IF <<"stato", f>> \in N THEN n.stato[f] ELSE d.stato[f]
        /\ r.residuo[f] = IF <<"residuo", f>> \in N THEN n.residuo[f] ELSE d.residuo[f]
    BY <1>2 DEF Mista
  <2> QED BY <1>1, <1>5, <2>1
<1>7. ASSUME NEW c \in Comunicazioni
      PROVE  e.com[c] = IF n.com[c] # l.com[c] THEN n.com[c] ELSE d.com[c]
  <2>1. r.com[c] = IF <<"com", c>> \in N THEN n.com[c] ELSE d.com[c]
    BY <1>2 DEF Mista
  <2> QED BY <1>1, <1>5, <2>1
<1>8. e.pagamenti = d.pagamenti \cup n.pagamenti
  BY <1>2, <1>5
<1> QED BY <1>4, <1>6, <1>7, <1>8 DEF Fusa

\* A commit keeps the rows sound, and withdraws nothing that the cycle or
\* another request counts on.
Confermata(d, e) ==
  /\ e \in Database /\ Sano(e, e.pagamenti) /\ d.pagamenti \subseteq e.pagamenti
  /\ \A f \in Fatture : e.stato[f] = "assente" <=> d.stato[f] = "assente"
  /\ \A c \in Comunicazioni : e.com[c] = "programmata" => d.com[c] = "programmata"

\* The commit of a request that registers no payment.
LEMMA RitoccoConfermato ==
  ASSUME NEW d, Sano(d, d.pagamenti), NEW l \in Database, NEW n, Ritocco(l, n),
         l.pagamenti \subseteq d.pagamenti,
         \A f \in Fatture : l.stato[f] # "assente" => d.stato[f] # "assente",
         NEW e, Fusa(e, d, l, n)
  PROVE  Confermata(d, e) /\ e.pagamenti = d.pagamenti
<1>1. e \in Database /\ d \in Database /\ e.pagamenti = d.pagamenti
  BY DEF Fusa, Ritocco, Sano
<1>2. ASSUME NEW f \in Fatture
      PROVE  /\ e.residuo[f] = d.residuo[f]
             /\ e.stato[f] = "assente" <=> d.stato[f] = "assente"
             /\ e.stato[f] \in STATI_TERMINALI => e.stato[f] = d.stato[f]
  BY DEF Fusa, Ritocco, STATI_CREDITO_APERTO, STATI_TERMINALI
<1>3. ASSUME NEW c \in Comunicazioni, e.com[c] = "programmata"
      PROVE  d.com[c] = "programmata"
  BY <1>3 DEF Fusa, Ritocco
<1>4. SenzaPendenti(e)
  BY <1>2, <1>3, TipoComunicazione DEF Sano, SenzaPendenti
<1>5. Coperta(e, e.pagamenti)
  BY <1>1, <1>2 DEF Sano, Coperta, STATI_TERMINALI
<1> QED BY <1>1, <1>2, <1>3, <1>4, <1>5 DEF Confermata, Sano

\* The commit of a payment, whatever was committed since it was read.
LEMMA SaldoConfermato ==
  ASSUME NEW d, Sano(d, d.pagamenti), IsFiniteSet(d.pagamenti), NEW l \in Database, NEW n,
         NEW p \in Pagamenti, Saldo(l, n, p), \A q \in d.pagamenti : q.chiave # p.chiave,
         l.pagamenti \subseteq d.pagamenti,
         l.stato[p.fattura] \in STATI_CREDITO_APERTO, d.stato[p.fattura] # "assente",
         l.residuo[p.fattura] >= Scoperto(d.pagamenti, p.fattura),
         \A c \in Comunicazioni :
           c[1] = p.fattura /\ d.com[c] = "programmata" => l.com[c] = "programmata",
         NEW e, Fusa(e, d, l, n)
  PROVE  Confermata(d, e) /\ e.pagamenti = d.pagamenti \cup {p}
<1> DEFINE f == p.fattura
<1>1. /\ e \in Database /\ d \in Database /\ e.pagamenti = d.pagamenti \cup {p}
      /\ d.pagamenti \in SUBSET Pagamenti /\ p \notin d.pagamenti
  BY DEF Fusa, Saldo, Sano, Database
<1>2. f \in Fatture /\ p.importo \in Nat
  BY IncassiAssumption DEF Pagamenti
<1>3. ASSUME NEW c \in Comunicazioni, e.com[c] = "programmata"
      PROVE  /\ d.com[c] = "programmata"
             /\ c[1] = f => n.com[c] = "programmata"
  BY <1>3 DEF Fusa, Saldo
<1>4. ASSUME NEW g \in Fatture, g # f
      PROVE  e.stato[g] = d.stato[g] /\ e.residuo[g] = d.residuo[g]
  BY <1>4 DEF Fusa, Saldo
<1>5. /\ e.stato[f] # d.stato[f] =>
           e.stato[f] = "saldata" /\ n.stato[f] = "saldata" /\ l.residuo[f] <= p.importo
      /\ e.residuo[f] = d.residuo[f] \/ e.residuo[f] = n.residuo[f]
      /\ n.residuo[f] >= l.residuo[f] - p.importo
  <2>1. /\ n.residuo[f] >= l.residuo[f] - p.importo
        /\ n.stato[f] # l.stato[f] => n.stato[f] = "saldata" /\ l.residuo[f] <= p.importo
    BY DEF Saldo
  <2>2. /\ e.stato[f] = IF n.stato[f] # l.stato[f] THEN n.stato[f] ELSE d.stato[f]
        /\ e.residuo[f] = IF n.residuo[f] # l.residuo[f] THEN n.residuo[f] ELSE d.residuo[f]
    BY <1>2 DEF Fusa
  <2> QED BY <2>1, <2>2
<1>6. SenzaPendenti(e)
  <2> SUFFICES ASSUME NEW c \in Comunicazioni, e.stato[c[1]] \in STATI_TERMINALI,
                      e.com[c] = "programmata"
               PROVE  FALSE
    BY DEF SenzaPendenti
  <2>1. c[1] \in Fatture
    BY TipoComunicazione
  <2>2. CASE e.stato[c[1]] = d.stato[c[1]]
    BY <1>3, <2>2 DEF Sano, SenzaPendenti
  <2>3. CASE c[1] = f /\ n.stato[f] = "saldata"
    BY <1>3, <2>3 DEF Saldo
  <2> QED BY <1>4, <1>5, <2>1, <2>2, <2>3
<1>7. Coperta(e, e.pagamenti)
  <2> SUFFICES ASSUME NEW g \in Fatture
               PROVE  /\ e.stato[g] = "assente" => e.residuo[g] = 0
                      /\ e.stato[g] # "assente" => e.residuo[g] >= Scoperto(e.pagamenti, g)
                      /\ e.stato[g] = "saldata" => Scoperto(e.pagamenti, g) <= 0
    BY DEF Coperta
  <2>1. /\ Scoperto(d.pagamenti, g) \in Int
        /\ Scoperto(e.pagamenti, g) = Scoperto(d.pagamenti, g) - (IF g = f THEN p.importo ELSE 0)
    BY <1>1, ScopertoDopo, ScopertoCala
  <2>2. /\ d.stato[g] = "assente" => d.residuo[g] = 0
        /\ d.stato[g] # "assente" => d.residuo[g] >= Scoperto(d.pagamenti, g)
        /\ d.stato[g] = "saldata" => Scoperto(d.pagamenti, g) <= 0
    BY DEF Sano, Coperta
  <2>3. CASE g # f
    BY <1>4, <2>1, <2>2, <2>3
  <2>4. CASE g = f
    <3>1. l.residuo[f] \in Int /\ n.residuo[f] \in Int /\ d.residuo[f] \in Int
      BY <1>1, <1>2, ResiduoNaturale DEF Saldo
    <3>2. e.stato[f] # "assente"
      BY <1>5
    <3>3. e.residuo[f] >= Scoperto(e.pagamenti, f)
      BY <1>2, <1>5, <2>1, <2>2, <2>4, <3>1
    <3>4. e.stato[f] = "saldata" => Scoperto(e.pagamenti, f) <= 0
      BY <1>2, <1>5, <2>1, <2>2, <2>4, <3>1
    <3> QED BY <2>4, <3>2, <3>3, <3>4
  <2> QED BY <2>3, <2>4
<1>8. \A g \in Fatture : e.stato[g] = "assente" <=> d.stato[g] = "assente"
  BY <1>4, <1>5
<1> QED BY <1>1, <1>3, <1>6, <1>7, <1>8 DEF Confermata, Sano

\* What Conferma commits: at most one payment more, under a key that neither
\* the committed rows nor the cycle has.
LEMMA ConfermatoSano ==
  ASSUME InvC, NEW s \in Sessioni, Conferma(s)
  PROVE  /\ Confermata(db, db')
         /\ \/ db'.pagamenti = db.pagamenti
            \/ \E p \in Pagamenti :
                 /\ \A q \in PagamentiNoti : q.chiave # p.chiave
                 /\ db'.pagamenti = db.pagamenti \cup {p}
<1>0. PICK q \in SessioniAperte : q = sessione[s] /\ RichiestaNota(db, q)
  BY DEF InvC, InvSessioni, Conferma
<1>1. PICK d, l, n :
        /\ q = sessione[s] /\ d = db /\ l = q.letto /\ n = Eseguita(l, q.op)
        /\ RichiestaNota(d, q)
  BY <1>0
<1>2. /\ l \in Database /\ d \in Database /\ Sano(d, d.pagamenti)
      /\ IsFiniteSet(d.pagamenti)
  <2>1. d.pagamenti \subseteq PagamentiNoti
    BY <1>1 DEF PagamentiNoti
  <2> QED BY <1>1, <2>1, TipoRichiesta, FS_Subset DEF InvC, InvRighe, TypeOK
<1>3. /\ l.pagamenti \subseteq d.pagamenti
      /\ \A f \in Fatture : l.stato[f] # "assente" => d.stato[f] # "assente"
      /\ q.op.tipo = "paga" =>
           l.stato[q.op.fattura] \in STATI_CREDITO_APERTO /\ PagamentoNoto(d, q)
  BY <1>1 DEF RichiestaNota
<1>4. PICK r, e :
        /\ r = Sovrascritto(d, n, Celle(l, n))
        /\ e = [r EXCEPT !.flusso = d.flusso, !.passi = d.passi,
                         !.preavviso = d.preavviso, !.avviso = d.avviso]
        /\ db' = e
  BY <1>1 DEF Conferma, Confermato
<1>5. CASE q.op.tipo # "paga"
  <2>1. Ritocco(l, n)
    BY <1>1, <1>5, EseguitaRitocco
  <2>2. Fusa(e, d, l, n)
    BY <1>2, <1>4, <2>1, ConfermatoFuso DEF Ritocco
  <2>3. Confermata(d, e) /\ e.pagamenti = d.pagamenti
    BY <1>2, <1>3, <2>1, <2>2, RitoccoConfermato
  <2> QED BY <1>1, <1>4, <2>3
<1>6. CASE q.op.tipo = "paga"
  <2>1. PICK p \in Pagamenti :
          p.chiave = q.op.chiave /\ p.fattura = q.op.fattura /\ Saldo(l, n, p)
    BY <1>1, <1>6, EseguitaSaldo
  <2>2. \A k \in PagamentiNoti : k.chiave # p.chiave
    BY <1>1, <1>6, <2>1 DEF Conferma, ChiaveOccupata, RegistratoCon, PagamentiNoti
  <2>3. Fusa(e, d, l, n)
    BY <1>2, <1>4, <2>1, ConfermatoFuso DEF Saldo
  <2>4. q.passo = "pronta"
    BY <1>1, <1>6 DEF Conferma, Pronta
  <2>5. \A k \in d.pagamenti : k.chiave # p.chiave
    BY <1>1, <2>2 DEF PagamentiNoti
  <2>6. /\ l.stato[p.fattura] \in STATI_CREDITO_APERTO /\ d.stato[p.fattura] # "assente"
        /\ l.residuo[p.fattura] >= Scoperto(d.pagamenti, p.fattura)
        /\ \A c \in Comunicazioni :
             c[1] = p.fattura /\ d.com[c] = "programmata" => l.com[c] = "programmata"
    <3>1. p.fattura \in Fatture
      BY DEF Pagamenti
    <3> QED BY <1>1, <1>3, <1>6, <2>1, <2>4, <3>1 DEF PagamentoNoto, STATI_CREDITO_APERTO
  <2>7. Confermata(d, e) /\ e.pagamenti = d.pagamenti \cup {p}
    BY <1>2, <1>3, <2>1, <2>3, <2>5, <2>6, SaldoConfermato
  <2> QED BY <1>1, <1>4, <2>2, <2>7
<1> QED BY <1>5, <1>6

-----------------------------------------------------------------------------
(***************************************************************************)
(* The steps of the requests.                                              *)
(***************************************************************************)
\* A request that moves on, with the rows it now has in memory.
LEMMA SessioneAvanza ==
  ASSUME InvC, db' = db, NEW s \in Sessioni, NEW q \in SessioniAperte, RichiestaNota(db, q),
         sessione' = [sessione EXCEPT ![s] = q]
  PROVE  InvSessioni'
<1>1. /\ sessione' \in [Sessioni -> {Libera} \cup SessioniAperte]
      /\ \A t \in Sessioni : sessione'[t] = IF t = s THEN q ELSE sessione[t]
  BY DEF InvC, InvSessioni
<1>2. ASSUME NEW t \in Sessioni, sessione'[t] # Libera
      PROVE  RichiestaNota(db', sessione'[t])
  <2>1. CASE t = s
    BY <1>1, <2>1
  <2>2. CASE t # s
    BY <1>1, <1>2, <2>2 DEF InvC, InvSessioni
  <2> QED BY <2>1, <2>2
<1> QED BY <1>1, <1>2 DEF InvSessioni

\* The rest of the invariant does not look at the requests.
LEMMA RigheFerme ==
  ASSUME InvC, db' = db, UNCHANGED <<tx, fase, quota, mie, pagate>>, ChiHaPagatoNonRiceve'
  PROVE  InvRighe' /\ InvFasi'
<1>1. InvRighe'
  BY DEF InvC, InvRighe, PagamentiNoti
<1>2. InvFasi'
  BY DEF InvC, InvFasi
<1> QED BY <1>1, <1>2

\* Chiede keeps the invariant: what a request reads is what is committed.
LEMMA ChiedeInv ==
  ASSUME InvC, NEW s \in Sessioni, NEW o \in Operazioni, Chiede(s, o)
  PROVE  InvC'
<1> DEFINE q == [passo |-> "letta", op |-> o, letto |-> db]
<1>1. /\ db' = db /\ sessione' = [sessione EXCEPT ![s] = q]
      /\ UNCHANGED <<tx, fase, quota, mie, pagate>>
      /\ UNCHANGED <<collegamenti, adesso, cadute, partiti, ultimo>>
      /\ azioni < MaxAzioni /\ azioni' = azioni + 1 /\ Ammessa(o)
  BY DEF Chiede, RichiestaFerma
<1>2. TypeOK'
  BY <1>1, IncassiAssumption DEF InvC, TypeOK
<1>3. q \in SessioniAperte /\ q.op = o /\ q.letto = db /\ q.passo = "letta"
  BY DEF SessioniAperte, InvC, TypeOK
<1> HIDE DEF q
<1>4. RichiestaNota(db, q)
  <2>1. ASSUME o.tipo \in {"paga", "pausa", "riprendi"}
        PROVE  db.stato[o.fattura] \in STATI_CREDITO_APERTO
    BY <1>1, <2>1 DEF Ammessa, STATI_CREDITO_APERTO
  <2>2. ASSUME o.tipo = "paga"
        PROVE  PagamentoNoto(db, q)
    <3>1. o.fattura \in Fatture /\ db.stato[o.fattura] # "assente"
      BY <1>3, <2>1, <2>2, TipoRichiesta DEF STATI_CREDITO_APERTO
    <3> QED BY <1>3, <3>1 DEF PagamentoNoto, InvC, InvRighe, Sano, Coperta
  <2> QED BY <1>3, <2>1, <2>2 DEF RichiestaNota
<1>5. InvSessioni'
  BY <1>1, <1>3, <1>4, SessioneAvanza
<1>6. InvRighe' /\ InvFasi'
  <2>1. ChiHaPagatoNonRiceve'
    BY <1>1 DEF InvC, InvFasi, ChiHaPagatoNonRiceve
  <2> QED BY <1>1, <2>1, RigheFerme
<1> QED BY <1>2, <1>5, <1>6 DEF InvC

\* RegistraIncasso keeps the invariant: the invoice as it was read, the
\* reminders as they are now.
LEMMA RegistraIncassoInv ==
  ASSUME InvC, NEW s \in Sessioni, RegistraIncasso(s)
  PROVE  InvC'
<1>0. sessione[s] # Libera
  BY DEF RegistraIncasso, Libera
<1>1. PICK q \in SessioniAperte : q = sessione[s]
  BY <1>0 DEF InvC, InvSessioni
<1> DEFINE f == q.op.fattura
           S == [db.stato EXCEPT ![f] = q.letto.stato[f]]
           R == [db.residuo EXCEPT ![f] = q.letto.residuo[f]]
           G == [db.pausaFinoA EXCEPT ![f] = q.letto.pausaFinoA[f]]
           l == [db EXCEPT !.stato = S, !.residuo = R, !.pausaFinoA = G]
           n == [passo |-> "pronta", op |-> q.op, letto |-> l]
<1>2. /\ q.op.tipo = "paga" /\ q.passo = "letta"
      /\ sessione' = [sessione EXCEPT ![s].passo = "pronta", ![s].letto = l]
      /\ db' = db /\ UNCHANGED <<tx, fase, quota, mie, pagate>>
      /\ UNCHANGED <<collegamenti, adesso, cadute, partiti, ultimo, azioni>>
  BY <1>1 DEF RegistraIncasso, RichiestaFerma
<1>3. /\ q.letto \in Database /\ db \in Database /\ f \in Fatture /\ RichiestaNota(db, q)
  BY <1>0, <1>1, <1>2, TipoRichiesta DEF InvC, InvSessioni, TypeOK
<1>4. /\ S \in [Fatture -> StatiFattura \cup {"assente"}] /\ R \in [Fatture -> 0 .. ImportoMax]
      /\ G \in [Fatture -> FinePausa \cup {Mai}]
      /\ \A g \in Fatture : S[g] = IF g = f THEN q.letto.stato[f] ELSE db.stato[g]
      /\ R[f] = q.letto.residuo[f]
  BY <1>3 DEF Database
<1> HIDE DEF S, R, G
<1>5. /\ l \in Database /\ l.stato = S /\ l.residuo = R
      /\ l.com = db.com /\ l.pagamenti = db.pagamenti
  BY <1>3, <1>4 DEF Database
<1> HIDE DEF l
<1>6. /\ n \in SessioniAperte
      /\ n.passo = "pronta" /\ n.op = q.op /\ n.letto = l
  BY <1>5, TipoRichiesta DEF SessioniAperte
<1>7. sessione' = [sessione EXCEPT ![s] = n]
  <2>1. \A y : [q EXCEPT !.passo = "pronta", !.letto = y]
                = [[q EXCEPT !.passo = "pronta"] EXCEPT !.letto = y]
    OBVIOUS
  <2>2. [q EXCEPT !.passo = "pronta"] = [passo |-> "pronta", op |-> q.op, letto |-> q.letto]
    BY DEF SessioniAperte
  <2>3. \A y : [[passo |-> "pronta", op |-> q.op, letto |-> q.letto] EXCEPT !.letto = y]
                = [passo |-> "pronta", op |-> q.op, letto |-> y]
    OBVIOUS
  <2>4. [q EXCEPT !.passo = "pronta", !.letto = l] = n
    BY <2>1, <2>2, <2>3
  <2> QED BY <1>1, <1>2, <2>4
<1> HIDE DEF n
<1>8. RichiestaNota(db, n)
  <2>1. /\ q.letto.stato[f] \in STATI_CREDITO_APERTO
        /\ q.letto.residuo[f] >= Scoperto(db.pagamenti, f)
        /\ q.letto.stato[f] # "assente" => db.stato[f] # "assente"
    BY <1>2, <1>3 DEF RichiestaNota, PagamentoNoto
  <2>2. PagamentoNoto(db, n)
    BY <1>4, <1>5, <1>6, <2>1 DEF PagamentoNoto
  <2> QED BY <1>3, <1>4, <1>5, <1>6, <2>1, <2>2 DEF RichiestaNota
<1>9. InvSessioni'
  BY <1>2, <1>6, <1>7, <1>8, SessioneAvanza
<1>10. InvRighe' /\ InvFasi'
  <2>1. ChiHaPagatoNonRiceve'
    BY <1>2 DEF InvC, InvFasi, ChiHaPagatoNonRiceve
  <2> QED BY <1>2, <2>1, RigheFerme
<1>11. TypeOK'
  BY <1>2 DEF InvC, TypeOK
<1> QED BY <1>9, <1>10, <1>11 DEF InvC

\* Spedisce keeps the invariant.
LEMMA SpedisceInv ==
  ASSUME InvC, NEW s \in Sessioni, Spedisce(s)
  PROVE  InvC'
<1>0. sessione[s] # Libera
  BY DEF Spedisce, Libera
<1>1. PICK q \in SessioniAperte : q = sessione[s]
  BY <1>0 DEF InvC, InvSessioni
<1> DEFINE n == [passo |-> "pronta", op |-> q.op, letto |-> q.letto]
           K == IF q.op.consegnato THEN {q.op.com} ELSE {}
<1>2. /\ q.op.tipo = "forza"
      /\ sessione' = [sessione EXCEPT ![s].passo = "pronta"]
      /\ db' = db /\ UNCHANGED <<tx, fase, quota, mie, pagate>>
      /\ UNCHANGED <<collegamenti, adesso, cadute, azioni>>
      /\ ultimo' = Messaggio("forzato", {q.op.com[1]}, {q.op.com})
      /\ partiti' = [k \in Comunicazioni |-> partiti[k] + (IF k \in K THEN 1 ELSE 0)]
  BY <1>1 DEF Spedisce, RichiestaFerma, Manda, Forzato
<1>3. /\ q.letto \in Database /\ q.op.com \in Comunicazioni /\ RichiestaNota(db, q)
  BY <1>0, <1>1, <1>2, TipoRichiesta DEF InvC, InvSessioni
<1> HIDE DEF K
<1>4. n \in SessioniAperte /\ n.op = q.op /\ n.letto = q.letto
  BY <1>3, TipoRichiesta DEF SessioniAperte
<1>5. sessione' = [sessione EXCEPT ![s] = n]
  <2>1. [q EXCEPT !.passo = "pronta"] = n
    BY DEF SessioniAperte
  <2> QED BY <1>1, <1>2, <2>1
<1> HIDE DEF n
<1>6. RichiestaNota(db, n)
  BY <1>2, <1>3, <1>4 DEF RichiestaNota
<1>7. InvSessioni'
  BY <1>2, <1>4, <1>5, <1>6, SessioneAvanza
<1>8. ultimo' \in [tipo : {"nessuno", "escalation", "sollecito", "forzato"},
                   fatture : SUBSET Fatture, comunicazioni : SUBSET Comunicazioni]
  BY <1>2, <1>3, TipoComunicazione DEF Messaggio
<1>9. partiti' \in [Comunicazioni -> Nat]
  BY <1>2 DEF InvC, TypeOK
<1>10. TypeOK'
  BY <1>2, <1>8, <1>9 DEF InvC, TypeOK
<1>11. InvRighe' /\ InvFasi'
  <2>1. ultimo'.tipo = "forzato"
    BY <1>2 DEF Messaggio
  <2>2. ChiHaPagatoNonRiceve'
    BY <2>1 DEF ChiHaPagatoNonRiceve
  <2> QED BY <1>2, <2>2, RigheFerme
<1> QED BY <1>7, <1>10, <1>11 DEF InvC

\* RichiestaFallita keeps the invariant.
LEMMA RichiestaFallitaInv ==
  ASSUME InvC, NEW s \in Sessioni, RichiestaFallita(s)
  PROVE  InvC'
<1>1. /\ sessione' = [sessione EXCEPT ![s] = Libera]
      /\ db' = db /\ UNCHANGED <<tx, fase, quota, mie, pagate>>
      /\ UNCHANGED <<collegamenti, adesso, cadute, azioni, partiti, ultimo>>
  BY DEF RichiestaFallita, RichiestaFerma
<1>2. InvSessioni'
  BY <1>1 DEF InvC, InvSessioni
<1>3. TypeOK'
  BY <1>1 DEF InvC, TypeOK
<1>4. InvRighe' /\ InvFasi'
  <2>1. ChiHaPagatoNonRiceve'
    BY <1>1 DEF InvC, InvFasi, ChiHaPagatoNonRiceve
  <2> QED BY <1>1, <2>1, RigheFerme
<1> QED BY <1>2, <1>3, <1>4 DEF InvC

\* Conferma keeps the invariant: the cycle and the requests still open go on
\* with what they have in memory.
LEMMA ConfermaInv ==
  ASSUME InvC, NEW s \in Sessioni, Conferma(s)
  PROVE  InvC'
<1>1. /\ sessione' = [sessione EXCEPT ![s] = Libera]
      /\ UNCHANGED <<fase, quota, mie, pagate>>
      /\ UNCHANGED <<collegamenti, adesso, cadute, azioni, partiti, ultimo>>
      /\ tx' = IF fase = "ferma" THEN db' ELSE tx
  BY DEF Conferma
<1>2. /\ Confermata(db, db')
      /\ \/ db'.pagamenti = db.pagamenti
         \/ \E p \in Pagamenti :
              /\ \A q \in PagamentiNoti : q.chiave # p.chiave
              /\ db'.pagamenti = db.pagamenti \cup {p}
  BY ConfermatoSano
<1>3. /\ TypeOK
      /\ fase = "ferma" => tx = db /\ mie = {}
      /\ IsFiniteSet(PagamentiNoti) /\ \A p, q \in PagamentiNoti : p.chiave = q.chiave => p = q
      /\ Sano(tx, PagamentiNoti) /\ Vista(db, tx, mie)
  BY DEF InvC, InvFasi, InvRighe
<1>4. PICK P \in SUBSET Pagamenti :
        /\ P = db'.pagamenti \cup tx.pagamenti
        /\ IsFiniteSet(P) /\ PagamentiNoti \subseteq P
        /\ \A p, q \in P : p.chiave = q.chiave => p = q
  <2>1. PagamentiNoti \in SUBSET Pagamenti
    BY <1>3 DEF TypeOK, Database, PagamentiNoti
  <2>2. CASE db'.pagamenti = db.pagamenti
    BY <1>3, <2>1, <2>2 DEF PagamentiNoti
  <2>3. CASE \E p \in Pagamenti :
              /\ \A q \in PagamentiNoti : q.chiave # p.chiave
              /\ db'.pagamenti = db.pagamenti \cup {p}
    <3>1. PICK p \in Pagamenti :
              /\ \A q \in PagamentiNoti : q.chiave # p.chiave
              /\ db'.pagamenti = db.pagamenti \cup {p}
      BY <2>3
    <3>2. PagamentiNoti \cup {p} = db'.pagamenti \cup tx.pagamenti
      BY <3>1 DEF PagamentiNoti
    <3>3. IsFiniteSet(PagamentiNoti \cup {p})
      BY <1>3, FS_AddElement
    <3> QED BY <1>3, <2>1, <3>1, <3>2, <3>3
  <2> QED BY <1>2, <2>2, <2>3
<1>5. db'.pagamenti \subseteq P
  BY <1>4
<1>6. PagamentiNoti' = P
  BY <1>1, <1>2, <1>3, <1>4 DEF PagamentiNoti, Confermata
<1>7. Sano(tx', P) /\ Vista(db', tx', mie')
  <2>1. CASE fase = "ferma"
    BY <1>1, <1>2, <1>3, <1>4, <2>1, VistaDiSe, SanoCresce, <1>5 DEF Confermata
  <2>2. CASE fase # "ferma"
    <3>1. tx' = tx /\ mie' = mie
      BY <1>1, <2>2
    <3>2. Sano(tx, P)
      BY <1>3, <1>4, SanoCresce
    <3>3. Vista(db', tx, mie)
      BY <1>2, <1>3, TipoComunicazione DEF Vista, Confermata
    <3> QED BY <3>1, <3>2, <3>3
  <2> QED BY <2>1, <2>2
<1>8. InvRighe'
  BY <1>2, <1>4, <1>6, <1>7 DEF InvRighe, Confermata
<1>9. InvSessioni'
  <2>1. Avanza(db, db')
    BY <1>2, TipoComunicazione DEF Avanza, Confermata
  <2>2. db' \in Database /\ IsFiniteSet(db'.pagamenti)
    BY <1>2, <1>4, <1>5, FS_Subset DEF Confermata
  <2>3. /\ \A t \in Sessioni : sessione'[t] \in {Libera, sessione[t]}
        /\ sessione' \in [Sessioni -> {Libera} \cup SessioniAperte]
    BY <1>1 DEF InvC, InvSessioni
  <2> QED BY <2>1, <2>2, <2>3, SessioniRestano
<1>10. TypeOK'
  BY <1>1, <1>2, <1>3 DEF TypeOK, Confermata
<1>11. InvFasi'
  <2>1. \A f \in Fatture : tx.stato[f] # "assente" => tx'.stato[f] # "assente"
    BY <1>1, <1>2, <1>3 DEF Confermata
  <2> QED BY <1>1, <1>3, <2>1 DEF InvC, InvFasi, Abbinamenti, ChiHaPagatoNonRiceve
<1> QED BY <1>8, <1>9, <1>10, <1>11 DEF InvC

-----------------------------------------------------------------------------
(***************************************************************************)
(* The invariant and what follows from it.                                 *)
(***************************************************************************)
\* The steps of the cycle keep the invariant.
LEMMA PassoCicloCInv ==
  ASSUME InvC, PassoCicloC
  PROVE  InvC'
  BY ImportaFatturaCInv, EseguiEscalationCInv, FineImportCInv, RilevaIncassiCInv,
     AggiornaPosizioniCInv, ApplicaPagamentoCInv, RiprendiPauseScaduteCInv, VagliaDovuteCInv,
     InviaGruppoCInv, ConcludiCicloCInv
  DEF PassoCicloC

\* Every step keeps the invariant.
LEMMA PassoInvC == InvC /\ [NextC]_varsC => InvC'
<1> SUFFICES ASSUME InvC, [NextC]_varsC PROVE InvC'
  OBVIOUS
<1>1. CASE UNCHANGED varsC
  <2>1. TypeOK'
    BY <1>1 DEF varsC, vars, InvC, TypeOK
  <2>2. InvSessioni'
    BY <1>1 DEF varsC, vars, InvC, InvSessioni
  <2>3. ChiHaPagatoNonRiceve'
    BY <1>1 DEF varsC, vars, InvC, InvFasi, ChiHaPagatoNonRiceve
  <2>4. InvRighe' /\ InvFasi'
    BY <1>1, <2>3, RigheFerme DEF varsC, vars
  <2> QED BY <2>1, <2>2, <2>4 DEF InvC
<1>2. CASE \E attivi \in StatiCollegamenti : AvviaCicloC(attivi)
  BY <1>2, AvviaCicloCInv
<1>3. CASE PassoCicloC \/ CadutaC \/ PassaIlTempoC
  BY <1>3, PassoCicloCInv, CadutaCInv, PassaIlTempoCInv
<1>4. CASE \E s \in Sessioni, o \in Operazioni : Chiede(s, o)
  BY <1>4, ChiedeInv
<1>5. CASE \E s \in Sessioni :
             RegistraIncasso(s) \/ Spedisce(s) \/ Conferma(s) \/ RichiestaFallita(s)
  BY <1>5, RegistraIncassoInv, SpedisceInv, ConfermaInv, RichiestaFallitaInv
<1> QED BY <1>1, <1>2, <1>3, <1>4, <1>5 DEF NextC

\* Whatever interleaves, what the cycle and the requests have in memory stands
\* to the committed rows as Vista and RichiestaNota say.
THEOREM InvarianteC == SpecC => []InvC
  BY InvCInit, PassoInvC, PTL DEF SpecC

\* The rows have their types in every interleaving: no cell, of the cycle or of
\* a request, makes a row the program could not read.
THEOREM TipiC == SpecC => []TypeOK
<1>1. InvC => TypeOK
  BY DEF InvC
<1> QED BY <1>1, InvarianteC, PTL

\* One key, one payment, also when requests with one key overlap each other or
\* meet the cycle that registers the same movement (azioni.py:220).
THEOREM PagamentoUnico == SpecC => []UnPagamentoPerChiave
<1>1. InvC => UnPagamentoPerChiave
  BY DEF InvC, InvRighe, PagamentiNoti, UnPagamentoPerChiave
<1> QED BY <1>1, InvarianteC, PTL

\* A lost update never forgives: what an invoice owes is at least what its
\* registered payments leave of it, and a settled one is covered by them.
THEOREM CreditoMaiCondonato == SpecC => []MaiCondonato
<1>1. InvC => MaiCondonato
  <2> SUFFICES ASSUME InvC, NEW f \in Presenti(db)
               PROVE  /\ db.residuo[f] >= Importo[f] - Incassato(db, f)
                      /\ db.stato[f] = "saldata" => Incassato(db, f) >= Importo[f]
    BY DEF MaiCondonato
  <2>1. f \in Fatture /\ db.stato[f] # "assente"
    BY DEF Presenti
  <2>2. Scoperto(db.pagamenti, f) = Importo[f] - Incassato(db, f)
    BY DEF Scoperto, Incassato
  <2>3. Importo[f] \in Int /\ Incassato(db, f) \in Int
    <3>1. db.pagamenti \in SUBSET Pagamenti /\ IsFiniteSet(db.pagamenti)
      <4>1. db.pagamenti \subseteq PagamentiNoti /\ IsFiniteSet(PagamentiNoti)
        BY DEF InvC, InvRighe, PagamentiNoti
      <4> QED BY <4>1, FS_Subset DEF InvC, TypeOK, Database
    <3> DEFINE Y == {p \in db.pagamenti : p.fattura = f}
    <3>2. Y \in SUBSET Pagamenti /\ IsFiniteSet(Y)
      <4>1. Y \subseteq db.pagamenti
        OBVIOUS
      <4> QED BY <3>1, <4>1, FS_Subset
    <3>3. Incassato(db, f) = SommaImporti(Y)
      BY DEF Incassato
    <3> HIDE DEF Y
    <3>4. Importo[f] \in Int
      BY <2>1, IncassiAssumption
    <3>5. SommaImporti(Y) \in Nat
      BY <3>2, ImportiNaturali
    <3> QED BY <3>3, <3>4, <3>5
  <2>4. /\ db.residuo[f] >= Scoperto(db.pagamenti, f)
        /\ db.stato[f] = "saldata" => Scoperto(db.pagamenti, f) <= 0
    BY <2>1 DEF InvC, InvRighe, Sano, Coperta
  <2> QED BY <2>2, <2>3, <2>4
<1> QED BY <1>1, InvarianteC, PTL

\* "Who has paid gets nothing" (sync.py:201), with payments registered while the
\* cycle's transaction is open: an invoice settled when the reminders are read
\* is in no message of that cycle.
THEOREM PagatoNonRiceve == SpecC => []ChiHaPagatoNonRiceve
<1>1. InvC => ChiHaPagatoNonRiceve
  BY DEF InvC, InvFasi
<1> QED BY <1>1, InvarianteC, PTL

\* Merging rows cell by cell never leaves a reminder planned on an invoice that
\* left the flow, neither committed nor in the memory of the cycle.
THEOREM NessunPendenteC == SpecC => []NessunSollecitoPendente
<1>1. InvC => NessunSollecitoPendente
  BY DEF InvC, InvRighe, Sano, NessunSollecitoPendente
<1> QED BY <1>1, InvarianteC, PTL

=============================================================================
