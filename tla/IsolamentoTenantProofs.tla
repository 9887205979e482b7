------------------------ MODULE IsolamentoTenantProofs ------------------------
(***************************************************************************)
(* Proofs about module IsolamentoTenant: any number of tenants, sessions,  *)
(* connections and rows.                                                   *)
(*                                                                         *)
(* The invariant says what a session knows of a row it has written or      *)
(* holds in memory, and what two sessions may know of the same row: ids    *)
(* are fresh when they are created, a written row is held until the end of *)
(* its transaction, and a deletion in progress holds its mandante.         *)
(***************************************************************************)
EXTENDS IsolamentoTenant, TLAPS

Riga == Cliente \cup {Assente}
Oggetto == [id : Id, riga : Cliente, origine : Riga]
Scritti == UNION {[righe -> Riga] : righe \in SUBSET Id}

SessioneAperta ==
  [aperta : {TRUE}, info : Tenant \cup {Nessuno}, conn : Connessioni \cup {Nessuno},
   locale : Tenant \cup {Nessuno}, scritti : Scritti, cancellato : BOOLEAN,
   oggetto : Oggetto \cup {NessunOggetto}, letti : SUBSET Tenant]

\* No variable outlives its transaction on a connection.
Forma ==
  /\ rls \in BOOLEAN
  /\ mandanti \subseteq Tenant
  /\ clienti \in [Id -> Riga]
  /\ variabile = [c \in Connessioni |-> Nessuno]
  /\ sessione \in [Sessioni -> SessioneAperta \cup {Chiusa}]

Novita(x) == x.oggetto # NessunOggetto /\ x.oggetto.origine = Assente
Caricato(x) == x.oggetto # NessunOggetto /\ x.oggetto.origine # Assente

\* What an open session has written: rows of its own tenant, over rows of its
\* own tenant or none.
ScritturaSana(x) ==
  \A i \in DOMAIN x.scritti :
    /\ clienti[i].tenant \in {x.info, Nessuno}
    /\ x.scritti[i] # Assente =>
         /\ x.scritti[i].tenant = x.info /\ x.scritti[i].mandante = x.info
         /\ x.info \in mandanti

\* What it holds in memory: a new row has nothing behind it, a loaded one may
\* have been deleted since but has not changed hands.
OggettoSano(x) ==
  /\ Novita(x) => clienti[x.oggetto.id] = Assente /\ x.oggetto.id \notin DOMAIN x.scritti
  /\ Caricato(x) => clienti[x.oggetto.id].tenant \in {x.oggetto.origine.tenant, Nessuno}

\* A deletion leaves none of the rows of its tenant.
CancellazioneSana(x) ==
  x.cancellato =>
    /\ \A i \in DOMAIN x.scritti : x.scritti[i] = Assente
    /\ \A i \in Id \ DOMAIN x.scritti : clienti[i].mandante # x.info

\* A session that was given no tenant has written nothing, and where the
\* policies do not apply it has nothing to write.
SenzaTenant(x) ==
  x.info = Nessuno =>
    /\ DOMAIN x.scritti = {} /\ ~x.cancellato
    /\ ~rls => x.oggetto = NessunOggetto

Sana(x) ==
  /\ x.locale \in {Nessuno, x.info} /\ x.letti \subseteq {x.info}
  /\ ScritturaSana(x) /\ OggettoSano(x) /\ CancellazioneSana(x) /\ SenzaTenant(x)

\* What session y may not do of what session x has in hand.
Rispetta(y, x) ==
  /\ y.conn # Nessuno => y.conn # x.conn
  /\ DOMAIN y.scritti \cap DOMAIN x.scritti = {}
  /\ Novita(x) => /\ x.oggetto.id \notin DOMAIN y.scritti
                  /\ y.oggetto # NessunOggetto => y.oggetto.id # x.oggetto.id
  /\ /\ Caricato(x) /\ x.oggetto.id \in DOMAIN y.scritti
     /\ y.scritti[x.oggetto.id] # Assente
     => x.oggetto.origine.tenant = y.info
  /\ x.cancellato => \A i \in DOMAIN y.scritti : y.scritti[i].mandante # x.info

Inv ==
  /\ Forma
  /\ NessunArcoFraTenant
  /\ \A s \in Aperte : Sana(sessione[s])
  /\ \A s, q \in Aperte : s # q => Rispetta(sessione[q], sessione[s])

-------------------------------------------------------------------------------
(***************************************************************************)
(* Lemmas: what changes one session, and what is left to check of it.      *)
(***************************************************************************)

\* An open session is a record with all its fields.
LEMMA ApertaIntera ==
  ASSUME Forma
  PROVE  \A s \in Sessioni : s \in Aperte <=> sessione[s] \in SessioneAperta
<1> SUFFICES ASSUME NEW s \in Sessioni
             PROVE  s \in Aperte <=> sessione[s] \in SessioneAperta
  OBVIOUS
<1>1. \A x \in SessioneAperta : x.aperta = TRUE
  BY DEF SessioneAperta
<1>2. Chiusa.aperta = FALSE
  BY DEF Chiusa
<1>3. Chiusa \notin SessioneAperta
  BY <1>1, <1>2
<1>4. CASE sessione[s] = Chiusa
  BY <1>2, <1>3, <1>4 DEF Aperte
<1>5. CASE sessione[s] \in SessioneAperta
  BY <1>1, <1>5 DEF Aperte
<1> QED BY <1>4, <1>5 DEF Forma

\* An object in memory is an object of the table.
LEMMA OggettoIntero ==
  ASSUME NEW x \in SessioneAperta, x.oggetto # NessunOggetto
  PROVE  x.oggetto \in Oggetto
BY DEF SessioneAperta

\* At the start no session is open.
LEMMA InvInit == Init => Inv
<1> SUFFICES ASSUME Init PROVE Inv
  OBVIOUS
<1>1. Aperte = {}
  BY DEF Init, Aperte, Chiusa
<1>2. Forma
  BY IsolamentoAssumption DEF Init, Forma, Riga
<1>3. NessunArcoFraTenant
  BY IsolamentoAssumption DEF Init, NessunArcoFraTenant, Cliente, Assente
<1> QED BY <1>1, <1>2, <1>3 DEF Inv

\* One session becomes r, which is sound and gets along with the others; what
\* is committed does not change.
LEMMA Cambiata ==
  ASSUME Inv, NEW s \in Sessioni, NEW r \in SessioneAperta,
         sessione' = [sessione EXCEPT ![s] = r], ResteFerme,
         Sana(r),
         \A q \in Aperte \ {s} : Rispetta(sessione[q], r) /\ Rispetta(r, sessione[q])
  PROVE  Inv'
<1>0. Forma BY DEF Inv
<1>1. Forma'
  BY <1>0 DEF Forma, ResteFerme
<1>2. NessunArcoFraTenant'
  BY DEF Inv, NessunArcoFraTenant, ResteFerme
<1>3. \A q \in Sessioni : sessione'[q] = IF q = s THEN r ELSE sessione[q]
  BY <1>0 DEF Forma
<1>4. \A q \in Aperte' : q # s => q \in Aperte
  BY <1>3 DEF Aperte
<1>6. \A q \in Aperte' : Sana(sessione[q])'
  <2> SUFFICES ASSUME NEW q \in Aperte' PROVE Sana(sessione[q])'
    OBVIOUS
  <2>1. q \in Sessioni BY DEF Aperte
  <2>2. Sana(sessione'[q]) BY <1>3, <1>4, <2>1 DEF Inv
  <2> QED
    BY <2>2 DEF Sana, ScritturaSana, OggettoSano, CancellazioneSana, SenzaTenant,
              Novita, Caricato, ResteFerme
<1>7. \A q, p \in Aperte' : q # p => Rispetta(sessione'[p], sessione'[q])
  <2> SUFFICES ASSUME NEW q \in Aperte', NEW p \in Aperte', q # p
               PROVE  Rispetta(sessione'[p], sessione'[q])
    OBVIOUS
  <2>1. q \in Sessioni /\ p \in Sessioni BY DEF Aperte
  <2>2. CASE q = s
    BY <1>3, <1>4, <2>1, <2>2
  <2>3. CASE p = s
    BY <1>3, <1>4, <2>1, <2>3
  <2>4. CASE q # s /\ p # s
    BY <1>3, <1>4, <2>1, <2>4 DEF Inv
  <2> QED BY <2>2, <2>3, <2>4
<1> QED BY <1>1, <1>2, <1>6, <1>7 DEF Inv, Rispetta, Novita, Caricato

\* A session is closed, and nothing is committed.
LEMMA ChiusaInv ==
  ASSUME Inv, NEW s \in Sessioni, sessione' = [sessione EXCEPT ![s] = Chiusa], ResteFerme
  PROVE  Inv'
<1>0. Forma BY DEF Inv
<1>1. Forma'
  BY <1>0 DEF Forma, ResteFerme
<1>2. NessunArcoFraTenant'
  BY DEF Inv, NessunArcoFraTenant, ResteFerme
<1>3. \A q \in Sessioni : sessione'[q] = IF q = s THEN Chiusa ELSE sessione[q]
  BY <1>0 DEF Forma
<1>4. \A q \in Aperte' : q # s /\ q \in Aperte /\ sessione'[q] = sessione[q]
  BY <1>3 DEF Aperte, Chiusa
<1>5. \A q \in Aperte' : Sana(sessione[q])'
  <2> SUFFICES ASSUME NEW q \in Aperte' PROVE Sana(sessione[q])'
    OBVIOUS
  <2>1. Sana(sessione'[q]) BY <1>4 DEF Inv
  <2> QED
    BY <2>1 DEF Sana, ScritturaSana, OggettoSano, CancellazioneSana, SenzaTenant,
              Novita, Caricato, ResteFerme
<1>6. \A q, p \in Aperte' : q # p => Rispetta(sessione'[p], sessione'[q])
  BY <1>4 DEF Inv
<1> QED BY <1>1, <1>2, <1>5, <1>6 DEF Inv, Rispetta, Novita, Caricato

-------------------------------------------------------------------------------
(***************************************************************************)
(* Sessions and transactions.                                              *)
(***************************************************************************)
\* A new session has nothing in hand.
LEMMA ApriInv ==
  ASSUME Inv, NEW s \in Sessioni, Apri(s)
  PROVE  Inv'
<1> DEFINE r == [aperta |-> TRUE, info |-> Nessuno, conn |-> Nessuno, locale |-> Nessuno,
                 scritti |-> << >>, cancellato |-> FALSE, oggetto |-> NessunOggetto,
                 letti |-> {}]
<1>1. /\ r.conn = Nessuno /\ r.info = Nessuno /\ r.locale = Nessuno /\ r.scritti = << >>
      /\ r.cancellato = FALSE /\ r.oggetto = NessunOggetto /\ r.letti = {}
  OBVIOUS
<1>2. << >> \in Scritti /\ DOMAIN << >> = {}
  <2>1. << >> = [i \in {} |-> Assente]
    OBVIOUS
  <2>2. [i \in {} |-> Assente] \in [{} -> Riga]
    OBVIOUS
  <2> QED BY <2>1, <2>2 DEF Scritti
<1>3. r \in SessioneAperta
  BY <1>2 DEF SessioneAperta
<1>4. sessione' = [sessione EXCEPT ![s] = r] /\ ResteFerme
  BY DEF Apri, ResteFerme
<1> HIDE DEF r
<1>5. Sana(r)
  BY <1>1, <1>2 DEF Sana, ScritturaSana, OggettoSano, CancellazioneSana, SenzaTenant,
                    Novita, Caricato
<1>6. ASSUME NEW q \in Aperte \ {s}
      PROVE  Rispetta(sessione[q], r) /\ Rispetta(r, sessione[q])
  <2>1. sessione[q] \in SessioneAperta
    BY ApertaIntera DEF Inv, Aperte
  <2> QED BY <2>1, <1>1, <1>2 DEF Rispetta, Novita, Caricato, SessioneAperta
<1> QED BY <1>3, <1>4, <1>5, <1>6, Cambiata

\* A repository gives a session its tenant, or refuses a second one.
LEMMA LegaRepositoryInv ==
  ASSUME Inv, NEW s \in Sessioni, NEW t \in Tenant, LegaRepository(s, t)
  PROVE  Inv'
<1>1. CASE Info(s) \notin {Nessuno, t}
  BY <1>1, ChiusaInv DEF LegaRepository
<1>2. CASE Info(s) \in {Nessuno, t}
  <2> DEFINE x == sessione[s]
             r == [x EXCEPT !.info = t]
  <2>1. x \in SessioneAperta /\ s \in Aperte
    BY ApertaIntera DEF Inv, LegaRepository
  <2>2. /\ r.conn = x.conn /\ r.info = t /\ r.locale = x.locale /\ r.scritti = x.scritti
        /\ r.cancellato = x.cancellato /\ r.oggetto = x.oggetto /\ r.letti = x.letti
    BY <2>1 DEF SessioneAperta
  <2>3. r \in SessioneAperta
    BY <2>1 DEF SessioneAperta
  <2>4. sessione' = [sessione EXCEPT ![s] = r] /\ ResteFerme
    BY <1>2 DEF LegaRepository
  <2>5. Sana(x) /\ x.info \in {Nessuno, t}
    BY <2>1, <1>2 DEF Inv, Info
  <2>6. \A q \in Aperte \ {s} : Rispetta(sessione[q], x) /\ Rispetta(x, sessione[q])
    BY <2>1 DEF Inv
  <2>7. t # Nessuno
    BY IsolamentoAssumption
  <2>8. x.info = Nessuno => DOMAIN x.scritti = {} /\ x.cancellato = FALSE /\ x.letti = {}
    BY <2>1, <2>5, IsolamentoAssumption DEF Sana, SenzaTenant, SessioneAperta
  <2> HIDE DEF r, x
  <2>9. Sana(r)
    BY <2>2, <2>5, <2>7, <2>8 DEF Sana, ScritturaSana, OggettoSano, CancellazioneSana,
                                  SenzaTenant, Novita, Caricato
  <2>10. ASSUME NEW q \in Aperte \ {s}
         PROVE  Rispetta(sessione[q], r) /\ Rispetta(r, sessione[q])
    <3>1. Rispetta(sessione[q], x) /\ Rispetta(x, sessione[q])
      BY <2>6
    <3> QED BY <3>1, <2>2, <2>5, <2>8 DEF Rispetta, Novita, Caricato
  <2> QED BY <2>3, <2>4, <2>9, <2>10, Cambiata
<1> QED BY <1>1, <1>2

\* A transaction begins on a connection nobody holds, whose variable says
\* nothing, and the variable is set for the transaction only.
LEMMA IniziaInv ==
  ASSUME Inv, NEW s \in Sessioni, NEW c \in Connessioni, Inizia(s, c)
  PROVE  Inv'
<1> DEFINE x == sessione[s]
           r == [x EXCEPT !.conn = c, !.locale = IF x.info = Nessuno THEN variabile[c] ELSE x.info]
<1>1. x \in SessioneAperta /\ s \in Aperte
  BY ApertaIntera DEF Inv, Inizia
<1>2. variabile[c] = Nessuno
  BY DEF Inv, Forma
<1>3. /\ r.conn = c /\ r.info = x.info /\ r.scritti = x.scritti
      /\ r.cancellato = x.cancellato /\ r.oggetto = x.oggetto /\ r.letti = x.letti
      /\ r.locale \in {Nessuno, x.info}
  BY <1>1, <1>2 DEF SessioneAperta
<1>4. r \in SessioneAperta
  BY <1>1, <1>2 DEF SessioneAperta
<1>5. sessione' = [sessione EXCEPT ![s] = r] /\ ResteFerme
  BY DEF Inizia, ImpostaTenant, ResteFerme, Info
<1>6. Sana(x)
  BY <1>1 DEF Inv
<1>7. \A q \in Aperte \ {s} : Rispetta(sessione[q], x) /\ Rispetta(x, sessione[q])
  BY <1>1 DEF Inv
<1>8. \A q \in Aperte \ {s} : sessione[q].conn # Nessuno => sessione[q].conn # c
  BY DEF Inizia, Occupate, InTransazione
<1> HIDE DEF r, x
<1>9. Sana(r)
  BY <1>3, <1>6 DEF Sana, ScritturaSana, OggettoSano, CancellazioneSana, SenzaTenant,
                    Novita, Caricato
<1>10. ASSUME NEW q \in Aperte \ {s}
       PROVE  Rispetta(sessione[q], r) /\ Rispetta(r, sessione[q])
  <2>1. Rispetta(sessione[q], x) /\ Rispetta(x, sessione[q])
    BY <1>7
  <2>2. sessione[q].conn # Nessuno => sessione[q].conn # c
    BY <1>8
  <2> QED BY <2>1, <2>2, <1>3 DEF Rispetta, Novita, Caricato
<1> QED BY <1>4, <1>5, <1>9, <1>10, Cambiata

-------------------------------------------------------------------------------
(***************************************************************************)
(* Reads, and what they leave in memory.                                   *)
(***************************************************************************)
\* A session sees rows; one that is there belongs to a tenant.
LEMMA VedeRighe ==
  ASSUME Inv, NEW s \in Aperte, NEW i \in Id
  PROVE  /\ Vede(s, i) \in Riga
         /\ i \in Presenti(s) => Vede(s, i) \in Cliente /\ Vede(s, i).tenant # Nessuno
<1>1. sessione[s].scritti \in Scritti
  BY ApertaIntera DEF Inv, Aperte, SessioneAperta
<1>2. \A j \in DOMAIN sessione[s].scritti : sessione[s].scritti[j] \in Riga
  BY <1>1 DEF Scritti
<1>3. clienti[i] \in Riga
  BY DEF Inv, Forma
<1>4. Vede(s, i) \in Riga
  BY <1>2, <1>3 DEF Vede
<1>5. i \in Presenti(s) => Vede(s, i) # Assente
  BY DEF Presenti
<1> QED BY <1>4, <1>5, IsolamentoAssumption DEF Riga, Cliente

\* An object comes into memory: a new one under a fresh id, or a row that the
\* session sees; what was read belongs to the session's tenant.
LEMMA Tenuto ==
  ASSUME Inv, NEW s \in Aperte, NEW o \in Oggetto, NEW L \in SUBSET Tenant,
         L \subseteq {Info(s)}, rls \/ Info(s) # Nessuno,
         \/ o.origine = Assente /\ Nuovo(o.id)
         \/ o.id \in Presenti(s) /\ o.origine = Vede(s, o.id),
         sessione' = [sessione EXCEPT ![s] = [sessione[s] EXCEPT !.oggetto = o, !.letti = L]],
         ResteFerme
  PROVE  Inv'
<1> DEFINE x == sessione[s]
           r == [x EXCEPT !.oggetto = o, !.letti = L]
<1>1. x \in SessioneAperta /\ s \in Sessioni
  BY ApertaIntera DEF Inv, Aperte
<1>2. /\ r.conn = x.conn /\ r.info = x.info /\ r.scritti = x.scritti /\ r.locale = x.locale
      /\ r.cancellato = x.cancellato /\ r.oggetto = o /\ r.letti = L
  BY <1>1 DEF SessioneAperta
<1>3. r \in SessioneAperta
  BY <1>1 DEF SessioneAperta
<1>4. Sana(x) /\ L \subseteq {x.info} /\ (rls \/ x.info # Nessuno)
  BY DEF Inv, Info
<1>5. \A q \in Aperte \ {s} : Rispetta(sessione[q], x) /\ Rispetta(x, sessione[q])
  BY DEF Inv
<1>6. o.id \in Id /\ o.origine \in Riga
  BY DEF Oggetto
<1>7. o # NessunOggetto
  BY DEF Oggetto, NessunOggetto
<1>8. \A q \in Aperte : o.origine = Assente => o.id \notin DOMAIN sessione[q].scritti
                                               /\ sessione[q].oggetto.id # o.id
  BY <1>6 DEF Nuovo, Presenti
<1>9. o.origine = Assente => clienti[o.id] = Assente
  BY <1>6 DEF Nuovo, Presenti
<1>10. o.origine # Assente =>
         o.id \in Presenti(s) /\ o.origine \in Cliente /\ o.origine.tenant # Nessuno
         /\ o.origine = IF o.id \in DOMAIN x.scritti THEN x.scritti[o.id] ELSE clienti[o.id]
  BY <1>6, VedeRighe DEF Vede
<1> HIDE DEF r, x
<1>11. Sana(r)
  <2>1. OggettoSano(r)
    BY <1>2, <1>4, <1>6, <1>7, <1>8, <1>9, <1>10
       DEF OggettoSano, Novita, Caricato, Sana, ScritturaSana, x
  <2> QED BY <2>1, <1>2, <1>4 DEF Sana, ScritturaSana, CancellazioneSana, SenzaTenant
<1>12. ASSUME NEW q \in Aperte \ {s}
       PROVE  Rispetta(sessione[q], r) /\ Rispetta(r, sessione[q])
  <2> DEFINE y == sessione[q]
  <2>1. Rispetta(y, x) /\ Rispetta(x, y) /\ Sana(y)
    BY <1>5 DEF Inv
  <2>2. Novita(r) => o.id \notin DOMAIN y.scritti /\ y.oggetto.id # o.id
    BY <1>2, <1>8 DEF Novita
  <2>3. Caricato(r) /\ o.id \in DOMAIN y.scritti => o.origine.tenant = y.info
    <3> SUFFICES ASSUME Caricato(r), o.id \in DOMAIN y.scritti PROVE o.origine.tenant = y.info
      OBVIOUS
    <3>1. o.id \notin DOMAIN x.scritti
      BY <2>1 DEF Rispetta
    <3>2. o.origine = clienti[o.id] /\ o.origine.tenant # Nessuno
      BY <3>1, <1>2, <1>10 DEF Caricato
    <3>3. clienti[o.id].tenant \in {y.info, Nessuno}
      BY <2>1 DEF Sana, ScritturaSana
    <3> QED BY <3>2, <3>3
  <2>4. Novita(y) => o.id # y.oggetto.id
    <3>1. CASE o.origine = Assente
      BY <3>1, <1>8
    <3>2. CASE o.origine # Assente
      <4>1. ~(clienti[o.id] = Assente /\ o.id \notin DOMAIN x.scritti)
        BY <3>2, <1>10
      <4> QED BY <4>1, <2>1 DEF Rispetta, Sana, OggettoSano
    <3> QED BY <3>1, <3>2
  <2> HIDE DEF y
  <2>5. Rispetta(y, r)
    BY <2>1, <2>2, <2>3, <1>2 DEF Rispetta, Caricato
  <2>6. Rispetta(r, y)
    BY <2>1, <2>4, <1>2 DEF Rispetta
  <2> QED BY <2>5, <2>6 DEF y
<1> QED BY <1>1, <1>3, <1>11, <1>12, Cambiata DEF r, x

\* The object in memory is let go, and rows may have been read.
LEMMA Lasciato ==
  ASSUME Inv, NEW s \in Aperte,
         sessione' = [sessione EXCEPT ![s].oggetto = NessunOggetto], ResteFerme
  PROVE  Inv'
<1> DEFINE x == sessione[s]
           r == [x EXCEPT !.oggetto = NessunOggetto]
<1>1. x \in SessioneAperta /\ s \in Sessioni
  BY ApertaIntera DEF Inv, Aperte
<1>2. /\ r.conn = x.conn /\ r.info = x.info /\ r.scritti = x.scritti /\ r.locale = x.locale
      /\ r.cancellato = x.cancellato /\ r.oggetto = NessunOggetto /\ r.letti = x.letti
  BY <1>1 DEF SessioneAperta
<1>3. r \in SessioneAperta
  BY <1>1 DEF SessioneAperta
<1>4. Sana(x)
  BY DEF Inv
<1>5. \A q \in Aperte \ {s} : Rispetta(sessione[q], x) /\ Rispetta(x, sessione[q])
  BY DEF Inv
<1>6. sessione' = [sessione EXCEPT ![s] = r]
  OBVIOUS
<1> HIDE DEF r, x
<1>7. Sana(r)
  BY <1>2, <1>4 DEF Sana, ScritturaSana, OggettoSano, CancellazioneSana, SenzaTenant,
                    Novita, Caricato
<1>8. ASSUME NEW q \in Aperte \ {s}
      PROVE  Rispetta(sessione[q], r) /\ Rispetta(r, sessione[q])
  <2>1. Rispetta(sessione[q], x) /\ Rispetta(x, sessione[q])
    BY <1>5
  <2> QED BY <2>1, <1>2 DEF Rispetta, Novita, Caricato
<1> QED BY <1>1, <1>3, <1>6, <1>7, <1>8, Cambiata

\* Rows of the session's own tenant are read, one of them stays in memory.
LEMMA LeggeInv ==
  ASSUME Inv, NEW s \in Aperte, NEW righe \in SUBSET Presenti(s),
         righe # {} => rls \/ Info(s) # Nessuno,
         \A i \in righe : Vede(s, i).tenant = Info(s), Legge(s, righe)
  PROVE  Inv'
<1>1. CASE righe = {}
  BY <1>1, Lasciato DEF Legge
<1>2. CASE righe # {}
  <2>1. PICK i \in righe : sessione' = [sessione EXCEPT
          ![s].oggetto = [id |-> i, riga |-> Vede(s, i), origine |-> Vede(s, i)],
          ![s].letti = @ \cup {Vede(s, j).tenant : j \in righe}]
    BY <1>2 DEF Legge
  <2> DEFINE o == [id |-> i, riga |-> Vede(s, i), origine |-> Vede(s, i)]
             L == sessione[s].letti \cup {Vede(s, j).tenant : j \in righe}
  <2>2. sessione[s] \in SessioneAperta /\ Sana(sessione[s])
    BY ApertaIntera DEF Inv, Aperte
  <2>3. \A j \in righe : j \in Id /\ Vede(s, j) \in Cliente
    BY VedeRighe DEF Presenti
  <2>4. L \in SUBSET Tenant /\ L \subseteq {Info(s)}
    BY <2>2, <2>3 DEF SessioneAperta, Sana, Info, Cliente
  <2>5. o \in Oggetto
    BY <2>3 DEF Oggetto, Riga
  <2>6. o.id \in Presenti(s) /\ o.origine = Vede(s, o.id)
    OBVIOUS
  <2>7. sessione' = [sessione EXCEPT ![s] = [sessione[s] EXCEPT !.oggetto = o, !.letti = L]]
    BY <2>1
  <2>8. ResteFerme
    BY DEF Legge
  <2> HIDE DEF o, L
  <2> QED BY <1>2, <2>4, <2>5, <2>6, <2>7, <2>8, Tenuto
<1> QED BY <1>1, <1>2

\* The filter of the repository gives rows of the tenant of the session.
LEMMA LeggiRepositoryInv ==
  ASSUME Inv, NEW s \in Sessioni, LeggiRepository(s)
  PROVE  Inv'
BY LeggeInv DEF LeggiRepository, InTransazione, Filtro

\* Without the filter the policies give the same; where they do not apply the
\* object only stays in memory.
LEMMA LeggiGrezzaInv ==
  ASSUME Inv, NEW s \in Sessioni, LeggiGrezza(s)
  PROVE  Inv'
<1>0. s \in Aperte
  BY DEF LeggiGrezza, InTransazione
<1>1. CASE rls
  <2> DEFINE righe == {i \in Presenti(s) : Passa(s, Vede(s, i).tenant)}
  <2>1. \A i \in righe : Vede(s, i).tenant = Info(s)
    <3>1. sessione[s].locale \in {Nessuno, Info(s)}
      BY <1>0 DEF Inv, Sana, Info
    <3> QED BY <3>1, <1>0, <1>1, VedeRighe DEF Passa, Presenti
  <2>2. Legge(s, righe) /\ righe \in SUBSET Presenti(s)
    BY <1>1 DEF LeggiGrezza
  <2> HIDE DEF righe
  <2> QED BY <1>0, <1>1, <2>1, <2>2, LeggeInv
<1>2. CASE ~rls
  <2>1. PICK i \in Presenti(s) : sessione' = [sessione EXCEPT
          ![s].oggetto = [id |-> i, riga |-> Vede(s, i), origine |-> Vede(s, i)]]
    BY <1>2 DEF LeggiGrezza
  <2> DEFINE o == [id |-> i, riga |-> Vede(s, i), origine |-> Vede(s, i)]
             x == sessione[s]
  <2>2. x \in SessioneAperta /\ Sana(x)
    BY <1>0, ApertaIntera DEF Inv, Aperte
  <2>3. i \in Id /\ Vede(s, i) \in Cliente
    BY <1>0, VedeRighe DEF Presenti
  <2>4. o \in Oggetto
    BY <2>3 DEF Oggetto, Riga
  <2>5. o.id \in Presenti(s) /\ o.origine = Vede(s, o.id)
    OBVIOUS
  <2>6. sessione' = [sessione EXCEPT ![s] = [x EXCEPT !.oggetto = o]] /\ ResteFerme
    BY <2>1, <1>2 DEF LeggiGrezza
  <2>7. x.letti \in SUBSET Tenant /\ x.letti \subseteq {Info(s)} /\ Info(s) # Nessuno
    BY <1>2, <2>2 DEF SessioneAperta, Sana, Info, LeggiGrezza
  <2> HIDE DEF o
  <2>8. [x EXCEPT !.oggetto = o] = [x EXCEPT !.oggetto = o, !.letti = x.letti]
    BY <2>2 DEF SessioneAperta
  <2> QED BY <1>0, <2>4, <2>5, <2>6, <2>7, <2>8, Tenuto
<1> QED BY <1>1, <1>2

-------------------------------------------------------------------------------
(***************************************************************************)
(* Writes through the session.                                             *)
(***************************************************************************)
\* A new object comes into memory under a fresh id, or the session is closed.
LEMMA NuovoInv ==
  ASSUME Inv, NEW s \in Aperte, NEW i \in Id, NEW t \in Tenant, NEW m \in Tenant,
         rls \/ Info(s) # Nessuno, Nuovo(i),
         sessione' = [sessione EXCEPT ![s].oggetto =
           [id |-> i, riga |-> [tenant |-> t, mandante |-> m], origine |-> Assente]],
         ResteFerme
  PROVE  Inv'
<1> DEFINE o == [id |-> i, riga |-> [tenant |-> t, mandante |-> m], origine |-> Assente]
           x == sessione[s]
<1>1. x \in SessioneAperta /\ Sana(x)
  BY ApertaIntera DEF Inv, Aperte
<1>2. o \in Oggetto
  BY DEF Oggetto, Riga, Cliente
<1>3. o.origine = Assente /\ Nuovo(o.id)
  OBVIOUS
<1>4. sessione' = [sessione EXCEPT ![s] = [x EXCEPT !.oggetto = o]]
  OBVIOUS
<1>5. x.letti \in SUBSET Tenant /\ x.letti \subseteq {Info(s)}
  BY <1>1 DEF SessioneAperta, Sana, Info
<1> HIDE DEF o
<1>6. [x EXCEPT !.oggetto = o] = [x EXCEPT !.oggetto = o, !.letti = x.letti]
  BY <1>1 DEF SessioneAperta
<1> QED BY <1>2, <1>3, <1>4, <1>5, <1>6, Tenuto

\* The repository adds a row of its tenant.
LEMMA AggiungiInv ==
  ASSUME Inv, NEW s \in Sessioni, NEW i \in Id, NEW t \in Tenant \cup {Nessuno},
         NEW m \in Tenant, Aggiungi(s, i, t, m)
  PROVE  Inv'
<1>1. Info(s) \in Tenant
  BY ApertaIntera DEF Inv, Aggiungi, SessioneAperta, Info
<1> QED BY <1>1, NuovoInv, ChiusaInv DEF Aggiungi

\* Code round the repository adds any row.
LEMMA AggiungiGrezzaInv ==
  ASSUME Inv, NEW s \in Sessioni, NEW i \in Id, NEW t \in Tenant, NEW m \in Tenant,
         AggiungiGrezza(s, i, t, m)
  PROVE  Inv'
BY NuovoInv DEF AggiungiGrezza

\* An object is altered in memory: what is behind it stays.
LEMMA AlteraInv ==
  ASSUME Inv, NEW s \in Sessioni, NEW riga \in Cliente, Altera(s, riga)
  PROVE  Inv'
<1> DEFINE x == sessione[s]
           o == [x.oggetto EXCEPT !.riga = riga]
           r == [x EXCEPT !.oggetto = o]
<1>1. x \in SessioneAperta /\ s \in Aperte /\ x.oggetto # NessunOggetto
  BY ApertaIntera DEF Inv, Altera
<1>2. x.oggetto \in Oggetto
  BY <1>1, OggettoIntero
<1>3. o \in Oggetto /\ o.id = x.oggetto.id /\ o.origine = x.oggetto.origine
  BY <1>2 DEF Oggetto
<1>4. o # NessunOggetto
  BY <1>3 DEF Oggetto, NessunOggetto
<1>5. sessione' = [sessione EXCEPT ![s] = r] /\ ResteFerme
  BY DEF Altera
<1> HIDE DEF o
<1>6. /\ r.conn = x.conn /\ r.info = x.info /\ r.scritti = x.scritti /\ r.locale = x.locale
      /\ r.cancellato = x.cancellato /\ r.oggetto = o /\ r.letti = x.letti
  BY <1>1 DEF SessioneAperta
<1>7. r \in SessioneAperta
  BY <1>1, <1>3 DEF SessioneAperta
<1>8. Sana(x)
  BY <1>1 DEF Inv
<1>9. \A q \in Aperte \ {s} : Rispetta(sessione[q], x) /\ Rispetta(x, sessione[q])
  BY <1>1 DEF Inv
<1> HIDE DEF r, x
<1>10. Sana(r)
  BY <1>1, <1>3, <1>4, <1>6, <1>8
     DEF Sana, ScritturaSana, OggettoSano, CancellazioneSana, SenzaTenant, Novita, Caricato
<1>11. ASSUME NEW q \in Aperte \ {s}
       PROVE  Rispetta(sessione[q], r) /\ Rispetta(r, sessione[q])
  <2>1. Rispetta(sessione[q], x) /\ Rispetta(x, sessione[q])
    BY <1>9
  <2> QED BY <2>1, <1>1, <1>3, <1>4, <1>6 DEF Rispetta, Novita, Caricato
<1> QED BY <1>5, <1>7, <1>10, <1>11, Cambiata

\* A flush that guard, policies and foreign key let through writes a row of
\* the session's tenant, over a row of its tenant or none.
LEMMA FlushAmmesso ==
  ASSUME Inv, NEW s \in Aperte, NEW o \in Oggetto, o = sessione[s].oggetto,
         o # NessunOggetto, Guardia(s, o), Accettata(s, o)
  PROVE  /\ Info(s) # Nessuno /\ o.riga.tenant = Info(s) /\ o.riga.mandante = Info(s)
         /\ Info(s) \in mandanti /\ ~sessione[s].cancellato
         /\ clienti[o.id].tenant \in {Info(s), Nessuno}
<1> DEFINE x == sessione[s]
<1>1. Sana(x) /\ x \in SessioneAperta
  BY ApertaIntera DEF Inv, Aperte
<1>2. o.id \in Id /\ o.riga \in Cliente /\ o.riga.tenant # Nessuno
  BY IsolamentoAssumption DEF Oggetto, Cliente
<1>3. Info(s) # Nessuno
  <2>1. CASE rls
    BY <2>1, <1>1, <1>2 DEF Accettata, Passa, Sana, Info
  <2>2. CASE ~rls
    BY <2>2, <1>1 DEF Sana, SenzaTenant, Info
  <2> QED BY <2>1, <2>2
<1>4. o.riga.tenant = Info(s) /\ o.riga.mandante = Info(s) /\ Info(s) \in VedeMandanti(s)
  BY <1>3 DEF Guardia, Accettata, ChiaveEsterna
<1>5. Info(s) \in mandanti /\ ~x.cancellato
  BY <1>4 DEF VedeMandanti
<1>6. clienti[o.id].tenant \in {Info(s), Nessuno}
  <2>1. CASE o.origine = Assente
    BY <2>1, <1>1 DEF Sana, OggettoSano, Novita, Assente
  <2>2. CASE o.origine # Assente /\ o.id \in DOMAIN x.scritti
    BY <2>2, <1>1 DEF Sana, ScritturaSana, Info
  <2>3. CASE o.origine # Assente /\ o.id \notin DOMAIN x.scritti /\ rls
    <3>1. Vede(s, o.id) = clienti[o.id] /\ Vede(s, o.id).tenant = x.locale
      BY <2>3 DEF Accettata, Passa, Vede
    <3> QED BY <3>1, <1>1 DEF Sana, Info
  <2>4. CASE o.origine # Assente /\ ~rls
    BY <2>4, <1>1, <1>3 DEF Sana, OggettoSano, Caricato, Guardia
  <2> QED BY <2>1, <2>2, <2>3, <2>4
<1> QED BY <1>3, <1>4, <1>5, <1>6

\* The flush writes the object, or the session is closed.
LEMMA FlushInv ==
  ASSUME Inv, NEW s \in Sessioni, Flush(s)
  PROVE  Inv'
<1> DEFINE x == sessione[s]
           o == x.oggetto
           w == [i \in DOMAIN x.scritti \cup {o.id} |-> IF i = o.id THEN o.riga ELSE x.scritti[i]]
           r == [x EXCEPT !.oggetto = NessunOggetto, !.scritti = w]
<1>1. x \in SessioneAperta /\ s \in Aperte /\ o # NessunOggetto /\ ResteFerme
  BY ApertaIntera DEF Inv, Flush, InTransazione
<1>2. o \in Oggetto
  BY <1>1, OggettoIntero
<1>3. CASE ~(Guardia(s, o) /\ Accettata(s, o))
  BY <1>1, <1>3, ChiusaInv DEF Flush
<1>4. CASE Guardia(s, o) /\ Accettata(s, o)
  <2>1. /\ x.info # Nessuno /\ o.riga.tenant = x.info /\ o.riga.mandante = x.info
        /\ x.info \in mandanti /\ ~x.cancellato
        /\ clienti[o.id].tenant \in {x.info, Nessuno}
    BY <1>1, <1>2, <1>4, FlushAmmesso DEF Info
  <2>2. o.id \in Id /\ o.riga \in Cliente /\ o.origine \in Riga
    BY <1>2 DEF Oggetto
  <2>3. w \in Scritti
    <3>1. PICK D \in SUBSET Id : x.scritti \in [D -> Riga]
      BY <1>1 DEF SessioneAperta, Scritti
    <3>2. w \in [D \cup {o.id} -> Riga]
      BY <3>1, <2>2 DEF Riga
    <3> QED BY <3>2, <2>2, <3>1 DEF Scritti
  <2>4. sessione' = [sessione EXCEPT ![s] = r]
    BY <1>4 DEF Flush
  <2>5. /\ DOMAIN w = DOMAIN x.scritti \cup {o.id}
        /\ w[o.id] = o.riga
        /\ \A i \in DOMAIN x.scritti : i # o.id => w[i] = x.scritti[i]
    OBVIOUS
  <2> HIDE DEF w
  <2>6. /\ r.conn = x.conn /\ r.info = x.info /\ r.scritti = w /\ r.locale = x.locale
        /\ r.cancellato = x.cancellato /\ r.oggetto = NessunOggetto /\ r.letti = x.letti
    BY <1>1 DEF SessioneAperta
  <2>7. r \in SessioneAperta
    BY <1>1, <2>3 DEF SessioneAperta
  <2>8. Sana(x)
    BY <1>1 DEF Inv
  <2>9. \A q \in Aperte \ {s} : o.id \notin DOMAIN sessione[q].scritti
                                /\ ~(sessione[q].cancellato /\ sessione[q].info = x.info)
    BY <2>1 DEF Flush, Bloccati, MandanteTrattenuto, Info
  <2>10. o.origine # Assente => Vede(s, o.id) # Assente
    BY <1>4 DEF Accettata, Presenti
  <2>11. clienti[o.id] = Assente \/ clienti[o.id].tenant # Nessuno
    BY <2>2, IsolamentoAssumption DEF Inv, Forma, Riga, Cliente
  <2> HIDE DEF r
  <2>12. Sana(r)
    BY <2>1, <2>5, <2>6, <2>8
       DEF Sana, ScritturaSana, OggettoSano, CancellazioneSana, SenzaTenant, Novita, Caricato
  <2>13. ASSUME NEW q \in Aperte \ {s}
         PROVE  Rispetta(sessione[q], r) /\ Rispetta(r, sessione[q])
    <3> DEFINE y == sessione[q]
    <3>1. Rispetta(y, x) /\ Rispetta(x, y) /\ Sana(y)
      BY <1>1 DEF Inv
    <3>2. Rispetta(y, r)
      BY <2>1, <2>5, <2>6, <2>9, <3>1 DEF Rispetta, Novita, Caricato
    <3>3. Novita(y) => y.oggetto.id # o.id
      BY <1>1, <3>1 DEF Rispetta
    <3>4. Caricato(y) /\ y.oggetto.id = o.id => y.oggetto.origine.tenant = x.info
      <4> SUFFICES ASSUME Caricato(y), y.oggetto.id = o.id
                   PROVE  y.oggetto.origine.tenant = x.info
        OBVIOUS
      <4>1. CASE clienti[o.id] # Assente
        <5>1. clienti[o.id].tenant \in {y.oggetto.origine.tenant, Nessuno}
          BY <3>1 DEF Sana, OggettoSano
        <5> QED BY <5>1, <4>1, <2>1, <2>11
      <4>2. CASE clienti[o.id] = Assente
        <5>1. o.origine # Assente
          BY <1>1, <3>1 DEF Rispetta, Novita, Caricato
        <5>2. o.id \in DOMAIN x.scritti /\ x.scritti[o.id] # Assente
          BY <5>1, <4>2, <2>10 DEF Vede
        <5> QED BY <5>2, <3>1 DEF Rispetta
      <4> QED BY <4>1, <4>2
    <3>5. ~(y.cancellato /\ y.info = x.info) /\ o.id \notin DOMAIN y.scritti
      BY <2>9
    <3> HIDE DEF y, o, x
    <3>6. Rispetta(r, y)
      BY <2>1, <2>5, <2>6, <3>1, <3>3, <3>4, <3>5 DEF Rispetta
    <3> QED BY <3>2, <3>6 DEF y
  <2> QED BY <1>1, <2>4, <2>7, <2>12, <2>13, Cambiata
<1> QED BY <1>3, <1>4

-------------------------------------------------------------------------------
(***************************************************************************)
(* Deletions, and the commit.                                              *)
(***************************************************************************)
\* Rows of the session's tenant that nobody else has written are deleted; if
\* the mandante goes with them, no row of its tenant is left to anybody.
LEMMA CancellateInv ==
  ASSUME Inv, NEW s \in Aperte, NEW righe \in SUBSET Presenti(s), NEW c \in BOOLEAN,
         Info(s) # Nessuno, \A i \in righe : Vede(s, i).tenant = Info(s),
         righe \cap Bloccati(s) = {},
         c => \/ sessione[s].cancellato
              \/ /\ \A i \in Presenti(s) : Vede(s, i).tenant = Info(s) => i \in righe
                 /\ \A q \in Aperte \ {s} : \A i \in DOMAIN sessione[q].scritti :
                      sessione[q].scritti[i].mandante # Info(s),
         sessione' = [sessione EXCEPT ![s] =
           [sessione[s] EXCEPT !.scritti = Cancellati(s, righe), !.cancellato = c]],
         ResteFerme
  PROVE  Inv'
<1> DEFINE x == sessione[s]
           w == Cancellati(s, righe)
           r == [x EXCEPT !.scritti = w, !.cancellato = c]
<1>1. x \in SessioneAperta /\ s \in Sessioni /\ Sana(x)
  BY ApertaIntera DEF Inv, Aperte
<1>2. righe \subseteq Id
  BY DEF Presenti
<1>3. w \in Scritti
  <2>1. PICK D \in SUBSET Id : x.scritti \in [D -> Riga]
    BY <1>1 DEF SessioneAperta, Scritti
  <2>2. w \in [D \cup righe -> Riga]
    BY <2>1 DEF Riga, Cancellati
  <2> QED BY <2>2, <1>2, <2>1 DEF Scritti
<1>4. /\ DOMAIN w = DOMAIN x.scritti \cup righe
      /\ \A i \in righe : w[i] = Assente
      /\ \A i \in DOMAIN x.scritti : i \notin righe => w[i] = x.scritti[i]
  BY DEF Cancellati
<1> HIDE DEF w
<1>5. /\ r.conn = x.conn /\ r.info = x.info /\ r.scritti = w /\ r.locale = x.locale
      /\ r.cancellato = c /\ r.oggetto = x.oggetto /\ r.letti = x.letti
  BY <1>1 DEF SessioneAperta
<1>6. r \in SessioneAperta
  BY <1>1, <1>3 DEF SessioneAperta
<1>7. \A i \in righe : Vede(s, i) # Assente
  BY DEF Presenti
<1>8. \A i \in Id : i \notin DOMAIN x.scritti => Vede(s, i) = clienti[i]
  BY DEF Vede
<1>9. \A i \in DOMAIN x.scritti : Vede(s, i) = x.scritti[i]
  BY DEF Vede
<1>10. x.info # Nessuno /\ \A i \in righe : Vede(s, i).tenant = x.info
  BY DEF Info
<1>11. \A q \in Aperte \ {s} : righe \cap DOMAIN sessione[q].scritti = {}
  BY DEF Bloccati
<1>12. c /\ ~x.cancellato =>
         /\ \A i \in Presenti(s) : Vede(s, i).tenant = x.info => i \in righe
         /\ \A q \in Aperte \ {s} : \A i \in DOMAIN sessione[q].scritti :
              sessione[q].scritti[i].mandante # x.info
  BY DEF Info
<1>13. DOMAIN x.scritti \subseteq Id
  BY <1>1 DEF SessioneAperta, Scritti
<1> HIDE DEF r
<1>14. ScritturaSana(r)
  <2>1. ASSUME NEW i \in righe PROVE clienti[i].tenant \in {x.info, Nessuno}
    BY <1>1, <1>2, <1>8, <1>10 DEF Sana, ScritturaSana
  <2> QED BY <2>1, <1>1, <1>4, <1>5 DEF Sana, ScritturaSana
<1>15. OggettoSano(r)
  <2>1. Novita(r) => x.oggetto.id \notin righe
    BY <1>1, <1>2, <1>5, <1>7, <1>8 DEF Sana, OggettoSano, Novita
  <2> QED BY <2>1, <1>1, <1>4, <1>5 DEF Sana, OggettoSano, Novita, Caricato
<1>16. CancellazioneSana(r)
  <2>1. CASE x.cancellato
    BY <2>1, <1>1, <1>4, <1>5 DEF Sana, CancellazioneSana
  <2>2. CASE c /\ ~x.cancellato
    <3>1. \A i \in DOMAIN x.scritti : x.scritti[i] = Assente \/ i \in righe
      <4> SUFFICES ASSUME NEW i \in DOMAIN x.scritti, x.scritti[i] # Assente
                   PROVE  i \in righe
        OBVIOUS
      <4>1. i \in Presenti(s)
        BY <1>9, <1>13 DEF Presenti
      <4>2. Vede(s, i).tenant = x.info
        BY <1>1, <1>9 DEF Sana, ScritturaSana
      <4> QED BY <4>1, <4>2, <2>2, <1>12
    <3>2. ASSUME NEW i \in Id \ DOMAIN w PROVE clienti[i].mandante # x.info
      <4>1. i \notin DOMAIN x.scritti /\ i \notin righe /\ Vede(s, i) = clienti[i]
        BY <1>4, <1>8
      <4>2. CASE clienti[i] = Assente
        BY <4>2, <1>10 DEF Assente
      <4>3. CASE clienti[i] # Assente
        <5>1. i \in Presenti(s)
          BY <4>1, <4>3 DEF Presenti
        <5>2. clienti[i].tenant # x.info
          BY <5>1, <4>1, <2>2, <1>12
        <5> QED BY <5>2, <4>3 DEF Inv, NessunArcoFraTenant
      <4> QED BY <4>2, <4>3
    <3> QED BY <3>1, <3>2, <1>4, <1>5 DEF CancellazioneSana
  <2>3. CASE ~c
    BY <2>3, <1>5 DEF CancellazioneSana
  <2> QED BY <2>1, <2>2, <2>3
<1>17. Sana(r)
  BY <1>1, <1>5, <1>10, <1>14, <1>15, <1>16 DEF Sana, SenzaTenant
<1>18. ASSUME NEW q \in Aperte \ {s}
       PROVE  Rispetta(sessione[q], r) /\ Rispetta(r, sessione[q])
  <2> DEFINE y == sessione[q]
  <2>1. Rispetta(y, x) /\ Rispetta(x, y) /\ Sana(y)
    BY DEF Inv
  <2>2. DOMAIN y.scritti \cap DOMAIN w = {}
    BY <2>1, <1>4, <1>11 DEF Rispetta
  <2>3. c => \A i \in DOMAIN y.scritti : y.scritti[i].mandante # x.info
    BY <2>1, <1>12 DEF Rispetta
  <2>4. Novita(y) => y.oggetto.id \notin righe
    BY <2>1, <1>2, <1>7, <1>8 DEF Sana, OggettoSano, Rispetta
  <2>5. y.cancellato => \A i \in DOMAIN w : w[i].mandante # y.info
    <3>1. y.cancellato => Assente.mandante # y.info
      BY <2>1 DEF Sana, SenzaTenant, Assente
    <3> QED BY <3>1, <2>1, <1>4 DEF Rispetta
  <2> HIDE DEF y, x
  <2>6. Rispetta(y, r)
    BY <2>1, <2>2, <2>3, <1>5 DEF Rispetta, Novita, Caricato
  <2>7. Rispetta(r, y)
    BY <2>1, <2>2, <2>4, <2>5, <1>4, <1>5 DEF Rispetta
  <2> QED BY <2>6, <2>7 DEF y
<1> QED BY <1>1, <1>6, <1>17, <1>18, Cambiata DEF r, w, x

\* delete_tenant_data.
LEMMA CancellaTenantInv ==
  ASSUME Inv, NEW s \in Sessioni, CancellaTenant(s)
  PROVE  Inv'
<1> DEFINE suoi == {i \in Presenti(s) : Filtro(s, Vede(s, i).tenant) /\ Passa(s, Vede(s, i).tenant)}
<1>1. s \in Aperte /\ Info(s) # Nessuno /\ suoi \cap Bloccati(s) = {} /\ ResteFerme
  BY DEF CancellaTenant, InTransazione
<1>2. suoi \in SUBSET Presenti(s) /\ \A i \in suoi : Vede(s, i).tenant = Info(s)
  BY DEF Filtro
<1>3. Passa(s, Info(s)) \in BOOLEAN
  BY DEF Passa
<1>4. Passa(s, Info(s)) => \A i \in Presenti(s) : Vede(s, i).tenant = Info(s) => i \in suoi
  BY DEF Filtro
<1>5. \A q \in Aperte \ {s} : \A i \in DOMAIN sessione[q].scritti :
        sessione[q].scritti[i].mandante # Info(s)
  BY DEF CancellaTenant
<1>6. sessione' = [sessione EXCEPT ![s] =
        [sessione[s] EXCEPT !.scritti = Cancellati(s, suoi), !.cancellato = Passa(s, Info(s))]]
  BY DEF CancellaTenant
<1> HIDE DEF suoi
<1> QED BY <1>1, <1>2, <1>3, <1>4, <1>5, <1>6, CancellateInv

\* A deletion without a filter deletes what the policies show.
LEMMA CancellaGrezzaInv ==
  ASSUME Inv, NEW s \in Sessioni, CancellaGrezza(s)
  PROVE  Inv'
<1> DEFINE righe == {i \in Presenti(s) : Passa(s, Vede(s, i).tenant)}
           x == sessione[s]
<1>1. s \in Aperte /\ rls /\ righe # {} /\ righe \cap Bloccati(s) = {} /\ ResteFerme
  BY DEF CancellaGrezza, InTransazione
<1>2. x \in SessioneAperta /\ Sana(x)
  BY <1>1, ApertaIntera DEF Inv, Aperte
<1>3. righe \in SUBSET Presenti(s)
  OBVIOUS
<1>4. \A i \in righe : Vede(s, i).tenant = x.locale
  BY <1>1 DEF Passa
<1>5. \A i \in righe : Vede(s, i).tenant # Nessuno
  BY <1>1, VedeRighe DEF Presenti
<1>6. Info(s) # Nessuno /\ \A i \in righe : Vede(s, i).tenant = Info(s)
  BY <1>1, <1>2, <1>4, <1>5 DEF Sana, Info
<1>7. x.cancellato \in BOOLEAN
  BY <1>2 DEF SessioneAperta
<1>8. sessione' = [sessione EXCEPT ![s] = [x EXCEPT !.scritti = Cancellati(s, righe)]]
  BY DEF CancellaGrezza
<1> HIDE DEF righe
<1>9. [x EXCEPT !.scritti = Cancellati(s, righe)]
      = [x EXCEPT !.scritti = Cancellati(s, righe), !.cancellato = x.cancellato]
  BY <1>2 DEF SessioneAperta
<1> QED BY <1>1, <1>3, <1>6, <1>7, <1>8, <1>9, CancellateInv

\* The commit: what the session wrote becomes what everybody sees, and the
\* others still hold what they held.
LEMMA ConfermaInv ==
  ASSUME Inv, NEW s \in Sessioni, Conferma(s)
  PROVE  Inv'
<1> DEFINE x == sessione[s]
<1>1. s \in Aperte /\ x \in SessioneAperta /\ Sana(x)
  BY ApertaIntera DEF Inv, Conferma, InTransazione, Aperte
<1>2. \A i \in Id : clienti'[i] = IF i \in DOMAIN x.scritti THEN x.scritti[i] ELSE clienti[i]
  BY DEF Conferma, Vede
<1>3. mandanti' = mandanti \ (IF x.cancellato THEN {x.info} ELSE {})
  BY DEF Conferma, VedeMandanti, Info
<1>4. rls' = rls /\ variabile' = variabile /\ sessione' = [sessione EXCEPT ![s] = Chiusa]
  BY DEF Conferma
<1>5. Forma'
  <2>1. \A i \in Id : Vede(s, i) \in Riga
    BY <1>1, VedeRighe
  <2>2. clienti' \in [Id -> Riga]
    BY <2>1 DEF Conferma
  <2> QED BY <2>2, <1>3, <1>4 DEF Inv, Forma
<1>6. NessunArcoFraTenant'
  <2> SUFFICES ASSUME NEW i \in Id, clienti'[i] # Assente
               PROVE  clienti'[i].mandante = clienti'[i].tenant /\ clienti'[i].mandante \in mandanti'
    BY DEF NessunArcoFraTenant
  <2>1. CASE i \in DOMAIN x.scritti
    BY <2>1, <1>1, <1>2, <1>3 DEF Sana, ScritturaSana, CancellazioneSana
  <2>2. CASE i \notin DOMAIN x.scritti
    BY <2>2, <1>1, <1>2, <1>3 DEF Sana, CancellazioneSana, Inv, NessunArcoFraTenant
  <2> QED BY <2>1, <2>2
<1>7. \A q \in Aperte' : q # s /\ q \in Aperte /\ sessione'[q] = sessione[q]
  <2>1. \A q \in Sessioni : sessione'[q] = IF q = s THEN Chiusa ELSE sessione[q]
    BY <1>4 DEF Inv, Forma
  <2> QED BY <2>1 DEF Aperte, Chiusa
<1>8. ASSUME NEW q \in Aperte' PROVE Sana(sessione[q])'
  <2> DEFINE y == sessione[q]
  <2>1. q # s /\ q \in Aperte /\ sessione'[q] = y
    BY <1>7
  <2>2. Sana(y) /\ Rispetta(x, y) /\ Rispetta(y, x)
    BY <1>1, <2>1 DEF Inv
  <2>3. y \in SessioneAperta
    BY <2>1, ApertaIntera DEF Inv, Aperte
  <2>4. DOMAIN y.scritti \subseteq Id /\ (y.oggetto # NessunOggetto => y.oggetto.id \in Id)
    BY <2>3 DEF SessioneAperta, Scritti, Oggetto
  <2>5. ScritturaSana(y)'
    <3> SUFFICES ASSUME NEW i \in DOMAIN y.scritti
                 PROVE  /\ clienti'[i].tenant \in {y.info, Nessuno}
                        /\ y.scritti[i] # Assente =>
                             /\ y.scritti[i].tenant = y.info /\ y.scritti[i].mandante = y.info
                             /\ y.info \in mandanti'
      BY <2>1 DEF ScritturaSana
    <3>1. clienti'[i] = clienti[i]
      BY <1>2, <2>2, <2>4 DEF Rispetta
    <3>2. x.cancellato => y.scritti[i].mandante # x.info
      BY <2>2 DEF Rispetta
    <3> QED BY <3>1, <3>2, <1>3, <2>2 DEF Sana, ScritturaSana
  <2>6. OggettoSano(y)'
    <3>1. Novita(y) => clienti'[y.oggetto.id] = Assente
      BY <1>2, <2>2, <2>4 DEF Rispetta, Sana, OggettoSano, Novita
    <3>2. Caricato(y) => clienti'[y.oggetto.id].tenant \in {y.oggetto.origine.tenant, Nessuno}
      <4> SUFFICES ASSUME Caricato(y)
                   PROVE  clienti'[y.oggetto.id].tenant \in {y.oggetto.origine.tenant, Nessuno}
        OBVIOUS
      <4> DEFINE i == y.oggetto.id
      <4>0. i \in Id
        BY <2>4 DEF Caricato
      <4>1. CASE i \notin DOMAIN x.scritti
        BY <4>0, <4>1, <1>2, <2>2 DEF Sana, OggettoSano
      <4>2. CASE i \in DOMAIN x.scritti /\ x.scritti[i] = Assente
        BY <4>0, <4>2, <1>2 DEF Assente
      <4>3. CASE i \in DOMAIN x.scritti /\ x.scritti[i] # Assente
        <5>1. y.oggetto.origine.tenant = x.info
          BY <4>3, <2>2 DEF Rispetta
        <5>2. x.scritti[i].tenant = x.info
          BY <4>3, <1>1 DEF Sana, ScritturaSana
        <5> QED BY <5>1, <5>2, <4>0, <4>3, <1>2
      <4> QED BY <4>1, <4>2, <4>3
    <3> QED BY <3>1, <3>2, <2>1, <2>2 DEF Sana, OggettoSano, Novita, Caricato
  <2>7. CancellazioneSana(y)'
    <3>1. y.cancellato => \A i \in Id \ DOMAIN y.scritti : clienti'[i].mandante # y.info
      BY <1>2, <2>2 DEF Sana, CancellazioneSana, Rispetta
    <3> QED BY <3>1, <2>1, <2>2 DEF Sana, CancellazioneSana
  <2>8. SenzaTenant(y)'
    BY <1>4, <2>1, <2>2 DEF Sana, SenzaTenant
  <2> QED BY <2>1, <2>2, <2>5, <2>6, <2>7, <2>8
          DEF Sana, ScritturaSana, OggettoSano, CancellazioneSana, SenzaTenant, Novita, Caricato
<1>9. \A q, p \in Aperte' : q # p => Rispetta(sessione'[p], sessione'[q])
  BY <1>7 DEF Inv
<1> QED BY <1>5, <1>6, <1>8, <1>9 DEF Inv, Rispetta, Novita, Caricato

-------------------------------------------------------------------------------
(***************************************************************************)
(* The theorems.                                                           *)
(***************************************************************************)
\* Every step of every session keeps the invariant.
LEMMA PassoInv == Inv /\ [Next]_vars => Inv'
<1> SUFFICES ASSUME Inv, [Next]_vars PROVE Inv'
  OBVIOUS
<1>1. CASE Next
  <2>1. PICK s \in Sessioni :
          \/ Apri(s) \/ Annulla(s) \/ Conferma(s)
          \/ \E t \in Tenant : LegaRepository(s, t)
          \/ \E r \in Cliente : Altera(s, r)
          \/ \E c \in Connessioni : Inizia(s, c)
          \/ LeggiRepository(s) \/ LeggiGrezza(s)
          \/ \E i \in Id, m \in Tenant :
               \/ \E t \in Tenant \cup {Nessuno} : Aggiungi(s, i, t, m)
               \/ \E t \in Tenant : AggiungiGrezza(s, i, t, m)
          \/ Flush(s) \/ CancellaTenant(s) \/ CancellaGrezza(s)
    BY <1>1 DEF Next
  <2>2. CASE Annulla(s)
    BY <2>2, ChiusaInv DEF Annulla
  <2>3. CASE Apri(s) \/ Conferma(s)
    BY <2>3, ApriInv, ConfermaInv
  <2>4. CASE \E t \in Tenant : LegaRepository(s, t)
    BY <2>4, LegaRepositoryInv
  <2>5. CASE \E r \in Cliente : Altera(s, r)
    BY <2>5, AlteraInv
  <2>6. CASE \E c \in Connessioni : Inizia(s, c)
    BY <2>6, IniziaInv
  <2>7. CASE LeggiRepository(s) \/ LeggiGrezza(s)
    BY <2>7, LeggiRepositoryInv, LeggiGrezzaInv
  <2>8. CASE \E i \in Id, m \in Tenant :
               \/ \E t \in Tenant \cup {Nessuno} : Aggiungi(s, i, t, m)
               \/ \E t \in Tenant : AggiungiGrezza(s, i, t, m)
    BY <2>8, AggiungiInv, AggiungiGrezzaInv
  <2>9. CASE Flush(s) \/ CancellaTenant(s) \/ CancellaGrezza(s)
    BY <2>9, FlushInv, CancellaTenantInv, CancellaGrezzaInv
  <2> QED BY <2>1, <2>2, <2>3, <2>4, <2>5, <2>6, <2>7, <2>8, <2>9
<1>2. CASE UNCHANGED vars
  BY <1>2 DEF vars, Inv, Forma, NessunArcoFraTenant, Aperte, Sana, ScritturaSana, OggettoSano,
              CancellazioneSana, SenzaTenant, Rispetta, Novita, Caricato
<1> QED BY <1>1, <1>2

\* The invariant holds in every reachable state.
THEOREM Invariante == Spec => []Inv
BY InvInit, PassoInv, PTL DEF Spec

\* The rows, the variable of the connections and the sessions keep their
\* types; inside a transaction the variable is the tenant of the session or
\* nothing, and two transactions never share a connection (rls.py, session.py).
THEOREM Tipi == Spec => []TypeOK
<1>1. Inv => TypeOK
  <2> SUFFICES ASSUME Inv PROVE TypeOK
    OBVIOUS
  <2>1. variabile \in [Connessioni -> Tenant \cup {Nessuno}]
    BY DEF Inv, Forma
  <2>2. ASSUME NEW s \in Aperte
        PROVE  /\ Info(s) \in Tenant \cup {Nessuno}
               /\ sessione[s].conn \in Connessioni \cup {Nessuno}
               /\ sessione[s].locale \in {Nessuno, Info(s)}
               /\ DOMAIN sessione[s].scritti \subseteq Id
    <3>1. sessione[s] \in SessioneAperta /\ Sana(sessione[s])
      BY ApertaIntera DEF Inv, Aperte
    <3> QED BY <3>1 DEF SessioneAperta, Scritti, Sana, Info
  <2>3. \A s, q \in Aperte : InTransazione(s) /\ InTransazione(q) /\ s # q
                             => sessione[s].conn # sessione[q].conn
    BY DEF Inv, Rispetta, InTransazione
  <2> QED BY <2>1, <2>2, <2>3 DEF TypeOK, Inv, Forma, Riga
<1> QED BY <1>1, Invariante, PTL

\* What a session reads, through the repository or under the policies, belongs
\* to its tenant, whoever had the connection before.
THEOREM LettureIsolate == Spec => []IsolamentoLetture
<1>1. Inv => IsolamentoLetture
  BY DEF Inv, Sana, IsolamentoLetture, Info
<1> QED BY <1>1, Invariante, PTL

\* What a transaction writes was and is of the tenant of its session, also
\* through an object loaded round the repository and altered in memory.
THEOREM ScrittureIsolate == Spec => []IsolamentoScritture
<1>1. Inv => IsolamentoScritture
  <2> SUFFICES ASSUME Inv, NEW s \in Aperte, NEW i \in DOMAIN sessione[s].scritti
               PROVE  {clienti[i].tenant, sessione[s].scritti[i].tenant} \subseteq {Info(s), Nessuno}
    BY DEF IsolamentoScritture
  <2>1. ScritturaSana(sessione[s])
    BY DEF Inv, Sana
  <2> QED BY <2>1 DEF ScritturaSana, Info, Assente
<1> QED BY <1>1, Invariante, PTL

\* No committed cliente refers to the mandante of another tenant, or to one
\* that a concurrent delete_tenant_data removed.
THEOREM NessunArco == Spec => []NessunArcoFraTenant
<1>1. Inv => NessunArcoFraTenant
  BY DEF Inv
<1> QED BY <1>1, Invariante, PTL
===============================================================================
