-------------------------- MODULE IsolamentoTenant --------------------------
(***************************************************************************)
(* The four nets that keep the tenants apart (adapters/db/repository.py,   *)
(* rls.py, session.py, models.py): the filter of the repository, the guard *)
(* before the flush, the composite foreign keys, and the row level         *)
(* security of Postgres, which trusts a variable that the code sets on a   *)
(* connection that the pool will give to somebody else.                    *)
(*                                                                         *)
(* Two tables stand for the schema: a mandante per tenant, whose id is the *)
(* tenant's name, and the clienti, which refer to one.  Code that goes     *)
(* round the repository is modelled too: it is what the second, third and  *)
(* fourth net are for (tests/test_tenant_isolation.py, test_rls.py).       *)
(***************************************************************************)

CONSTANTS
  Tenant,
  Id,             \* ids of the clienti
  Sessioni,       \* sessions open together
  Connessioni,    \* connections of the pool
  Iniziali,       \* [Id -> ...]: clienti committed at the start
  Nessuno         \* no tenant: NULL, or the empty string of a spent variable

Cliente == [tenant : Tenant, mandante : Tenant]
Assente == [tenant |-> Nessuno, mandante |-> Nessuno]

ASSUME IsolamentoAssumption ==
  /\ Nessuno \notin Tenant
  /\ Iniziali \in [Id -> Cliente \cup {Assente}]
  /\ \A i \in Id : Iniziali[i].tenant = Iniziali[i].mandante

VARIABLES
  rls,         \* the role is subject to the policies (Postgres, no superuser)
  mandanti,    \* tenants whose mandante is committed
  clienti,     \* [Id -> Cliente or Assente]: committed
  variabile,   \* [Connessioni -> ...]: irec.tenant_id outside transactions
  sessione     \* [Sessioni -> ...]

vars == <<rls, mandanti, clienti, variabile, sessione>>

(***************************************************************************)
(* A session: the tenant in session.info, the connection of its open       *)
(* transaction and the value of the variable in it, the rows as the        *)
(* transaction sees them, one object in memory, the tenants of what it     *)
(* read.                                                                   *)
(***************************************************************************)
Chiusa == [aperta |-> FALSE]
NessunOggetto == [id |-> Nessuno]
Aperte == {s \in Sessioni : sessione[s].aperta}
InTransazione(s) == s \in Aperte /\ sessione[s].conn # Nessuno
Info(s) == sessione[s].info
Occupate == {sessione[s].conn : s \in {q \in Aperte : InTransazione(q)}}

\* Rows of a transaction: what it wrote over what is committed.
Vede(s, i) == IF i \in DOMAIN sessione[s].scritti THEN sessione[s].scritti[i] ELSE clienti[i]
VedeMandanti(s) == mandanti \ (IF sessione[s].cancellato THEN {Info(s)} ELSE {})
Presenti(s) == {i \in Id : Vede(s, i) # Assente}

\* Rows another transaction has written: a write on them waits.
Bloccati(s) == UNION {DOMAIN sessione[q].scritti : q \in Aperte \ {s}}

Init ==
  /\ rls \in BOOLEAN
  /\ mandanti = Tenant
  /\ clienti = Iniziali
  /\ variabile = [c \in Connessioni |-> Nessuno]
  /\ sessione = [s \in Sessioni |-> Chiusa]

-----------------------------------------------------------------------------
(***************************************************************************)
(* Sessions and transactions.                                              *)
(***************************************************************************)
ResteFerme == UNCHANGED <<rls, mandanti, clienti, variabile>>

Apri(s) ==
  /\ s \notin Aperte
  /\ sessione' = [sessione EXCEPT ![s] =
       [aperta |-> TRUE, info |-> Nessuno, conn |-> Nessuno, locale |-> Nessuno,
        scritti |-> << >>, cancellato |-> FALSE, oggetto |-> NessunOggetto, letti |-> {}]]
  /\ UNCHANGED <<rls, mandanti, clienti, variabile>>

\* Rollback, or an exception that becomes one; the session is closed.
Annulla(s) ==
  /\ s \in Aperte
  /\ sessione' = [sessione EXCEPT ![s] = Chiusa]
  /\ ResteFerme

\* TenantRepository.__init__: one session, one tenant.
LegaRepository(s, t) ==
  /\ s \in Aperte
  /\ IF Info(s) \in {Nessuno, t}
     THEN sessione' = [sessione EXCEPT ![s].info = t]
     ELSE sessione' = [sessione EXCEPT ![s] = Chiusa]
  /\ ResteFerme

\* Fault: set_config without "local": the variable outlives the transaction.
ImpostaTenant_perSempre(s, c) ==
  variabile' = [variabile EXCEPT ![c] = IF Info(s) = Nessuno THEN @ ELSE Info(s)]

\* set_config(..., true): the variable of the connection does not change.
ImpostaTenant(s, c) == UNCHANGED variabile

\* The first statement of a session begins its transaction (after_begin).
Inizia(s, c) ==
  /\ s \in Aperte /\ ~InTransazione(s)
  /\ c \notin Occupate
  /\ ImpostaTenant(s, c)
  /\ sessione' = [sessione EXCEPT ![s].conn = c,
       ![s].locale = IF Info(s) = Nessuno THEN variabile[c] ELSE Info(s)]
  /\ UNCHANGED <<rls, mandanti, clienti>>

Conferma(s) ==
  /\ InTransazione(s)
  /\ clienti' = [i \in Id |-> Vede(s, i)]
  /\ mandanti' = VedeMandanti(s)
  /\ sessione' = [sessione EXCEPT ![s] = Chiusa]
  /\ UNCHANGED <<rls, variabile>>

-----------------------------------------------------------------------------
(***************************************************************************)
(* Reads.                                                                  *)
(***************************************************************************)

\* The policy of rls.py: nothing passes if the variable is not set.
Passa(s, tenant) == rls => sessione[s].locale = tenant

\* select of the repository.
Filtro(s, tenant) == tenant = Info(s)

\* The rows read, and one of them in memory, or none.
Legge(s, righe) ==
  /\ \/ /\ righe = {}
        /\ sessione' = [sessione EXCEPT ![s].oggetto = NessunOggetto]
     \/ \E i \in righe : sessione' = [sessione EXCEPT
          ![s].oggetto = [id |-> i, riga |-> Vede(s, i), origine |-> Vede(s, i)],
          ![s].letti = @ \cup {Vede(s, j).tenant : j \in righe}]
  /\ ResteFerme

\* get, list, find.
LeggiRepository(s) ==
  /\ InTransazione(s) /\ Info(s) # Nessuno
  /\ Legge(s, {i \in Presenti(s) : Filtro(s, Vede(s, i).tenant) /\ Passa(s, Vede(s, i).tenant)})

\* A query written outside the repository, without a filter.  Where the
\* policies do not apply it reads everything, and only what is done with it
\* can be stopped: there it is a read by id that leaves an object in memory.
LeggiGrezza(s) ==
  /\ InTransazione(s)
  /\ IF rls
     THEN Legge(s, {i \in Presenti(s) : Passa(s, Vede(s, i).tenant)})
     ELSE /\ Info(s) # Nessuno
          /\ \E i \in Presenti(s) : sessione' = [sessione EXCEPT
               ![s].oggetto = [id |-> i, riga |-> Vede(s, i), origine |-> Vede(s, i)]]
          /\ ResteFerme

-----------------------------------------------------------------------------
(***************************************************************************)
(* Writes through the session.                                             *)
(***************************************************************************)

\* A fresh id (uuid4).
Nuovo(i) ==
  /\ clienti[i] = Assente
  /\ \A q \in Aperte : i \notin DOMAIN sessione[q].scritti /\ sessione[q].oggetto.id # i

\* add of the repository: the tenant is forced, a different one refused (and
\* the session rolled back).
Aggiungi(s, i, tenant, mandante) ==
  /\ s \in Aperte /\ Info(s) # Nessuno /\ Nuovo(i)
  /\ IF tenant \in {Nessuno, Info(s)}
     THEN sessione' = [sessione EXCEPT ![s].oggetto =
            [id |-> i, riga |-> [tenant |-> Info(s), mandante |-> mandante], origine |-> Assente]]
     ELSE sessione' = [sessione EXCEPT ![s] = Chiusa]
  /\ ResteFerme

\* session.add without the repository; where the policies do not apply, in a
\* session that has a tenant.
AggiungiGrezza(s, i, tenant, mandante) ==
  /\ s \in Aperte /\ (rls \/ Info(s) # Nessuno) /\ Nuovo(i)
  /\ sessione' = [sessione EXCEPT ![s].oggetto =
       [id |-> i, riga |-> [tenant |-> tenant, mandante |-> mandante], origine |-> Assente]]
  /\ ResteFerme

\* An object changed in memory, its tenant too.
Altera(s, riga) ==
  /\ s \in Aperte /\ sessione[s].oggetto # NessunOggetto
  /\ sessione' = [sessione EXCEPT ![s].oggetto.riga = riga]
  /\ ResteFerme

\* Fault: the guard looks at the new value only.
Guardia_senzaStorico(s, o) == Info(s) # Nessuno => o.riga.tenant = Info(s)

\* _block_cross_tenant_writes; the old value counts if it was changed.
Guardia(s, o) ==
  Info(s) # Nessuno =>
    /\ o.riga.tenant = Info(s)
    /\ o.origine # Assente => o.origine.tenant = Info(s)

\* Fault: the foreign key refers to the id alone.
ChiaveEsterna_semplice(s, riga) == riga.mandante \in VedeMandanti(s)

\* tenant_fk: the pair (tenant_id, mandante_id) exists.
ChiaveEsterna(s, riga) == riga.mandante \in VedeMandanti(s) /\ riga.tenant = riga.mandante

\* What the policies and the constraints let through: an insert, or an update
\* of a row that is still there.
Accettata(s, o) ==
  /\ Passa(s, o.riga.tenant) /\ ChiaveEsterna(s, o.riga)
  /\ o.origine = Assente \/ (o.id \in Presenti(s) /\ Passa(s, Vede(s, o.id).tenant))

\* A deletion under way holds its mandante.
MandanteTrattenuto(s, mandante) ==
  \E q \in Aperte \ {s} : sessione[q].cancellato /\ Info(q) = mandante

Flush(s) ==
  LET o == sessione[s].oggetto IN
  /\ InTransazione(s) /\ o # NessunOggetto /\ o.riga # o.origine
  /\ o.id \notin Bloccati(s) /\ ~MandanteTrattenuto(s, o.riga.mandante)
  /\ IF Guardia(s, o) /\ Accettata(s, o)
     THEN sessione' = [sessione EXCEPT ![s].oggetto = NessunOggetto,
            ![s].scritti = [i \in DOMAIN @ \cup {o.id} |->
                              IF i = o.id THEN o.riga ELSE @[i]]]
     ELSE sessione' = [sessione EXCEPT ![s] = Chiusa]
  /\ ResteFerme

\* The rows deleted by a statement, as those of the transaction.
Cancellati(s, righe) ==
  [i \in DOMAIN sessione[s].scritti \cup righe |->
     IF i \in righe THEN Assente ELSE sessione[s].scritti[i]]

\* delete_tenant_data: every table, the clienti before the mandante; a cliente
\* of the tenant that nobody else has seen yet makes it wait.
CancellaTenant(s) ==
  LET suoi == {i \in Presenti(s) : Filtro(s, Vede(s, i).tenant) /\ Passa(s, Vede(s, i).tenant)} IN
  /\ InTransazione(s) /\ Info(s) # Nessuno
  /\ \A q \in Aperte \ {s} :
       /\ ~sessione[q].cancellato \/ Info(q) # Info(s)
       /\ \A i \in DOMAIN sessione[q].scritti : sessione[q].scritti[i].mandante # Info(s)
  /\ suoi \cap Bloccati(s) = {}
  /\ sessione' = [sessione EXCEPT ![s].scritti = Cancellati(s, suoi),
                                  ![s].cancellato = Passa(s, Info(s))]
  /\ ResteFerme

\* A DELETE outside the repository, without a filter, under the policies.
CancellaGrezza(s) ==
  LET righe == {i \in Presenti(s) : Passa(s, Vede(s, i).tenant)} IN
  /\ InTransazione(s) /\ rls
  /\ righe # {} /\ righe \cap Bloccati(s) = {}
  /\ sessione' = [sessione EXCEPT ![s].scritti = Cancellati(s, righe)]
  /\ ResteFerme

-----------------------------------------------------------------------------
Next ==
  \E s \in Sessioni :
    \/ Apri(s) \/ Annulla(s) \/ Conferma(s)
    \/ \E t \in Tenant : LegaRepository(s, t)
    \/ \E r \in Cliente : Altera(s, r)
    \/ \E c \in Connessioni : Inizia(s, c)
    \/ LeggiRepository(s) \/ LeggiGrezza(s)
    \/ \E i \in Id, m \in Tenant :
         \/ \E t \in Tenant \cup {Nessuno} : Aggiungi(s, i, t, m)
         \/ \E t \in Tenant : AggiungiGrezza(s, i, t, m)
    \/ Flush(s) \/ CancellaTenant(s) \/ CancellaGrezza(s)

Spec == Init /\ [][Next]_vars

-----------------------------------------------------------------------------
(***************************************************************************)
(* Properties.                                                             *)
(***************************************************************************)

\* Types; inside a transaction the variable of the policies is the tenant of
\* the session, or nothing if the transaction is older than the repository.
TypeOK ==
  /\ rls \in BOOLEAN /\ mandanti \subseteq Tenant
  /\ clienti \in [Id -> Cliente \cup {Assente}]
  /\ variabile \in [Connessioni -> Tenant \cup {Nessuno}]
  /\ \A s \in Aperte :
       /\ Info(s) \in Tenant \cup {Nessuno}
       /\ sessione[s].conn \in Connessioni \cup {Nessuno}
       /\ sessione[s].locale \in {Nessuno, Info(s)}
       /\ DOMAIN sessione[s].scritti \subseteq Id
  /\ \A s, q \in Aperte : InTransazione(s) /\ InTransazione(q) /\ s # q
                         => sessione[s].conn # sessione[q].conn

\* "A tenant must never see ... the data of another" (test_tenant_isolation.py):
\* through the repository whatever the role of the database, with a query of
\* any kind under the policies, on a connection used before by anybody.
IsolamentoLetture == \A s \in Aperte : sessione[s].letti \subseteq {Info(s)}

\* "... nor touch": a row, before and after what a transaction does to it,
\* belongs to the tenant of the session, also if the object was loaded round
\* the repository and its tenant changed on the way.
IsolamentoScritture ==
  \A s \in Aperte : \A i \in DOMAIN sessione[s].scritti :
    {clienti[i].tenant, sessione[s].scritti[i].tenant} \subseteq {Info(s), Nessuno}

\* No edge between tenants, and none to a mandante that a deletion removed
\* while the cliente was being written (models.py:81).
NessunArcoFraTenant ==
  \A i \in Id : clienti[i] # Assente =>
    clienti[i].mandante = clienti[i].tenant /\ clienti[i].mandante \in mandanti
=============================================================================
