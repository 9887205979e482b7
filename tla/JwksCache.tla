----------------------------- MODULE JwksCache -----------------------------
(***************************************************************************)
(* The cache of Mind's public keys in auth/verifier.py                     *)
(* (CallTokenVerifier with a jwks_url), shared by the threads in which     *)
(* auth/context.py verifies the call tokens, without a lock.               *)
(*                                                                         *)
(* A thread may stop between any two reads or writes of the attributes     *)
(* they share, and while it waits for Mind.  The checks of a token that    *)
(* only look at the token (signature, audience, expiry, tenant) are left   *)
(* out: a token is the key id it names.                                    *)
(*                                                                         *)
(* Time is counted in intervals of the forced refresh (a minute in the     *)
(* code, which then has a TTL of five), and kept as ages: a date is the    *)
(* time passed since it, up to the last value that makes a difference.     *)
(***************************************************************************)
EXTENDS Integers

CONSTANTS
  Chiavi,                           \* key ids that Mind may publish
  Iniziali,                         \* those it publishes at the start
  Thread,                           \* worker threads
  JWKS_CACHE_TTL,
  JWKS_FORCED_REFRESH_MIN_INTERVAL,
  DurataFetch,                      \* bound: instants a fetch may straddle
  MaxRotazioni,                     \* bound: times Mind changes its keys
  MaxGuasti                         \* bound: fetches that fail

Assente == {"nessuna cache"}            \* _cached_jwks is None

ASSUME JwksAssumption ==
  /\ Iniziali \subseteq Chiavi /\ Assente \notin SUBSET Chiavi
  /\ {JWKS_CACHE_TTL, JWKS_FORCED_REFRESH_MIN_INTERVAL, DurataFetch} \subseteq Nat
  /\ {MaxRotazioni, MaxGuasti} \subseteq Nat

\* The longest a key may be honoured after its withdrawal, or ignored after
\* its publication.
Ritardo == JWKS_CACHE_TTL + DurataFetch

\* One more instant for an age that is compared with "limite".
Invecchia(eta, limite) == IF eta > limite THEN eta ELSE eta + 1

VARIABLES
  pubblicate,   \* the keys Mind publishes now
  etaChiave,    \* [Chiavi -> Nat]: since when each key is published, or is not
  cached, etaCache, etaForzato,  \* the attributes of the verifier
  filo,         \* [Thread -> ...]: what each thread is doing
  rotazioni, guasti

mind == <<pubblicate, etaChiave, rotazioni>>
cache == <<cached, etaCache, etaForzato>>
vars == <<mind, cache, filo, guasti>>

Risposte == {"accetta", "rifiuta", "503"}
Punti == {"jwks", "usa", "forza", "segna", "attende", "scrive", "data", "torna"} \cup Risposte

Fermo == [pc |-> "fermo"]
Libero(t) == filo[t].pc \in Risposte \cup {"fermo"}
InAttesa(t) == filo[t].pc \in {"attende", "scrive"}

\* The clock is time.monotonic(): it may be young when the process starts,
\* and then no refresh can be forced yet.
Init ==
  /\ pubblicate = Iniziali
  /\ etaChiave = [k \in Chiavi |-> Ritardo + 1]
  /\ cached = Assente /\ etaCache = 0
  /\ etaForzato \in 0 .. JWKS_FORCED_REFRESH_MIN_INTERVAL + 1
  /\ filo = [t \in Thread |-> Fermo]
  /\ rotazioni = 0 /\ guasti = 0

-----------------------------------------------------------------------------
\* Mind publishes a new key or withdraws one.
Ruota ==
  /\ rotazioni < MaxRotazioni /\ rotazioni' = rotazioni + 1
  /\ \E k \in Chiavi :
       /\ pubblicate' = IF k \in pubblicate THEN pubblicate \ {k} ELSE pubblicate \cup {k}
       /\ etaChiave' = [etaChiave EXCEPT ![k] = 0]
  /\ UNCHANGED <<cache, filo, guasti>>

-----------------------------------------------------------------------------
(***************************************************************************)
(* verify, thread by thread.                                               *)
(***************************************************************************)
Va(t, pc) == filo' = [filo EXCEPT ![t].pc = pc]

\* A token arrives at a free thread; the last answer is forgotten.
Arriva(t, kid) ==
  /\ Libero(t)
  /\ filo' = [filo EXCEPT ![t] =
       [pc |-> "jwks", kid |-> kid, forzato |-> FALSE, jwks |-> {}, inizio |-> 0]]
  /\ UNCHANGED <<mind, cache, guasti>>

\* Fault: what is in the cache never expires.
Scaduta_mai == FALSE

Scaduta == etaCache > JWKS_CACHE_TTL

\* Fault: an empty cache counts as a fresh one.
GuardaCache_ancheVuota(t) ==
  /\ filo[t].pc = "jwks"
  /\ IF Scaduta \/ filo[t].forzato
     THEN filo' = [filo EXCEPT ![t].pc = "attende", ![t].inizio = 0]
     ELSE Va(t, "usa")
  /\ UNCHANGED <<mind, cache, guasti>>

\* _jwks: is a fetch needed?
GuardaCache(t) ==
  /\ filo[t].pc = "jwks"
  /\ IF cached = Assente \/ Scaduta \/ filo[t].forzato
     THEN filo' = [filo EXCEPT ![t].pc = "attende", ![t].inizio = 0]
     ELSE Va(t, "usa")
  /\ UNCHANGED <<mind, cache, guasti>>

\* Mind's answer leaves Mind.
MindRisponde(t) ==
  /\ filo[t].pc = "attende"
  /\ filo' = [filo EXCEPT ![t].pc = "scrive", ![t].jwks = pubblicate]
  /\ UNCHANGED <<mind, cache, guasti>>

\* Fault: a fetch that failed renews the cache it could not replace.
FetchFallito_rinnova(t) ==
  /\ filo[t].pc = "attende"
  /\ guasti < MaxGuasti /\ guasti' = guasti + 1
  /\ etaCache' = 0
  /\ Va(t, IF cached = Assente THEN "503" ELSE "torna")
  /\ UNCHANGED <<mind, cached, etaForzato>>

\* A timeout or an error: 503, even if there is something in the cache.
FetchFallito(t) ==
  /\ filo[t].pc = "attende"
  /\ guasti < MaxGuasti /\ guasti' = guasti + 1
  /\ Va(t, "503")
  /\ UNCHANGED <<mind, cache>>

ScriveJwks(t) ==
  /\ filo[t].pc = "scrive"
  /\ cached' = filo[t].jwks
  /\ filo' = [filo EXCEPT ![t].pc = "data", ![t].jwks = {}, ![t].inizio = 0]
  /\ UNCHANGED <<mind, etaCache, etaForzato, guasti>>

ScriveData(t) ==
  /\ filo[t].pc = "data"
  /\ etaCache' = 0
  /\ Va(t, "torna")
  /\ UNCHANGED <<mind, cached, etaForzato, guasti>>

\* The attribute is returned, whoever wrote it last, and the key looked for
\* in it (_find_key); after a miss one forced refresh, if there was none yet.
CercaChiave(t) ==
  /\ filo[t].pc \in {"usa", "torna"}
  /\ Va(t, IF filo[t].kid \in cached THEN "accetta"
           ELSE IF filo[t].forzato THEN "rifiuta" ELSE "forza")
  /\ UNCHANGED <<mind, cache, guasti>>

PuoForzare == etaForzato > JWKS_FORCED_REFRESH_MIN_INTERVAL

\* _can_force_refresh; the assignment is another step.
ControllaIntervallo(t) ==
  /\ filo[t].pc = "forza"
  /\ Va(t, IF PuoForzare THEN "segna" ELSE "rifiuta")
  /\ UNCHANGED <<mind, cache, guasti>>

\* The refresh is spent before its outcome is known.
SegnaForzato(t) ==
  /\ filo[t].pc = "segna"
  /\ etaForzato' = 0
  /\ filo' = [filo EXCEPT ![t].pc = "jwks", ![t].forzato = TRUE]
  /\ UNCHANGED <<mind, cached, etaCache, guasti>>

-----------------------------------------------------------------------------
\* Between two instants a thread does all it can, but for a fetch, that may
\* take longer.
PassaIlTempo ==
  /\ \A t \in Thread : Libero(t) \/ (InAttesa(t) /\ filo[t].inizio < DurataFetch)
  /\ filo' = [t \in Thread |->
       IF Libero(t) THEN Fermo ELSE [filo[t] EXCEPT !.inizio = @ + 1]]
  /\ etaChiave' = [k \in Chiavi |-> Invecchia(etaChiave[k], Ritardo)]
  /\ etaCache' = Invecchia(etaCache, JWKS_CACHE_TTL)
  /\ etaForzato' = Invecchia(etaForzato, JWKS_FORCED_REFRESH_MIN_INTERVAL)
  /\ UNCHANGED <<pubblicate, rotazioni, cached, guasti>>

Passo(t) ==
  \/ GuardaCache(t) \/ MindRisponde(t) \/ FetchFallito(t)
  \/ ScriveJwks(t) \/ ScriveData(t) \/ CercaChiave(t)
  \/ ControllaIntervallo(t) \/ SegnaForzato(t)

Next ==
  \/ Ruota
  \/ \E t \in Thread : Passo(t) \/ \E k \in Chiavi : Arriva(t, k)
  \/ PassaIlTempo

Spec == Init /\ [][Next]_vars

-----------------------------------------------------------------------------
(***************************************************************************)
(* Properties.                                                             *)
(***************************************************************************)

\* Types; a thread looks for a key in a key set, never in None, whatever the
\* other threads do between its steps (verifier.py:84 and 76).
TypeOK ==
  /\ pubblicate \subseteq Chiavi
  /\ etaChiave \in [Chiavi -> 0 .. Ritardo + 1]
  /\ cached \in (SUBSET Chiavi) \cup {Assente}
  /\ etaCache \in 0 .. JWKS_CACHE_TTL + 1
  /\ etaForzato \in 0 .. JWKS_FORCED_REFRESH_MIN_INTERVAL + 1
  /\ filo \in [Thread -> {Fermo} \cup
       [pc : Punti, kid : Chiavi, forzato : BOOLEAN,
        jwks : SUBSET Chiavi, inizio : 0 .. DurataFetch]]
  /\ \A t \in Thread : filo[t].pc \in {"usa", "data", "torna"} => cached \in SUBSET Chiavi
  /\ rotazioni \in 0 .. MaxRotazioni /\ guasti \in 0 .. MaxGuasti

\* A key that Mind withdrew is honoured for no longer than the cache lives,
\* and the fetch that filled it: JWKS_CACHE_TTL_SECONDS bounds it although no
\* two of the attributes are written together and fetches may overtake.
RitirataScade ==
  \A t \in Thread : LET k == filo[t].kid IN
    filo[t].pc = "accetta" /\ k \notin pubblicate => etaChiave[k] <= Ritardo

\* "... otherwise one would stay at 401 until the cache expires"
\* (verifier.py:109): that is the worst case for a key just published, also
\* when a slow fetch writes older keys over newer ones.
PubblicataRiconosciuta ==
  \A t \in Thread : LET k == filo[t].kid IN
    filo[t].pc = "rifiuta" /\ k \in pubblicate => etaChiave[k] <= Ritardo
=============================================================================
