-------------------------- MODULE JwksCacheProofs --------------------------
(***************************************************************************)
(* Proofs about module JwksCache: any number of threads and of keys, any   *)
(* lifetimes.                                                              *)
(*                                                                         *)
(* What a thread accepts or refuses rests on a set of keys that another    *)
(* thread may have written, dated by a third one.  The invariant says how  *)
(* old each such set may be: what a fetch brings is no older than the      *)
(* fetch, what is in the cache no older than its date plus a fetch, and a  *)
(* date is written in the same instant as some key set.                    *)
(***************************************************************************)
EXTENDS JwksCache, TLAPS

\* On k, the key set C does not say what Mind publishes now.
Diverge(C, k) == (k \in C) # (k \in pubblicate)

\* A key set under way from Mind is as old as its fetch at most.
FetchRecente ==
  \A t \in Thread : filo[t].pc = "scrive" =>
    \A k \in Chiavi : Diverge(filo[t].jwks, k) => etaChiave[k] <= filo[t].inizio

\* Until its date is written, a key set in the cache is as old as a fetch.
CacheScrittaOra ==
  \A t \in Thread : filo[t].pc = "data" =>
    \A k \in Chiavi : Diverge(cached, k) => etaChiave[k] <= DurataFetch

\* A cache that is not expired is as old as its date, and a fetch.
CacheDatata ==
  cached # Assente /\ ~Scaduta =>
    \A k \in Chiavi : Diverge(cached, k) => etaChiave[k] <= etaCache + DurataFetch

\* A thread that looks into the cache does not look into an expired one.
CacheViva == \A t \in Thread : filo[t].pc \in {"usa", "torna"} => ~Scaduta

\* An answer, or the way to it, rests on keys of the longest delay at most.
RispostaRecente ==
  \A t \in Thread : LET k == filo[t].kid IN
    /\ filo[t].pc = "accetta" /\ k \notin pubblicate => etaChiave[k] <= Ritardo
    /\ filo[t].pc \in {"forza", "segna", "rifiuta"} /\ k \in pubblicate => etaChiave[k] <= Ritardo

Inv ==
  /\ TypeOK
  /\ FetchRecente /\ CacheScrittaOra /\ CacheDatata /\ CacheViva /\ RispostaRecente

Parti == FetchRecente /\ CacheScrittaOra /\ CacheDatata /\ CacheViva /\ RispostaRecente

\* A thread at work.
Attivi ==
  [pc : Punti, kid : Chiavi, forzato : BOOLEAN, jwks : SUBSET Chiavi, inizio : 0 .. DurataFetch]

-----------------------------------------------------------------------------
\* The delays are natural numbers.
LEMMA Costanti ==
  /\ JWKS_CACHE_TTL \in Nat /\ JWKS_FORCED_REFRESH_MIN_INTERVAL \in Nat /\ DurataFetch \in Nat
  /\ MaxRotazioni \in Nat /\ MaxGuasti \in Nat /\ Ritardo = JWKS_CACHE_TTL + DurataFetch
  BY JwksAssumption DEF Ritardo

\* A thread that is not idle has a token.
LEMMA AlLavoro ==
  ASSUME TypeOK, NEW t \in Thread, filo[t].pc # "fermo"
  PROVE  filo[t] \in Attivi
  BY DEF TypeOK, Fermo, Attivi

\* What becomes of the threads when one of them moves.
LEMMA UnFilo ==
  ASSUME TypeOK, NEW t \in Thread, NEW r \in Attivi, filo' = [filo EXCEPT ![t] = r]
  PROVE  /\ filo' \in [Thread -> {Fermo} \cup Attivi]
         /\ filo'[t] = r
         /\ \A u \in Thread \ {t} : filo'[u] = filo[u]
  BY DEF TypeOK, Attivi

\* A step of one thread keeps the types if the cache does.
LEMMA TipiDiUnFilo ==
  ASSUME TypeOK, NEW t \in Thread, NEW r \in Attivi, filo' = [filo EXCEPT ![t] = r],
         cached' \in (SUBSET Chiavi) \cup {Assente},
         cached' = cached \/ cached' \in SUBSET Chiavi,
         r.pc \in {"usa", "data", "torna"} => cached' \in SUBSET Chiavi,
         etaCache' \in {etaCache, 0}, etaForzato' \in {etaForzato, 0},
         guasti' \in 0 .. MaxGuasti, UNCHANGED mind
  PROVE  TypeOK'
<1>1. filo' \in [Thread -> {Fermo} \cup Attivi]
  BY UnFilo
<1>2. \A u \in Thread : filo'[u].pc \in {"usa", "data", "torna"} => cached' \in SUBSET Chiavi
  BY UnFilo DEF TypeOK
<1> QED BY <1>1, <1>2, Costanti DEF TypeOK, mind, Attivi

\* The initial states satisfy the invariant.
LEMMA InvInit == Init => Inv
<1> SUFFICES ASSUME Init PROVE Inv
  OBVIOUS
<1> USE Costanti
<1>1. \A t \in Thread : filo[t].pc = "fermo"
  BY DEF Init, Fermo
<1>2. TypeOK
  BY <1>1, JwksAssumption DEF Init, TypeOK
<1>3. Parti
  BY <1>1 DEF Init, Parti, FetchRecente, CacheScrittaOra, CacheDatata, CacheViva, RispostaRecente
<1> QED BY <1>2, <1>3 DEF Inv, Parti

-----------------------------------------------------------------------------
(***************************************************************************)
(* One lemma per action.                                                   *)
(***************************************************************************)
\* Whether a fetch is needed: an expired cache is never used.
LEMMA GuardaCacheInv ==
  ASSUME Inv, NEW t \in Thread, GuardaCache(t)
  PROVE  Inv'
<1> DEFINE r == filo'[t]
<1>1. filo[t] \in Attivi /\ filo[t].pc = "jwks" /\ UNCHANGED <<mind, cache, guasti>>
  BY AlLavoro DEF GuardaCache, Inv
<1>2. /\ filo' = [filo EXCEPT ![t] = r]
      /\ r \in Attivi /\ r.kid = filo[t].kid
      /\ r.pc = "attende" \/ (r.pc = "usa" /\ cached # Assente /\ ~Scaduta)
  BY <1>1, Costanti DEF GuardaCache, Va, Attivi, Punti, Inv, TypeOK
<1>3. \A u \in Thread \ {t} : filo'[u] = filo[u]
  BY <1>2, UnFilo DEF Inv
<1> HIDE DEF r
<1>4. TypeOK'
  BY <1>1, <1>2, TipiDiUnFilo DEF Inv, TypeOK, cache
<1>5. Parti'
  BY <1>1, <1>2, <1>3
  DEF Inv, Parti, FetchRecente, CacheScrittaOra, CacheDatata, CacheViva, RispostaRecente,
      Diverge, Scaduta, mind, cache
<1> QED BY <1>4, <1>5 DEF Inv, Parti

\* The key set leaves Mind as it is there.
LEMMA MindRispondeInv ==
  ASSUME Inv, NEW t \in Thread, MindRisponde(t)
  PROVE  Inv'
<1> DEFINE r == filo'[t]
<1>1. filo[t] \in Attivi /\ filo[t].pc = "attende" /\ UNCHANGED <<mind, cache, guasti>>
  BY AlLavoro DEF MindRisponde, Inv
<1>2. /\ filo' = [filo EXCEPT ![t] = r]
      /\ r \in Attivi /\ r.kid = filo[t].kid
      /\ r.pc = "scrive" /\ r.jwks = pubblicate
  BY <1>1, Costanti DEF MindRisponde, Va, Attivi, Punti, Risposte, Inv, TypeOK
<1>3. \A u \in Thread \ {t} : filo'[u] = filo[u]
  BY <1>2, UnFilo DEF Inv
<1> HIDE DEF r
<1>4. TypeOK'
  BY <1>1, <1>2, TipiDiUnFilo DEF Inv, TypeOK, cache
<1>5. Parti'
  BY <1>1, <1>2, <1>3
  DEF Inv, Parti, FetchRecente, CacheScrittaOra, CacheDatata, CacheViva, RispostaRecente,
      Diverge, Scaduta, mind, cache
<1> QED BY <1>4, <1>5 DEF Inv, Parti

\* A fetch that fails leaves the cache as it is.
LEMMA FetchFallitoInv ==
  ASSUME Inv, NEW t \in Thread, FetchFallito(t)
  PROVE  Inv'
<1> DEFINE r == filo'[t]
<1>1. filo[t] \in Attivi /\ filo[t].pc = "attende" /\ UNCHANGED <<mind, cache>>
     /\ guasti' \in 0 .. MaxGuasti
  BY AlLavoro, Costanti DEF FetchFallito, Inv, TypeOK
<1>2. /\ filo' = [filo EXCEPT ![t] = r]
      /\ r \in Attivi /\ r.kid = filo[t].kid
      /\ r.pc = "503"
  BY <1>1, Costanti DEF FetchFallito, Va, Attivi, Punti, Risposte, Inv, TypeOK
<1>3. \A u \in Thread \ {t} : filo'[u] = filo[u]
  BY <1>2, UnFilo DEF Inv
<1> HIDE DEF r
<1>4. TypeOK'
  BY <1>1, <1>2, TipiDiUnFilo DEF Inv, TypeOK, cache
<1>5. Parti'
  BY <1>1, <1>2, <1>3
  DEF Inv, Parti, FetchRecente, CacheScrittaOra, CacheDatata, CacheViva, RispostaRecente,
      Diverge, Scaduta, mind, cache
<1> QED BY <1>4, <1>5 DEF Inv, Parti

\* A key set in the cache is as old as its fetch, whatever its date says.
LEMMA ScriveJwksInv ==
  ASSUME Inv, NEW t \in Thread, ScriveJwks(t)
  PROVE  Inv'
<1> DEFINE r == [filo[t] EXCEPT !.pc = "data", !.jwks = {}, !.inizio = 0]
<1>1. /\ filo[t] \in Attivi /\ filo[t].pc = "scrive"
      /\ UNCHANGED <<mind, etaCache, etaForzato, guasti>>
      /\ cached' = filo[t].jwks /\ cached' \in SUBSET Chiavi /\ filo[t].inizio \in 0 .. DurataFetch
  BY AlLavoro DEF ScriveJwks, Inv, Attivi
<1>2. r \in Attivi /\ r.pc = "data"
  <2>1. "data" \in Punti /\ {} \in SUBSET Chiavi /\ 0 \in 0 .. DurataFetch
    BY Costanti DEF Punti
  <2> QED BY <1>1, <2>1 DEF Attivi
<1>3. filo' = [filo EXCEPT ![t] = r]
  BY DEF ScriveJwks, Inv, TypeOK
<1> HIDE DEF r
<1>4. filo'[t] = r /\ \A u \in Thread \ {t} : filo'[u] = filo[u]
  BY <1>2, <1>3, UnFilo DEF Inv
<1>5. TypeOK'
  BY <1>1, <1>2, <1>3, TipiDiUnFilo DEF Inv, TypeOK
<1>6. \A k \in Chiavi : Diverge(cached', k) => etaChiave[k] <= filo[t].inizio
  BY <1>1 DEF Inv, FetchRecente
<1>7. \A k \in Chiavi : Diverge(cached, k)' => etaChiave'[k] <= DurataFetch
  BY <1>1, <1>6, Costanti DEF Diverge, mind, Inv, TypeOK
<1>8. CacheScrittaOra' /\ CacheDatata'
  <2>1. etaCache' \in Nat /\ \A k \in Chiavi : etaChiave'[k] \in Nat
    BY <1>5, Costanti DEF TypeOK
  <2> QED BY <1>7, <2>1, Costanti DEF CacheScrittaOra, CacheDatata
<1>9. FetchRecente' /\ CacheViva' /\ RispostaRecente'
  BY <1>1, <1>2, <1>4
  DEF Inv, FetchRecente, CacheViva, RispostaRecente, Diverge, Scaduta, mind
<1> QED BY <1>5, <1>8, <1>9 DEF Inv

\* The date is written over a key set of the same instant, by whomever.
LEMMA ScriveDataInv ==
  ASSUME Inv, NEW t \in Thread, ScriveData(t)
  PROVE  Inv'
<1> DEFINE r == filo'[t]
<1>1. filo[t] \in Attivi /\ filo[t].pc = "data" /\ UNCHANGED <<mind, cached, etaForzato, guasti>>
     /\ etaCache' = 0 /\ cached \in SUBSET Chiavi
  BY AlLavoro DEF ScriveData, Inv, TypeOK
<1>2. /\ filo' = [filo EXCEPT ![t] = r]
      /\ r \in Attivi /\ r.kid = filo[t].kid
      /\ r.pc = "torna"
  BY <1>1, Costanti DEF ScriveData, Va, Attivi, Punti, Risposte, Inv, TypeOK
<1>3. \A u \in Thread \ {t} : filo'[u] = filo[u]
  BY <1>2, UnFilo DEF Inv
<1> HIDE DEF r
<1>4. TypeOK'
  BY <1>1, <1>2, TipiDiUnFilo DEF Inv, TypeOK, cache
<1>5. Parti'
  BY <1>1, <1>2, <1>3, Costanti
  DEF Inv, Parti, FetchRecente, CacheScrittaOra, CacheDatata, CacheViva, RispostaRecente,
      Diverge, Scaduta, mind, cache
<1> QED BY <1>4, <1>5 DEF Inv, Parti

\* The answer rests on what the cache holds, whoever wrote it last.
LEMMA CercaChiaveInv ==
  ASSUME Inv, NEW t \in Thread, CercaChiave(t)
  PROVE  Inv'
<1> DEFINE r == filo'[t]
<1>1. filo[t] \in Attivi /\ filo[t].pc \in {"usa", "torna"} /\ UNCHANGED <<mind, cache, guasti>>
     /\ cached \in SUBSET Chiavi
  BY AlLavoro DEF CercaChiave, Inv, TypeOK
<1>2. /\ filo' = [filo EXCEPT ![t] = r]
      /\ r \in Attivi /\ r.kid = filo[t].kid
      /\ \/ r.pc = "accetta" /\ filo[t].kid \in cached
         \/ r.pc \in {"rifiuta", "forza"} /\ filo[t].kid \notin cached
  BY <1>1, Costanti DEF CercaChiave, Va, Attivi, Punti, Risposte, Inv, TypeOK
<1>3. \A u \in Thread \ {t} : filo'[u] = filo[u]
  BY <1>2, UnFilo DEF Inv
<1> HIDE DEF r
<1>4. TypeOK'
  BY <1>1, <1>2, TipiDiUnFilo DEF Inv, TypeOK, cache
<1>5. filo[t].kid \in Chiavi /\ ~Scaduta /\ cached # Assente
  BY <1>1, JwksAssumption DEF Inv, CacheViva, Attivi
<1>6. Diverge(cached, filo[t].kid) => etaChiave[filo[t].kid] <= Ritardo
  BY <1>5, Costanti DEF Inv, TypeOK, CacheDatata, Scaduta
<1>7. RispostaRecente'
  BY <1>1, <1>2, <1>3, <1>6 DEF Inv, RispostaRecente, Diverge, mind
<1>8. FetchRecente' /\ CacheScrittaOra' /\ CacheDatata' /\ CacheViva'
  BY <1>1, <1>2, <1>3
  DEF Inv, FetchRecente, CacheScrittaOra, CacheDatata, CacheViva, Diverge, Scaduta, mind, cache
<1> QED BY <1>4, <1>7, <1>8 DEF Inv

\* A thread that may not refresh refuses with what it knows.
LEMMA ControllaIntervalloInv ==
  ASSUME Inv, NEW t \in Thread, ControllaIntervallo(t)
  PROVE  Inv'
<1> DEFINE r == filo'[t]
<1>1. filo[t] \in Attivi /\ filo[t].pc = "forza" /\ UNCHANGED <<mind, cache, guasti>>
  BY AlLavoro DEF ControllaIntervallo, Inv
<1>2. /\ filo' = [filo EXCEPT ![t] = r]
      /\ r \in Attivi /\ r.kid = filo[t].kid
      /\ r.pc \in {"segna", "rifiuta"}
  BY <1>1, Costanti DEF ControllaIntervallo, Va, Attivi, Punti, Risposte, Inv, TypeOK
<1>3. \A u \in Thread \ {t} : filo'[u] = filo[u]
  BY <1>2, UnFilo DEF Inv
<1> HIDE DEF r
<1>4. TypeOK'
  BY <1>1, <1>2, TipiDiUnFilo DEF Inv, TypeOK, cache
<1>5. Parti'
  BY <1>1, <1>2, <1>3
  DEF Inv, Parti, FetchRecente, CacheScrittaOra, CacheDatata, CacheViva, RispostaRecente,
      Diverge, Scaduta, mind, cache
<1> QED BY <1>4, <1>5 DEF Inv, Parti

\* A thread that may refresh goes back to the cache.
LEMMA SegnaForzatoInv ==
  ASSUME Inv, NEW t \in Thread, SegnaForzato(t)
  PROVE  Inv'
<1> DEFINE r == filo'[t]
<1>1. filo[t] \in Attivi /\ filo[t].pc = "segna" /\ UNCHANGED <<mind, cached, etaCache, guasti>>
     /\ etaForzato' = 0
  BY AlLavoro DEF SegnaForzato, Inv
<1>2. /\ filo' = [filo EXCEPT ![t] = r]
      /\ r \in Attivi /\ r.kid = filo[t].kid
      /\ r.pc = "jwks"
  BY <1>1, Costanti DEF SegnaForzato, Va, Attivi, Punti, Risposte, Inv, TypeOK
<1>3. \A u \in Thread \ {t} : filo'[u] = filo[u]
  BY <1>2, UnFilo DEF Inv
<1> HIDE DEF r
<1>4. TypeOK'
  BY <1>1, <1>2, TipiDiUnFilo DEF Inv, TypeOK, cache
<1>5. Parti'
  BY <1>1, <1>2, <1>3
  DEF Inv, Parti, FetchRecente, CacheScrittaOra, CacheDatata, CacheViva, RispostaRecente,
      Diverge, Scaduta, mind, cache
<1> QED BY <1>4, <1>5 DEF Inv, Parti

\* A token finds a free thread.
LEMMA ArrivaInv ==
  ASSUME Inv, NEW t \in Thread, NEW kid \in Chiavi, Arriva(t, kid)
  PROVE  Inv'
<1> DEFINE r == [pc |-> "jwks", kid |-> kid, forzato |-> FALSE, jwks |-> {}, inizio |-> 0]
<1>1. UNCHANGED <<mind, cache, guasti>> /\ filo' = [filo EXCEPT ![t] = r]
  BY DEF Arriva
<1>2. r \in Attivi /\ r.pc = "jwks"
  BY Costanti DEF Attivi, Punti
<1> HIDE DEF r
<1>3. filo'[t] = r /\ \A u \in Thread \ {t} : filo'[u] = filo[u]
  BY <1>1, <1>2, UnFilo DEF Inv
<1>4. TypeOK'
  BY <1>1, <1>2, TipiDiUnFilo DEF Inv, TypeOK, cache
<1>5. Parti'
  BY <1>1, <1>2, <1>3
  DEF Inv, Parti, FetchRecente, CacheScrittaOra, CacheDatata, CacheViva, RispostaRecente,
      Diverge, Scaduta, mind, cache
<1> QED BY <1>4, <1>5 DEF Inv, Parti

\* A key that changes is of age zero, and agrees with nobody for free.
LEMMA RuotaInv ==
  ASSUME Inv, Ruota
  PROVE  Inv'
<1>1. UNCHANGED <<cache, filo, guasti>> /\ rotazioni' \in 0 .. MaxRotazioni
  BY Costanti DEF Ruota, Inv, TypeOK
<1>2. PICK k \in Chiavi :
        /\ pubblicate' = IF k \in pubblicate THEN pubblicate \ {k} ELSE pubblicate \cup {k}
        /\ etaChiave' = [etaChiave EXCEPT ![k] = 0]
  BY DEF Ruota
<1>3. /\ pubblicate' \subseteq Chiavi /\ etaChiave' \in [Chiavi -> 0 .. Ritardo + 1]
      /\ etaChiave'[k] = 0
      /\ \A h \in Chiavi \ {k} :
           etaChiave'[h] = etaChiave[h] /\ (h \in pubblicate' <=> h \in pubblicate)
  BY <1>2, Costanti DEF Inv, TypeOK
<1>4. TypeOK'
  BY <1>1, <1>3 DEF Inv, TypeOK, cache
<1>5. FetchRecente'
  <2> SUFFICES ASSUME NEW t \in Thread, filo[t].pc = "scrive", NEW h \in Chiavi,
                      Diverge(filo[t].jwks, h)'
               PROVE  etaChiave'[h] <= filo[t].inizio
    BY <1>1 DEF FetchRecente
  <2>1. filo[t].inizio \in Nat
    BY AlLavoro, Costanti DEF Inv, Attivi
  <2> QED BY <1>1, <1>3, <2>1 DEF Inv, FetchRecente, Diverge
<1>6. CacheScrittaOra' /\ CacheDatata' /\ CacheViva'
  BY <1>1, <1>3, Costanti
  DEF Inv, TypeOK, CacheScrittaOra, CacheDatata, CacheViva, Diverge, Scaduta, cache
<1>7. RispostaRecente'
  <2> SUFFICES ASSUME NEW t \in Thread, filo[t].pc # "fermo"
               PROVE  LET h == filo[t].kid IN
                 /\ filo[t].pc = "accetta" /\ h \notin pubblicate' => etaChiave'[h] <= Ritardo
                 /\ filo[t].pc \in {"forza", "segna", "rifiuta"} /\ h \in pubblicate'
                      => etaChiave'[h] <= Ritardo
    BY <1>1 DEF RispostaRecente
  <2>1. filo[t].kid \in Chiavi
    BY AlLavoro DEF Inv, Attivi
  <2> QED BY <1>3, <2>1, Costanti DEF Inv, RispostaRecente
<1> QED BY <1>4, <1>5, <1>6, <1>7 DEF Inv

\* Time passes only while every thread is idle or waits for Mind, and makes
\* the keys older no faster than the cache and the fetches.
LEMMA PassaIlTempoInv ==
  ASSUME Inv, PassaIlTempo
  PROVE  Inv'
<1> USE Costanti
<1>1. /\ UNCHANGED <<pubblicate, rotazioni, cached, guasti>>
      /\ \A k \in Chiavi : etaChiave'[k] <= etaChiave[k] + 1
      /\ etaChiave' \in [Chiavi -> 0 .. Ritardo + 1]
      /\ etaCache' \in 0 .. JWKS_CACHE_TTL + 1
      /\ etaCache' = etaCache + 1 \/ (etaCache' = etaCache /\ Scaduta)
      /\ etaForzato' \in 0 .. JWKS_FORCED_REFRESH_MIN_INTERVAL + 1
  BY DEF PassaIlTempo, Invecchia, Inv, TypeOK, Scaduta
<1>2. ASSUME NEW t \in Thread
      PROVE  \/ filo'[t] = Fermo
             \/ /\ filo[t] \in Attivi /\ filo'[t] \in Attivi /\ InAttesa(t)
                /\ filo'[t].pc = filo[t].pc /\ filo'[t].jwks = filo[t].jwks
                /\ filo'[t].inizio = filo[t].inizio + 1
  <2>1. CASE Libero(t)
    BY <2>1 DEF PassaIlTempo
  <2>2. CASE ~Libero(t)
    <3>1. filo[t] \in Attivi /\ InAttesa(t) /\ filo[t].inizio < DurataFetch
      BY <2>2, AlLavoro DEF PassaIlTempo, Libero, Inv
    <3>2. filo'[t] = [filo[t] EXCEPT !.inizio = filo[t].inizio + 1]
      BY <2>2 DEF PassaIlTempo
    <3> QED BY <3>1, <3>2 DEF Attivi
  <2> QED BY <2>1, <2>2
<1>3. ASSUME NEW t \in Thread, filo'[t] # Fermo
      PROVE  /\ filo'[t].pc = filo[t].pc /\ filo'[t].pc \in {"attende", "scrive"}
             /\ filo'[t].jwks = filo[t].jwks
             /\ filo[t].inizio \in Nat /\ filo'[t].inizio = filo[t].inizio + 1
  <2>1. filo[t].inizio \in Nat
    BY <1>2, <1>3 DEF Attivi
  <2> QED BY <1>2, <1>3, <2>1 DEF InAttesa
<1>4. \A t \in Thread : filo'[t] = Fermo => filo'[t].pc = "fermo"
  BY DEF Fermo
<1>5. filo' \in [Thread -> {Fermo} \cup Attivi]
  <2>1. DOMAIN filo' = Thread /\ filo' = [t \in Thread |-> filo'[t]]
    BY DEF PassaIlTempo
  <2> QED BY <1>2, <2>1
<1>6. TypeOK'
  BY <1>1, <1>3, <1>4, <1>5 DEF Inv, TypeOK, Attivi
<1>7. FetchRecente'
  BY <1>1, <1>3, <1>4 DEF Inv, TypeOK, FetchRecente, Diverge
<1>8. CacheDatata'
  BY <1>1 DEF Inv, TypeOK, CacheDatata, Diverge, Scaduta
<1>9. CacheScrittaOra' /\ CacheViva' /\ RispostaRecente'
  BY <1>3, <1>4 DEF CacheScrittaOra, CacheViva, RispostaRecente
<1> QED BY <1>6, <1>7, <1>8, <1>9 DEF Inv

-----------------------------------------------------------------------------
(***************************************************************************)
(* The theorems.                                                           *)
(***************************************************************************)
\* Every step preserves the invariant.
LEMMA PassoInv == Inv /\ [Next]_vars => Inv'
<1> SUFFICES ASSUME Inv, [Next]_vars PROVE Inv'
  OBVIOUS
<1>1. CASE Ruota
  BY <1>1, RuotaInv
<1>2. ASSUME NEW t \in Thread, Passo(t) PROVE Inv'
  BY <1>2, GuardaCacheInv, MindRispondeInv, FetchFallitoInv, ScriveJwksInv, ScriveDataInv,
     CercaChiaveInv, ControllaIntervalloInv, SegnaForzatoInv
  DEF Passo
<1>3. ASSUME NEW t \in Thread, NEW k \in Chiavi, Arriva(t, k) PROVE Inv'
  BY <1>3, ArrivaInv
<1>4. CASE PassaIlTempo
  BY <1>4, PassaIlTempoInv
<1>5. CASE UNCHANGED vars
  BY <1>5 DEF vars, mind, cache, Inv, TypeOK, FetchRecente, CacheScrittaOra, CacheDatata,
              CacheViva, RispostaRecente, Diverge, Scaduta
<1> QED BY <1>1, <1>2, <1>3, <1>4, <1>5 DEF Next

\* The invariant holds whatever the threads, the keys and the rotations.
THEOREM Invariante == Spec => []Inv
  BY InvInit, PassoInv, PTL DEF Spec

\* In particular no thread ever looks for a key in an empty cache
\* (verifier.py:76-84): the check and the use are many steps apart.
THEOREM Tipi == Spec => []TypeOK
<1>1. Inv => TypeOK
  BY DEF Inv
<1> QED BY <1>1, Invariante, PTL

\* A withdrawn key is honoured for the life of the cache and a fetch at most
\* (JWKS_CACHE_TTL_SECONDS), without a lock between the threads.
THEOREM ChiaveRitirataScade == Spec => []RitirataScade
<1>1. Inv => RitirataScade
  BY DEF Inv, RispostaRecente, RitirataScade
<1> QED BY <1>1, Invariante, PTL

\* A published key is refused for as long at most, although a refresh may be
\* denied and an old fetch may overwrite a newer one (verifier.py:109).
THEOREM ChiavePubblicataServe == Spec => []PubblicataRiconosciuta
<1>1. Inv => PubblicataRiconosciuta
  BY DEF Inv, RispostaRecente, PubblicataRiconosciuta
<1> QED BY <1>1, Invariante, PTL
=============================================================================
