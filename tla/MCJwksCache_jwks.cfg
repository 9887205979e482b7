SPECIFICATION Spec
CONSTANTS
  Chiavi = {"K1", "K2"}
  Iniziali = {"K1"}
  Thread = {T1, T2}
  JWKS_CACHE_TTL = 3
  JWKS_FORCED_REFRESH_MIN_INTERVAL = 1
  DurataFetch = 1
  MaxRotazioni = 2
  MaxGuasti = 1
SYMMETRY Simmetria
INVARIANTS
  TypeOK
  RitirataScade
  PubblicataRiconosciuta
