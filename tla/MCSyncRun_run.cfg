SPECIFICATION FairSpec
CONSTANTS
  Richieste = {r1, r2, r3}
  Chiavi = {k1, k2}
  MaxErrori = 2
  MaxRiavvii = 1
  MaxCancellazioni = 1
INVARIANTS
  TypeOK
  StessaChiaveStessaRun
  UnaEsecuzionePerChiave
  EffettiSoloSeCompletata
PROPERTIES
  EsitoDefinitivo
  ImplementaChiave
  OgniRunFinisce
CHECK_DEADLOCK FALSE
