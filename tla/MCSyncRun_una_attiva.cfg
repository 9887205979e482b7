SPECIFICATION Spec
CONSTANTS
  Richieste = {r1, r2}
  Chiavi = {k1, k2}
  MaxErrori = 0
  MaxRiavvii = 0
  MaxCancellazioni = 0
INVARIANTS
  UnaSolaRunAttiva
CHECK_DEADLOCK FALSE
