SPECIFICATION Spec
CONSTANTS
  Tenant = {"A", "B"}
  Id = {"K1", "K2"}
  Sessioni = {S1, S2}
  Connessioni = {C1, C2}
  Iniziali <- InizialiK
  Nessuno = "nessuno"
SYMMETRY Simmetria
INVARIANTS
  IsolamentoLetture
  IsolamentoScritture
  NessunArcoFraTenant
