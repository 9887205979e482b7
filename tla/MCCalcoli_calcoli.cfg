SPECIFICATION CalcoliSpec
CONSTANTS
  Anni <- AnniK
  Lunghezza = 3
  Fatture <- FattureK
  Movimenti <- MovimentiK
  Debitore <- DebitoreK
  Scadenza <- ScadenzaK
  Numero <- NumeroK
  Mittente <- MittenteK
  Posto <- PostoK
  Controparti = {"A", "B", "ignoto"}
  Importi <- ImportiK
  Liste <- ListeK
INVARIANTS
  AbbinamentoCorretto
  PasquaDellaChiesa
  FinestraUtile
  CalendarioDiDominio
CHECK_DEADLOCK FALSE
