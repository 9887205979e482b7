SPECIFICATION SpecC
CONSTANTS
  Clienti = {"C1"}
  Fatture = {"F1", "F2"}
  Movimenti = {"M1"}
  Debitore <- DebitoreK
  Importo <- ImportoK
  Emissione <- EmissioneK
  Scadenza <- ScadenzaK
  Numero <- NumeroK
  Mittente <- MittenteK
  Bonifico <- BonificoK
  DataMovimento <- DataMovimentoK
  Posto <- PostoK
  MaxFlussi = 1
  Passi = {"P1"}
  PassiDefault = {"P1"}
  Offset <- OffsetK
  CanalePasso <- CanaleK
  Pacchetto = "value"
  RecapitiImportati <- RecapitiK
  Festivi = {8, 12}
  Istanti <- IstantiK
  Inizio <- InizioK
  FinePausa = {13}
  PauseSenzaData = FALSE
  ImportiManuali = {1, 2}
  ChiaviManuali <- ChiaviK
  NuoviRecapiti = {}
  NuoviOptOut <- SenzaOptOutK
  NuoviFlussi = {}
  MaxCadute = 1
  MaxAzioni = 2
  StatiCollegamenti <- TuttiK
  ImportoMax = 3
  Sessioni = {"S1", "S2"}
INVARIANTS
  MaiCondonato
  UnPagamentoPerChiave
  ChiHaPagatoNonRiceve
  NessunSollecitoPendente
