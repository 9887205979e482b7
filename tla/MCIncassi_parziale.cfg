SPECIFICATION Spec
CONSTANTS
  Clienti = {"C1"}
  Fatture = {"F1"}
  Movimenti = {"M1"}
  Debitore <- DebitoreC
  Importo <- ImportoC
  Emissione <- EmissioneC
  Scadenza <- ScadenzaC
  Numero <- NumeroC
  Mittente <- MittenteA
  Bonifico <- BonificoD
  DataMovimento <- DataMovimentoD
  Posto <- PostoA
  MaxFlussi = 1
  Passi = {"P1", "P2"}
  PassiDefault = {"P1", "P2"}
  Offset <- OffsetA
  CanalePasso <- CanaleD
  Pacchetto = "value"
  RecapitiImportati <- RecapitiA
  Festivi = {8, 12}
  Istanti <- IstantiD
  Inizio <- InizioA
  FinePausa = {40}
  PauseSenzaData = FALSE
  ImportiManuali = {1, 3}
  ChiaviManuali <- ChiaviA
  NuoviRecapiti = {}
  NuoviOptOut <- SoloOptOutA
  NuoviFlussi = {}
  MaxCadute = 0
  MaxAzioni = 1
  StatiCollegamenti <- Tutti
  ImportoMax = 3
PROPERTIES
  SollecitiSopravvivonoAlParziale
