SPECIFICATION Spec
CONSTANTS
  Clienti = {"C1"}
  Fatture = {"F1", "F2"}
  Movimenti = {"M1"}
  Debitore <- DebitoreA
  Importo <- ImportoA
  Emissione <- EmissioneA
  Scadenza <- ScadenzaA
  Numero <- NumeroA
  Mittente <- MittenteA
  Bonifico <- BonificoA
  DataMovimento <- DataMovimentoA
  Posto <- PostoA
  MaxFlussi = 1
  Passi = {"P1", "P2"}
  PassiDefault = {"P1", "P2"}
  Offset <- OffsetA
  CanalePasso <- CanaleA
  Pacchetto = "value"
  RecapitiImportati <- RecapitiA
  Festivi = {8, 12}
  Istanti <- IstantiA
  Inizio <- InizioA
  FinePausa = {13}
  PauseSenzaData = FALSE
  ImportiManuali = {1, 3}
  ChiaviManuali <- ChiaviA
  NuoviRecapiti = {}
  NuoviOptOut <- SoloOptOutA
  NuoviFlussi = {}
  MaxCadute = 0
  MaxAzioni = 2
  StatiCollegamenti <- Tutti
  ImportoMax = 3
INVARIANTS
  TypeOK
  NessunSollecitoPendente
  PosizioniCoerenti
  UnaPosizioneAperta
  ContabilitaResiduo
  SollecitoLegittimo
  LettureCoerenti
PROPERTIES
  StoriaPermanente
  ImplementaVita
