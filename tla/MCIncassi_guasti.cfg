SPECIFICATION Spec
CONSTANTS
  Clienti = {"C1"}
  Fatture = {"F1", "F2"}
  Movimenti = {"M1", "M2"}
  Debitore <- DebitoreA
  Importo <- ImportoA
  Emissione <- EmissioneA
  Scadenza <- ScadenzaA
  Numero <- NumeroA
  Mittente <- MittenteB
  Bonifico <- BonificoB
  DataMovimento <- DataMovimentoB
  Posto <- PostoB
  MaxFlussi = 1
  Passi = {"P1", "P2"}
  PassiDefault = {"P1", "P2"}
  Offset <- OffsetA
  CanalePasso <- CanaleA
  Pacchetto = "value"
  RecapitiImportati <- SoloEmail
  Festivi = {8, 12}
  Istanti <- IstantiB
  Inizio <- InizioB
  FinePausa = {13}
  PauseSenzaData = FALSE
  ImportiManuali = {1}
  ChiaviManuali <- ChiaviA
  NuoviRecapiti = {}
  NuoviOptOut <- SoloOptOutA
  NuoviFlussi = {}
  MaxCadute = 2
  MaxAzioni = 1
  StatiCollegamenti <- UnoAlmeno
  ImportoMax = 3
INVARIANTS
  RegistroVeritiero
  IncassiEntroIlMovimento
PROPERTIES
  Rieseguibile
