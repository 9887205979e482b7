SPECIFICATION FairSpec
CONSTANTS
  Clienti = {"C1"}
  Fatture = {"F1"}
  Movimenti = {"M1"}
  Debitore <- DebitoreC
  Importo <- ImportoC
  Emissione <- EmissioneC
  Scadenza <- ScadenzaC
  Numero <- NumeroC
  Mittente <- MittenteA
  Bonifico <- BonificoA
  DataMovimento <- DataMovimentoA
  Posto <- PostoA
  MaxFlussi = 2
  Passi = {"P1", "P2"}
  PassiDefault = {"P1", "P2"}
  Offset <- OffsetA
  CanalePasso <- CanaleA
  Pacchetto = "value"
  RecapitiImportati <- RecapitiA
  Festivi = {8, 12}
  Istanti <- IstantiC
  Inizio <- InizioA
  FinePausa = {13}
  PauseSenzaData = TRUE
  ImportiManuali = {1, 3}
  ChiaviManuali <- ChiaviA
  NuoviRecapiti <- SoloTelefono
  NuoviOptOut <- SoloOptOutA
  NuoviFlussi <- DueFlussiC
  MaxCadute = 1
  MaxAzioni = 2
  StatiCollegamenti <- Tutti
  ImportoMax = 3
INVARIANTS
  SoloFlussoAttivo
PROPERTIES
  OgniFatturaEsce
  PosizioneFinitaSiChiude
