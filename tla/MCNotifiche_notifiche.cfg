SPECIFICATION FairSpec
CONSTANTS
  Collegamenti = {"ade"}
  Preavvisi = {"F1"}
  Conferme = {"A1", "A2"}
  MaxCicli = 3
  MaxCambi = 3
  MaxPerdite = 1
INVARIANTS
  LettaSeRicevuta
  NessunaSituazionePersa
  AvvisoFedele
PROPERTIES
  OgniNotificaLetta
