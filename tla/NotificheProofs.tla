-------------------------- MODULE NotificheProofs --------------------------
(***************************************************************************)
(* Proofs about module Notifiche: any number of situations, cycles,        *)
(* confirmations and losses.                                               *)
(*                                                                         *)
(* A cycle decides what to write from the rows it reads, and commits later;*)
(* confirmations mark the rows it did not write in the meantime.  The      *)
(* invariant relates what the open cycle is about to leave to what is in   *)
(* the table now, what a confirmation carries to what Mind received, and   *)
(* what was announced to the confirmations that can still mark it.         *)
(***************************************************************************)
EXTENDS Notifiche, TLAPS

\* A confirmation names what Mind received, and marks what it names.
ConfermeNote ==
  /\ DOMAIN conferma = Conferme
  /\ \A c \in Conferme :
       \/ conferma[c] = Ferma
       \/ /\ conferma[c].passo \in {"inviata", "letta", "risposta"}
          /\ conferma[c].ids \subseteq ricevute
          /\ conferma[c].passo = "letta" => conferma[c].presi \subseteq conferma[c].ids

\* Nothing that can still mark a notice concerns one that is new: all of it
\* comes from answers, and an answer that names the notice ends its being new.
NuoveSenzaConferma == \A s \in nuove : ~InConferma(s)

\* The open cycle announces exactly the rows it revives or creates.
AnnunciScritti == daAnnunciare = {s \in Situazioni : scritte[s] = "viva"}

\* What the open cycle leaves, if it is committed now, for the links it has not
\* seen down.
LasceraChiusa(l) ==
  scritte[l] = "letta" \/ (scritte[l] = Intatta /\ riga[l] # "viva")

CicloCoerente ==
  ciclo = "notificato" => \A l \in Collegamenti \ visti : LasceraChiusa(l)

Inv ==
  /\ TypeOK /\ ConfermeNote /\ NuoveSenzaConferma /\ AnnunciScritti /\ CicloCoerente
  /\ LettaSeRicevuta /\ NessunaSituazionePersa /\ AvvisoFedele
  /\ vistiUltimo \subseteq Situazioni

-----------------------------------------------------------------------------
\* The initial state satisfies the invariant.
LEMMA InvInit == Init => Inv
<1> SUFFICES ASSUME Init PROVE Inv
  OBVIOUS
<1>1. TypeOK
  BY NotificheAssumption DEF Init, TypeOK, NulladaScrivere
<1>2. ConfermeNote /\ NuoveSenzaConferma
  BY DEF Init, ConfermeNote, NuoveSenzaConferma
<1>3. AnnunciScritti
  BY DEF Init, AnnunciScritti, NulladaScrivere, Intatta
<1>4. CicloCoerente /\ LettaSeRicevuta /\ NessunaSituazionePersa /\ AvvisoFedele
  BY DEF Init, CicloCoerente, LettaSeRicevuta, NessunaSituazionePersa, AvvisoFedele, Situazioni
<1> QED BY <1>1, <1>2, <1>3, <1>4 DEF Inv, Init

\* A step that touches neither the rows nor the open transaction, forgets
\* nothing Mind received, and at most ends the waiting of what was announced.
LEMMA FuoriDallaTavola ==
  ASSUME Inv, UNCHANGED <<tavola, transazione>>, ricevute \subseteq ricevute',
         nuove' \subseteq nuove, TypeOK', ConfermeNote', NuoveSenzaConferma'
  PROVE  Inv'
<1>1. CicloCoerente' /\ AnnunciScritti'
  BY DEF Inv, CicloCoerente, LasceraChiusa, AnnunciScritti, tavola, transazione
<1>2. LettaSeRicevuta' /\ NessunaSituazionePersa' /\ AvvisoFedele'
  BY DEF Inv, LettaSeRicevuta, NessunaSituazionePersa, AvvisoFedele, tavola
<1> QED BY <1>1, <1>2 DEF Inv, tavola

\* Nothing new becomes subject to a confirmation while what is new, what Mind
\* has to confirm and the confirmations stay the same.
LEMMA ConfermeFerme ==
  ASSUME Inv, UNCHANGED <<annunci, daConfermare, conferma>>
  PROVE  NuoveSenzaConferma'
  BY DEF Inv, NuoveSenzaConferma, InConferma, annunci

\* The situations change, the rows do not.
LEMMA CambiaInv ==
  ASSUME Inv, NEW s \in Situazioni, Cambia(s)
  PROVE  Inv'
<1>1. TypeOK'
  BY NotificheAssumption DEF Cambia, Inv, TypeOK, tavola, transazione, annunci, rete
<1>2. ConfermeNote' /\ NuoveSenzaConferma'
  BY ConfermeFerme DEF Cambia, Inv, ConfermeNote, rete
<1> QED BY <1>1, <1>2, FuoriDallaTavola DEF Cambia, annunci, rete

-----------------------------------------------------------------------------
(***************************************************************************)
(* The cycle.                                                              *)
(***************************************************************************)
\* A cycle starts with nothing written.
LEMMA AvviaCicloInv ==
  ASSUME Inv, AvviaCiclo
  PROVE  Inv'
<1>1. TypeOK'
  BY NotificheAssumption DEF AvviaCiclo, Inv, TypeOK, tavola, annunci, rete
<1>2. ConfermeNote' /\ NuoveSenzaConferma'
  BY ConfermeFerme DEF AvviaCiclo, Inv, ConfermeNote, rete
<1>3. CicloCoerente' /\ AnnunciScritti'
  BY DEF AvviaCiclo, Inv, CicloCoerente, AnnunciScritti
<1>4. LettaSeRicevuta' /\ NessunaSituazionePersa' /\ AvvisoFedele' /\ vistiUltimo' \subseteq Situazioni
  BY DEF AvviaCiclo, Inv, LettaSeRicevuta, NessunaSituazionePersa, AvvisoFedele, tavola, annunci, rete
<1> QED BY <1>1, <1>2, <1>3, <1>4 DEF Inv

\* What the cycle writes, with the rows it did not need to write, is what it
\* must leave; it announces what it writes alive.
LEMMA GeneraNotificheInv ==
  ASSUME Inv, GeneraNotifiche
  PROVE  Inv'
<1>1. /\ UNCHANGED <<inAtto, tavola, annunci, rete, cicli, cambi, perdite>>
      /\ ciclo' = "notificato" /\ visti' = visti \cup (inAtto \cap Preavvisi)
      /\ scritte' = [s \in Situazioni |->
           IF s \in visti' THEN Emessa(s)
           ELSE IF s \in Collegamenti THEN Risolta(s) ELSE Intatta]
      /\ daAnnunciare' = {s \in visti' : riga[s] # "viva"}
  BY DEF GeneraNotifiche
<1>2. TypeOK'
  BY <1>1 DEF Inv, TypeOK, tavola, annunci, rete, Emessa, Risolta
<1>3. ConfermeNote' /\ NuoveSenzaConferma'
  BY <1>1, ConfermeFerme DEF Inv, ConfermeNote, rete
<1>4. CicloCoerente'
  BY <1>1 DEF CicloCoerente, LasceraChiusa, Risolta, tavola, Situazioni
<1>5. AnnunciScritti'
  BY <1>1, <1>2 DEF TypeOK, AnnunciScritti, Emessa, Risolta, Intatta
<1>6. LettaSeRicevuta' /\ NessunaSituazionePersa' /\ AvvisoFedele' /\ vistiUltimo' \subseteq Situazioni
  BY <1>1 DEF Inv, LettaSeRicevuta, NessunaSituazionePersa, AvvisoFedele, tavola, annunci, rete
<1> QED BY <1>2, <1>3, <1>4, <1>5, <1>6 DEF Inv

\* The commit leaves what the cycle meant to, whatever was confirmed in the
\* meantime; what it announces is new only if nothing older concerns it.
LEMMA ConcludiCicloInv ==
  ASSUME Inv, ConcludiCiclo
  PROVE  Inv'
<1>1. /\ ciclo = "notificato" /\ ciclo' = "fermo"
      /\ riga' = [s \in Situazioni |-> IF scritte[s] # Intatta THEN scritte[s] ELSE riga[s]]
      /\ risolte' = {s \in Situazioni :
           scritte[s] = "letta" \/ (s \in risolte /\ scritte[s] = Intatta)}
      /\ vistiUltimo' = visti /\ visti' = {} /\ scritte' = NulladaScrivere /\ daAnnunciare' = {}
      /\ UNCHANGED <<inAtto, rete, cicli, cambi, perdite>>
  BY DEF ConcludiCiclo, Bloccate
<1>2. /\ nuove' = (nuove \ Bloccate) \cup {s \in daAnnunciare : ~InSospeso(s)}
      /\ incrociate' = (incrociate \ Bloccate) \cup {s \in daAnnunciare : InSospeso(s)}
  BY DEF ConcludiCiclo
<1>3. TypeOK'
  BY <1>1, <1>2 DEF Inv, TypeOK, rete, NulladaScrivere
<1>4. ConfermeNote'
  BY <1>1 DEF Inv, ConfermeNote, rete
<1>5. NuoveSenzaConferma'
  BY <1>1, <1>2 DEF Inv, NuoveSenzaConferma, InSospeso, InConferma, rete
<1>6. LettaSeRicevuta'
  BY <1>1 DEF Inv, TypeOK, LettaSeRicevuta, rete
<1>7. NessunaSituazionePersa'
  BY <1>1, <1>2 DEF Inv, TypeOK, AnnunciScritti, NessunaSituazionePersa, Bloccate, Intatta
<1>8. AvvisoFedele'
  BY <1>1 DEF Inv, TypeOK, CicloCoerente, LasceraChiusa, AvvisoFedele, Situazioni, Intatta
<1>9. CicloCoerente' /\ AnnunciScritti' /\ vistiUltimo' \subseteq Situazioni
  BY <1>1 DEF CicloCoerente, AnnunciScritti, NulladaScrivere, Intatta, Inv, TypeOK
<1> QED BY <1>3, <1>4, <1>5, <1>6, <1>7, <1>8, <1>9 DEF Inv

\* A failed cycle leaves the table, and what was announced, as they were.
LEMMA CicloFallitoInv ==
  ASSUME Inv, CicloFallito
  PROVE  Inv'
<1>1. TypeOK'
  BY NotificheAssumption
  DEF CicloFallito, Perde, Inv, TypeOK, tavola, annunci, rete, NulladaScrivere
<1>2. ConfermeNote' /\ NuoveSenzaConferma'
  BY ConfermeFerme DEF CicloFallito, Inv, ConfermeNote, rete
<1>3. CicloCoerente' /\ AnnunciScritti'
  BY DEF CicloFallito, CicloCoerente, AnnunciScritti, NulladaScrivere, Intatta
<1>4. LettaSeRicevuta' /\ NessunaSituazionePersa' /\ AvvisoFedele' /\ vistiUltimo' \subseteq Situazioni
  BY DEF CicloFallito, Inv, LettaSeRicevuta, NessunaSituazionePersa, AvvisoFedele, tavola, annunci, rete
<1> QED BY <1>1, <1>2, <1>3, <1>4 DEF Inv

-----------------------------------------------------------------------------
(***************************************************************************)
(* Polling and confirmations.                                              *)
(***************************************************************************)
\* An answer leaves, arrives or is lost; what it names is new no longer, and
\* may be confirmed from now on.
LEMMA RispostaInv ==
  ASSUME Inv, GetNotifications \/ RispostaArriva \/ RispostaPersa
  PROVE  Inv'
<1>1. CASE GetNotifications
  <2>1. TypeOK'
    BY <1>1 DEF GetNotifications, Inv, TypeOK, tavola, transazione, annunci, Vive
  <2>2. ConfermeNote' /\ NuoveSenzaConferma'
    BY <1>1, ConfermeFerme DEF GetNotifications, Inv, ConfermeNote
  <2> QED BY <1>1, <2>1, <2>2, FuoriDallaTavola DEF GetNotifications, annunci
<1>2. CASE RispostaArriva
  <2>1. TypeOK'
    BY <1>2 DEF RispostaArriva, Inv, TypeOK, tavola, transazione
  <2>2. ricevute \subseteq ricevute' /\ nuove' \subseteq nuove
    BY <1>2 DEF RispostaArriva
  <2>3. ConfermeNote'
    BY <1>2, <2>2 DEF RispostaArriva, Inv, ConfermeNote
  <2>4. NuoveSenzaConferma'
    BY <1>2 DEF RispostaArriva, Inv, NuoveSenzaConferma, InConferma
  <2> QED BY <1>2, <2>1, <2>2, <2>3, <2>4, FuoriDallaTavola DEF RispostaArriva
<1>3. CASE RispostaPersa
  <2>1. TypeOK'
    BY <1>3, NotificheAssumption
    DEF RispostaPersa, Perde, Inv, TypeOK, tavola, transazione, annunci
  <2>2. ConfermeNote' /\ NuoveSenzaConferma'
    BY <1>3, ConfermeFerme DEF RispostaPersa, Inv, ConfermeNote
  <2> QED BY <1>3, <2>1, <2>2, FuoriDallaTavola DEF RispostaPersa, annunci
<1> QED BY <1>1, <1>2, <1>3

\* Mind confirms what it received: nothing of it is new.
LEMMA MindConfermaInv ==
  ASSUME Inv, NEW c \in Conferme, MindConferma(c)
  PROVE  Inv'
<1>1. TypeOK'
  BY DEF MindConferma, Inv, TypeOK, tavola, transazione, annunci
<1>2. ConfermeNote'
  BY DEF MindConferma, Inv, TypeOK, ConfermeNote
<1>3. NuoveSenzaConferma'
  BY DEF MindConferma, Inv, ConfermeNote, NuoveSenzaConferma, InConferma, annunci
<1> QED BY <1>1, <1>2, <1>3, FuoriDallaTavola DEF MindConferma, annunci

\* The rows a confirmation is about to mark are among those it names.
LEMMA LeggeConfermaInv ==
  ASSUME Inv, NEW c \in Conferme, LeggeConferma(c)
  PROVE  Inv'
<1>1. TypeOK'
  BY DEF LeggeConferma, Inv, TypeOK, tavola, transazione, annunci
<1>2. ConfermeNote'
  BY DEF LeggeConferma, Inv, ConfermeNote, DaMarcare, Ferma
<1>3. NuoveSenzaConferma'
  BY DEF LeggeConferma, Inv, ConfermeNote, NuoveSenzaConferma, InConferma, annunci
<1> QED BY <1>1, <1>2, <1>3, FuoriDallaTavola DEF LeggeConferma, annunci

\* Marking the rows: none of those the open cycle has written, all received,
\* none new.
LEMMA MarcaLetteInv ==
  ASSUME Inv, NEW c \in Conferme, MarcaLette(c)
  PROVE  Inv'
<1> DEFINE presi == conferma[c].presi
<1>1. /\ presi \cap Bloccate = {} /\ presi \subseteq ricevute /\ presi \cap nuove = {}
      /\ riga' = [s \in Situazioni |-> IF s \in presi THEN "letta" ELSE riga[s]]
      /\ risolte' = risolte \ presi
      /\ conferma' = [conferma EXCEPT ![c] = [passo |-> "risposta", ids |-> conferma[c].ids]]
      /\ conferma[c].ids \subseteq ricevute
      /\ UNCHANGED <<inAtto, vistiUltimo, transazione, annunci, risposta, daConfermare, ricevute,
                     cicli, cambi, perdite>>
  BY DEF MarcaLette, Inv, ConfermeNote, NuoveSenzaConferma, InConferma, Ferma
<1>2. NuoveSenzaConferma'
  BY <1>1 DEF Inv, ConfermeNote, NuoveSenzaConferma, InConferma, annunci
<1> HIDE DEF presi
<1>3. TypeOK'
  BY <1>1 DEF Inv, TypeOK, transazione, annunci
<1>4. ConfermeNote'
  BY <1>1 DEF Inv, ConfermeNote
<1>5. CicloCoerente'
  <2> SUFFICES ASSUME ciclo = "notificato", NEW l \in Collegamenti \ visti
               PROVE  LasceraChiusa(l)'
    BY <1>1 DEF CicloCoerente, transazione
  <2> QED BY <1>1 DEF Inv, TypeOK, CicloCoerente, LasceraChiusa, transazione, Situazioni
<1>6. AnnunciScritti'
  BY <1>1 DEF Inv, AnnunciScritti, transazione
<1>7. LettaSeRicevuta' /\ NessunaSituazionePersa' /\ AvvisoFedele' /\ vistiUltimo' \subseteq Situazioni
  BY <1>1 DEF Inv, TypeOK, LettaSeRicevuta, NessunaSituazionePersa, AvvisoFedele, Situazioni, annunci
<1> QED BY <1>2, <1>3, <1>4, <1>5, <1>6, <1>7 DEF Inv

\* The confirmation is over, or lost at any point.
LEMMA ConfermaFinitaInv ==
  ASSUME Inv, NEW c \in Conferme, ConfermaRicevuta(c) \/ ConfermaPersa(c)
  PROVE  Inv'
<1>1. TypeOK'
  BY NotificheAssumption
  DEF ConfermaRicevuta, ConfermaPersa, Perde, Inv, TypeOK, tavola, transazione, annunci
<1>2. ConfermeNote'
  BY DEF ConfermaRicevuta, ConfermaPersa, Inv, ConfermeNote
<1>3. NuoveSenzaConferma'
  BY DEF ConfermaRicevuta, ConfermaPersa, Inv, ConfermeNote, NuoveSenzaConferma, InConferma,
         annunci, Ferma
<1> QED BY <1>1, <1>2, <1>3, FuoriDallaTavola DEF ConfermaRicevuta, ConfermaPersa, annunci

-----------------------------------------------------------------------------
(***************************************************************************)
(* The theorems.                                                           *)
(***************************************************************************)
\* Every step preserves the invariant.
LEMMA PassoInv == Inv /\ [Next]_vars => Inv'
<1> SUFFICES ASSUME Inv, [Next]_vars PROVE Inv'
  OBVIOUS
<1>1. CASE UNCHANGED vars
  <2>1. TypeOK' /\ ConfermeNote' /\ NuoveSenzaConferma'
    BY <1>1, ConfermeFerme DEF vars, tavola, transazione, annunci, rete, Inv, TypeOK, ConfermeNote
  <2> QED BY <1>1, <2>1, FuoriDallaTavola DEF vars, annunci, rete
<1> QED BY <1>1, CambiaInv, AvviaCicloInv, GeneraNotificheInv, ConcludiCicloInv, CicloFallitoInv,
           RispostaInv, MindConfermaInv, LeggeConfermaInv, MarcaLetteInv, ConfermaFinitaInv
        DEF Next, PassoCiclo, PassoConferma

\* The invariant holds whatever is lost, delayed or repeated.
THEOREM Invariante == Spec => []Inv
  BY InvInit, PassoInv, PTL DEF Spec

\* Rows, transaction and messages keep their types; nothing written is pending
\* outside a cycle.
THEOREM Tipi == Spec => []TypeOK
<1>1. Inv => TypeOK
  BY DEF Inv
<1> QED BY <1>1, Invariante, PTL

\* No notice leaves the queue unseen (notifiche.marca_lette): Mind received it,
\* or a cycle found the situation over.
THEOREM LettaPercheRicevuta == Spec => []LettaSeRicevuta
<1>1. Inv => LettaSeRicevuta
  BY DEF Inv
<1> QED BY <1>1, Invariante, PTL

\* What a cycle announces (notifiche.emetti), again and again as the situation
\* returns, is in the queue until Mind receives it after that announcement or a
\* cycle closes it, provided no older answer or confirmation of it was to come.
THEOREM NulladiPerso == Spec => []NessunaSituazionePersa
<1>1. Inv => NessunaSituazionePersa
  BY DEF Inv
<1> QED BY <1>1, Invariante, PTL

\* The queue holds no notice of a link the last completed cycle found back
\* (sync._genera_notifiche, _risolvi).
THEOREM CodaFedele == Spec => []AvvisoFedele
<1>1. Inv => AvvisoFedele
  BY DEF Inv
<1> QED BY <1>1, Invariante, PTL
=============================================================================
