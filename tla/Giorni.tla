------------------------------- MODULE Giorni -------------------------------
(***************************************************************************)
(* The days of the calendar, one after the other, and what is true of each *)
(* of them: the rules of Calendario against the tables of the Church and   *)
(* against the simpler calendar of Dominio, which the other modules use.   *)
(***************************************************************************)
EXTENDS Calendario

Dominio == INSTANCE Dominio

CONSTANT Anni   \* years of the calendar

ASSUME AnniAssumption == \A a \in Anni : a \in Nat /\ a > 1970

VARIABLE giorno

\* While no day is looked at.
NessunGiorno == 0

GiorniInit == \E a \in Anni : giorno = Ordinale(a, 1, 1)

GiornoDopo ==
  /\ giorno # NessunGiorno /\ Anno(giorno + 1) = Anno(giorno)
  /\ giorno' = giorno + 1

GiorniSpec == GiorniInit /\ [][GiornoDopo]_giorno

-----------------------------------------------------------------------------
\* Easter by the tables of the Church (Gregorian epact and golden number), on
\* every day of the year: the Sunday after the full moon of 21 March or later.
PasquaDellaChiesa ==
  giorno # NessunGiorno =>
    LET anno == Anno(giorno)
        secolo == (anno \div 100) + 1
        aureo == (anno % 19) + 1
        solare == ((3 * secolo) \div 4) - 12
        lunare == ((8 * secolo + 5) \div 25) - 5
        epatta == (11 * aureo + 20 + lunare - solare) % 30
        corretta == IF epatta = 24 \/ (epatta = 25 /\ aureo > 11) THEN epatta + 1 ELSE epatta
        luna == IF 44 - corretta < 21 THEN 74 - corretta ELSE 44 - corretta
        plenilunio == Ordinale(anno, 3, 1) + luna - 1
    IN  giorno = Pasqua(anno) <=>
          /\ GiornoSettimana(giorno) = Domenica
          /\ plenilunio < giorno /\ giorno <= plenilunio + 7

\* Minutes of a UTC day around what the window looks at: midnights, the hours
\* summer time begins and ends at, 10:00 and 18:00 in Rome in both seasons.
Minuti ==
  {0, 59, 60, 61, 119, 120, 480, 540, 959, 960, 961, 1019, 1020, 1021,
   1319, 1320, 1379, 1380, 1439}

Dentro(istante) ==
  LET locale == Locale(istante) IN
  EGiornoUtile(locale \div 1440) /\ locale % 1440 <= ORA_LIMITE

\* No planned instant is on a holiday or after 18:00 in Rome, nothing is moved
\* that need not be, nothing is anticipated, and what moves goes to 10:00 of the
\* first working day on which something may still be sent, whatever the season
\* on the two sides of the move.
FinestraUtile ==
  giorno # NessunGiorno =>
    \A minuto \in Minuti :
      LET prima == 1440 * giorno + minuto
          dopo == Finestra(prima)
      IN  /\ Dentro(dopo) /\ prima <= dopo
          /\ Dentro(prima) => dopo = prima
          /\ dopo # prima =>
               /\ Locale(dopo) % 1440 = ORA_INVIO
               /\ \A g \in Locale(prima) \div 1440 .. (Locale(dopo) \div 1440) - 1 :
                    ~EGiornoUtile(g) \/ (g = Locale(prima) \div 1440 /\ ~Dentro(prima))

\* The calendar of Dominio, a set of days without sending and whole local
\* hours, is faithful to this one: no stretch without sending is longer than
\* MaxFestiviConsecutivi, the two windows agree, and steps planned for
\* different days keep their order ("mantenendo l'ordine della sequenza").
CalendarioDiDominio ==
  giorno # NessunGiorno =>
    LET n == giorno
        festivi == {g \in n .. n + 9 : ~EGiornoUtile(g)}
        primaOra == IstanteInvio(n, ORA_INVIO)
    IN  /\ \E g \in n .. n + Dominio!MaxFestiviConsecutivi : EGiornoUtile(g)
        /\ \A ora \in {0, 9, 10, 18, 19, 23} :
             LET dopo == Locale(Finestra(IstanteInvio(n, 60 * ora))) IN
             dopo = 60 * Dominio!ApplicaFinestra(24 * n + ora, festivi)
        /\ Finestra(primaOra) <= Finestra(IstanteInvio(n + 1, ORA_INVIO))
=============================================================================
