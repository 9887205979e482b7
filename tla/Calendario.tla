----------------------------- MODULE Calendario -----------------------------
(***************************************************************************)
(* The rules of domain/calendario.py on the real calendar: Easter, the     *)
(* Italian holidays, and the window in which a reminder may leave, by the  *)
(* clock of Rome, for instants kept in UTC.                                *)
(*                                                                         *)
(* Days are counted from 1 January 1970, instants in minutes from its      *)
(* first one.  Where the other modules reason about a set of days without  *)
(* sending and about local hours (Dominio), here is what those abstract.   *)
(***************************************************************************)
EXTENDS Integers

(***************************************************************************)
(* The proleptic Gregorian calendar (datetime.date).                       *)
(***************************************************************************)
Ordinale(anno, mese, giorno) ==
  LET a == IF mese <= 2 THEN anno - 1 ELSE anno
      daMarzo == IF mese > 2 THEN mese - 3 ELSE mese + 9
  IN  365 * a + (a \div 4) - (a \div 100) + (a \div 400)
        + ((153 * daMarzo + 2) \div 5) + giorno - 719469

Anno(n) ==
  CHOOSE a \in (n \div 366) + 1969 .. (n \div 365) + 1971 :
    Ordinale(a, 1, 1) <= n /\ n < Ordinale(a + 1, 1, 1)

Domenica == 6
GiornoSettimana(n) == (n + 3) % 7

(***************************************************************************)
(* The clock of Rome: summer time from the last Sunday of March to the     *)
(* last Sunday of October, at 01:00 UTC.                                   *)
(***************************************************************************)
UltimaDomenica(anno, mese) ==
  LET fine == Ordinale(anno, mese, 31) IN fine - ((GiornoSettimana(fine) + 1) % 7)

OraLegale(istante) ==
  LET anno == Anno(istante \div 1440) IN
  /\ 1440 * UltimaDomenica(anno, 3) + 60 <= istante
  /\ istante < 1440 * UltimaDomenica(anno, 10) + 60

Locale(istante) == istante + (IF OraLegale(istante) THEN 120 ELSE 60)

-----------------------------------------------------------------------------
(***************************************************************************)
(* calendario.py.                                                          *)
(***************************************************************************)
ORA_INVIO == 10 * 60
ORA_LIMITE == 18 * 60

FESTIVITA_FISSE ==
  {<<1, 1>>, <<1, 6>>, <<4, 25>>, <<5, 1>>, <<6, 2>>, <<8, 15>>, <<11, 1>>,
   <<12, 8>>, <<12, 25>>, <<12, 26>>}

\* Fault: the correction of the last century term is left out.
Pasqua_senzaCorrezione(anno) ==
  LET a == anno % 19
      h == (19 * a + 15 + (anno \div 100) - (anno \div 400)) % 30
      ell == (32 + 2 * ((anno \div 100) % 4) + 2 * ((anno % 100) \div 4) - h - (anno % 4)) % 7
  IN  Ordinale(anno, (h + ell + 114) \div 31, ((h + ell + 114) % 31) + 1)

\* Easter Sunday (Meeus/Jones/Butcher).
Pasqua(anno) ==
  LET a == anno % 19
      b == anno \div 100
      c == anno % 100
      d == b \div 4
      e == b % 4
      f == (b + 8) \div 25
      g == (b - f + 1) \div 3
      h == (19 * a + b - d - g + 15) % 30
      i == c \div 4
      k == c % 4
      ell == (32 + 2 * e + 2 * i - h - k) % 7
      m == (a + 11 * h + 22 * ell) \div 451
      n == h + ell - 7 * m + 114
  IN  Ordinale(anno, n \div 31, (n % 31) + 1)

EFestivo(n) ==
  LET anno == Anno(n) IN
  \/ \E f \in FESTIVITA_FISSE : n = Ordinale(anno, f[1], f[2])
  \/ n = Pasqua(anno) + 1

\* _SABATO = 5.
EGiornoUtile(n) == GiornoSettimana(n) < 5 /\ ~EFestivo(n)

\* The loop ends at the first working day; nine days are more than any run of
\* days without sending (property CalendarioDiDominio).
PrimoUtile(n) ==
  CHOOSE u \in n .. n + 9 : EGiornoUtile(u) /\ \A v \in n .. u - 1 : ~EGiornoUtile(v)

\* Fault: winter time all the year.
IstanteInvio_oraSolare(n, ora) == 1440 * n + ora - 60

IstanteInvio(n, ora) ==
  CHOOSE u \in {1440 * n + ora - 60, 1440 * n + ora - 120} : Locale(u) = 1440 * n + ora

\* Fault: what is too late for today goes to the morning of the same day.
Finestra_stessoGiorno(pianificato) ==
  LET locale == Locale(pianificato)
      giorno == locale \div 1440
      tardi == locale % 1440 > ORA_LIMITE
      utile == PrimoUtile(giorno)
  IN  IF tardi \/ utile # giorno THEN IstanteInvio(utile, ORA_INVIO) ELSE pianificato

\* applica_finestra.  An hour that is left alone is left with its "fold": the
\* instant does not change, also in the hour that October repeats.
Finestra(pianificato) ==
  LET locale == Locale(pianificato)
      tardi == locale % 1440 > ORA_LIMITE
      giorno == (locale \div 1440) + (IF tardi THEN 1 ELSE 0)
      utile == PrimoUtile(giorno)
  IN  IF tardi \/ utile # giorno THEN IstanteInvio(utile, ORA_INVIO) ELSE pianificato
=============================================================================
