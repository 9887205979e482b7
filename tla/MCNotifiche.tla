---------------------------- MODULE MCNotifiche ----------------------------
(***************************************************************************)
(* One link and one invoice, three cycles: a link may fall, come back and  *)
(* fall again, with two confirmations under way together.                  *)
(***************************************************************************)
EXTENDS Notifiche
=============================================================================
