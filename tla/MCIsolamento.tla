---------------------------- MODULE MCIsolamento ----------------------------
(***************************************************************************)
(* Two tenants, a cliente of the first and the id of another to create,    *)
(* two sessions over two connections.                                      *)
(***************************************************************************)
EXTENDS IsolamentoTenant, TLC

InizialiK == [K1 |-> [tenant |-> "A", mandante |-> "A"],
              K2 |-> Assente]
Simmetria == Permutations(Sessioni) \cup Permutations(Connessioni)
=============================================================================
