---------------------------- MODULE MCListOwners ----------------------------
(***************************************************************************)
(* Instances of ListOwners for TLC: eight names, the least number with     *)
(* which every case of rebalancing is met; four providers, of which the    *)
(* first shows three paths, the third none, and two names not accepted.    *)
(***************************************************************************)
EXTENDS ListOwners

MCNames == 1..8
MCProviders == <<{1, 2, 5}, {6}, {}, {4}>>
MCAccepted == {1, 4, 5, 6}
=============================================================================
