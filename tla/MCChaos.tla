------------------------------- MODULE MCChaos -------------------------------
(***************************************************************************)
(* One client writes, another reads, writes and reads again, on three      *)
(* servers: enough to see a write come back after it was replaced.         *)
(***************************************************************************)
EXTENDS Chaos, MemoryTests, TLC

CONSTANTS n1, n2, n3, c1, c2

MCTargets == <<n1, n2, n3>>
MCWorkload == c1 :> <<{"Write"}>> @@ c2 :> <<{"Read"}, {"Write"}, {"Read"}>>
MCKey == <<"x">>
=============================================================================
