---------------------------- MODULE MCFileStorage ----------------------------
(***************************************************************************)
(* A node of three, the leaders of two terms and their logs.               *)
(***************************************************************************)
EXTENDS FileStorage, CoreTests, CheckerTests, TLC

CONSTANTS s2, s3, a, b, c, d

Entry(t, k, command) == [term |-> t, index |-> k, command |-> command]

\* The first leader's last entry is never committed; the second overwrites it.
MCLeaderLog == <<<<Entry(1, 1, a), Entry(1, 2, b)>>,
                 <<Entry(1, 1, a), Entry(2, 2, c), Entry(2, 3, d)>>>>
MCLeaderCommit == <<1, 3>>
MCLeader == <<s2, s3>>
=============================================================================
