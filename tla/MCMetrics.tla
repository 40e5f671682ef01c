------------------------------ MODULE MCMetrics ------------------------------
(* Both servers, and clients who are as good as each other.                 *)
EXTENDS Metrics, TLC

CONSTANTS c1, c2, c3

MCProviders == <<"ftp", "sftp">>
Symmetry == Permutations(Client)
=============================================================================
