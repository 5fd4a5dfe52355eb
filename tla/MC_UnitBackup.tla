--------------------------- MODULE MC_UnitBackup ---------------------------
(***************************************************************************)
(* Two nodes, n0 (us) and n1.  Rounds are two bits wide (0 .. 3).  The     *)
(* runway creates units up to round MCMaxRound, so that next_round_backup  *)
(* stays below the last round, or reaches it (MCMaxRoundAll).              *)
(***************************************************************************)
EXTENDS UnitBackup, TLC

CONSTANTS n0, n1

MCNodes == {n0, n1}

MCWidth == 2

MCMaxRound == 2

MCMaxRoundAll == 3
=============================================================================
