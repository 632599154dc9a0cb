------------------------------ MODULE MCCommit ------------------------------
(***************************************************************************)
(* Instances of Commit for TLC                                              *)
(***************************************************************************)
EXTENDS Commit

\* Everywhere but between the stores of UPDATE_JPL_RSRV_WRITE_ADDR (run cmt03)
KillPointsRepaired == PC \ {"idle", "dead", "cmt03b"}
=============================================================================
