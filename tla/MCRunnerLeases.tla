--------------------------- MODULE MCRunnerLeases ---------------------------
(* Model values for TLC: the two results between which the protocol tells a difference. *)
EXTENDS RunnerLeases

MCResults == {[status |-> "completed"], [status |-> "failed"]}
=============================================================================
