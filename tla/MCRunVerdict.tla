---------------------------- MODULE MCRunVerdict ----------------------------
(* Model values for TLC: a progress report, two verdicts that differ, and a time-out. *)
EXTENDS RunVerdict

MCResults == {[status |-> "running", conclusion |-> "neutral"],
              [status |-> "completed", conclusion |-> "success"],
              [status |-> "completed", conclusion |-> "failure"]}
=============================================================================
