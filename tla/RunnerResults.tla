--------------------------- MODULE RunnerResults ---------------------------
(***************************************************************************)
(* What the result route decides about a signed runner result and what an  *)
(* accepted one does to the release run and its execution attempt: the     *)
(* classification of persistRunnerResult and the state function            *)
(* boardreadyops_apply_runner_result_state, as pure operators on the rows. *)
(*                                                                         *)
(* A result stands for its digest: two results are equal when their        *)
(* digests are.  None is the digest of a run that has no terminal result,  *)
(* and the row of a run that has no result at all.                         *)
(***************************************************************************)
EXTENDS Naturals

CONSTANT None

Decided == {"completed", "failed", "timed_out"}
LiveRun == {"queued", "dispatched", "running"}
LiveAttempt == {"dispatched", "in_progress", "uploading_artifacts", "reporting"}

(* r may end the run.  The other results report progress. *)
Final(r) == r.status \in Decided

(* persistence_outcome of a result for a run whose verdict is in. *)
DecidedOutcome(run, r) ==
  IF Final(r) /\ run.digest \in {r, None} THEN IF run.digest = r THEN "replayed" ELSE "accepted"
  ELSE "conflicting_terminal_result"

Outcome_AnyAttempt(run, att, row, current, r) ==
  IF run.status = "superseded" THEN "superseded"
  ELSE IF att.status \in {"cancelled", "timed_out", "stale", "superseded"} THEN "stale_attempt"
  ELSE IF run.status \in Decided THEN DecidedOutcome(run, r)
  ELSE IF row # None /\ row.value = r THEN "replayed"
  ELSE "accepted"

(* persistence_outcome; current: the request names the attempt of the run. *)
Outcome(run, att, row, current, r) ==
  IF run.status = "superseded" THEN "superseded"
  ELSE IF ~current \/ att.status \in {"cancelled", "timed_out", "stale", "superseded"} THEN "stale_attempt"
  ELSE IF run.status \in Decided THEN DecidedOutcome(run, r)
  ELSE IF row # None /\ row.value = r THEN "replayed"
  ELSE "accepted"

(* The lifecycle guard of an accepted result; a final one corrects an inferred verdict. *)
TransitionAllowed(run, att, r) ==
  \/ /\ ~Final(r) /\ run.status \in LiveRun
     /\ att.status \in {"dispatched", "in_progress"}
  \/ /\ Final(r)
     /\ \/ run.status \in LiveRun /\ att.status \in LiveAttempt \cup {r.status}
        \/ run.status \in Decided /\ run.digest = None

Accepted(run, att, row, current, r) ==
  Outcome(run, att, row, current, r) = "accepted" /\ TransitionAllowed(run, att, r)

Moved(x, status) == IF x.status = status THEN x.version ELSE x.version + 1

RunAfter_LiveOnly(run, r) ==
  [status |-> r.status, version |-> Moved(run, r.status),
   digest |-> IF Final(r) /\ run.status \in LiveRun THEN r ELSE run.digest]

RunAfter(run, r) ==
  [status |-> r.status, version |-> Moved(run, r.status), digest |-> IF Final(r) THEN r ELSE run.digest]

AttemptAfter(att, r) ==
  LET status == IF Final(r) THEN r.status ELSE "in_progress"
  IN  [status |-> status, version |-> Moved(att, status)]
=============================================================================
