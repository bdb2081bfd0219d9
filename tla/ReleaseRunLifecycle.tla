------------------------ MODULE ReleaseRunLifecycle ------------------------
(***************************************************************************)
(* What the control plane promises about the release runs of one pull      *)
(* request: each logical run walks the state graph of                      *)
(* boardreadyops_release_run_transition_allowed, a terminal state is       *)
(* final, every applied change increments the run's version exactly once,  *)
(* and starting work on one commit supersedes the active runs of every     *)
(* other commit in the same step.                                          *)
(***************************************************************************)
EXTENDS Integers

CONSTANTS Runs, CommitOf

VARIABLES status, version

lifecycleVars == <<status, version>>

Nonterminal == {"queued", "dispatched", "running"}
Terminal == {"completed", "failed", "timed_out", "superseded"}

(* boardreadyops_release_run_transition_allowed, the edges out of each       *)
(* status (cancelled is a target no code path requests).                    *)
Successors(s) ==
  CASE s = "queued"     -> {"dispatched", "running"} \cup Terminal
    [] s = "dispatched" -> {"running"} \cup Terminal
    [] s = "running"    -> Terminal
    [] OTHER            -> {}

LifecycleInit == /\ status = [r \in Runs |-> "absent"]
                 /\ version = [r \in Runs |-> 0]

Superseding(r) ==
  {s \in Runs : CommitOf[s] # CommitOf[r] /\ status[s] \in Nonterminal}

(* A request for r creates its run unless it exists, and retires the        *)
(* active runs of all other commits.                                        *)
Request(r) ==
  /\ status' = [s \in Runs |-> IF s \in Superseding(r) THEN "superseded"
                               ELSE IF s = r /\ status[r] = "absent" THEN "queued"
                               ELSE status[s]]
  /\ version' = [s \in Runs |-> IF s \in Superseding(r) THEN version[s] + 1 ELSE version[s]]

Advance(r) ==
  /\ \E s \in Successors(status[r]) : status' = [status EXCEPT ![r] = s]
  /\ version' = [version EXCEPT ![r] = @ + 1]

(* A queued run gets its execution attempt: a change without a new status. *)
BindAttempt(r) ==
  /\ status[r] = "queued"
  /\ version' = [version EXCEPT ![r] = @ + 1]
  /\ UNCHANGED status

LifecycleNext == \E r \in Runs : Request(r) \/ Advance(r) \/ BindAttempt(r)

LifecycleSpec == LifecycleInit /\ [][LifecycleNext]_lifecycleVars
=============================================================================
