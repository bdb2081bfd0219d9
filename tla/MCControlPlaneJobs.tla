------------------------- MODULE MCControlPlaneJobs -------------------------
(* The instance of the webhook inbox and its job queue for TLC.            *)
EXTENDS ControlPlaneJobs
=============================================================================
