-------------------------- MODULE MCWorkerRuntime --------------------------
(* Work items of the lifecycle and the outbox loop for one or two boards. *)
EXTENDS WorkerRuntime, TLC

CONSTANTS o1, o2, o3, o4

MCOps == {o1, o2, o3, o4}
MCKind == o1 :> "job" @@ o2 :> "job" @@ o3 :> "check_run.create"
          @@ o4 :> "workflow.dispatch"
MCTenant == [o \in MCOps |-> "t1"]
MCBoard == o1 :> "b1" @@ o2 :> "b1" @@ o3 :> "b1" @@ o4 :> "b2"
=============================================================================
