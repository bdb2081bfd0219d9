--------------------------- MODULE WorkerRuntime ---------------------------
(***************************************************************************)
(* The worker process (apps/web/worker.ts): its queue loops, the handlers  *)
(* they pass through the shared gate, the graceful shutdown a signal       *)
(* starts and the fatal path a rejected loop takes.                        *)
(*                                                                         *)
(* A loop claims a batch, hands every item to the gate and waits for the   *)
(* whole batch.  A claim whose query is rejected, or a handler that        *)
(* rejects (its own failure could not be recorded), rejects the loop; the  *)
(* rest of its batch goes on without anyone waiting for it.  The Stripe    *)
(* and maintenance loops never use the gate and catch their own failures;  *)
(* they are left out.  closeHealthServer tests that the server listens in  *)
(* the step that closes it, which is why it has no failure here.           *)
(***************************************************************************)
EXTENDS ScopedConcurrencyGate

CONSTANTS Kind,               \* [Ops -> kind of work]
          Tenant,             \* [Ops -> the GitHub installation it is for]
          Board               \* [Ops -> the GitHub repository it is for]

VARIABLES loop,               \* [Loops -> where the loop stands]
          batch,              \* [Loops -> items of its batch not settled yet]
          main,               \* the module's top level
          shutdown,           \* shutdownPromise
          shuttingDown,
          pool                \* the database pool

(***************************************************************************)
(* Jobs, check-run creations and dispatches are scoped by GitHub's         *)
(* numbers; a completion by GitHub's installation number and the           *)
(* repository's full name; reconciliation items and deletions by the       *)
(* database's own identifiers.                                             *)
(***************************************************************************)
WorkerScope ==
  [o \in Ops |->
     CASE Kind[o] \in {"job", "check_run.create", "workflow.dispatch"} ->
            [installation |-> <<"github", Tenant[o]>>, repository |-> <<"github", Board[o]>>]
       [] Kind[o] = "check_run.complete" ->
            [installation |-> <<"github", Tenant[o]>>, repository |-> <<"name", Board[o]>>]
       [] OTHER ->
            [installation |-> <<"row", Tenant[o]>>, repository |-> <<"row", Board[o]>>]]

(* The items the loops hand to the gate are the gate's operations. *)
ASSUME ScopeAssumption == Scope = WorkerScope

gate == vars
worker == <<loop, batch, main, shutdown, shuttingDown, pool>>
workerVars == <<gate, worker>>

LoopOf(o) == CASE Kind[o] = "job" -> "lifecycle"
               [] Kind[o] \in {"check_run.create", "workflow.dispatch",
                               "check_run.complete"} -> "outbox"
               [] Kind[o] = "deletion" -> "artifact_deletion"
               [] Kind[o] = "inbox.reconcile" -> "lifecycle_reconciliation"
               [] OTHER -> "github_reconciliation"

Loops == {LoopOf(o) : o \in Ops}

WorkerInit == /\ Init
              /\ loop = [l \in Loops |-> "off"]
              /\ batch = [l \in Loops |-> {}]
              /\ main = "starting"
              /\ shutdown = "none"
              /\ shuttingDown = FALSE
              /\ pool = "open"

-----------------------------------------------------------------------------
(* The top level: the health server listens and the loops start.  Each of  *)
(* them looks at shuttingDown at once: a signal may have come before.      *)
Start ==
  /\ main = "starting"
  /\ main' = "running"
  /\ loop' = [l \in Loops |-> IF shuttingDown THEN "done" ELSE "poll"]
  /\ UNCHANGED <<gate, batch, shutdown, shuttingDown, pool>>

(* activeLoops resolves: every loop has returned. *)
MainReturns ==
  /\ Idle
  /\ main = "running"
  /\ \A l \in Loops : loop[l] = "done"
  /\ main' = "ended"
  /\ UNCHANGED <<gate, loop, batch, shutdown, shuttingDown, pool>>

(* The health server cannot listen, or activeLoops rejects with the first   *)
(* loop that does.                                                          *)
Fatal ==
  /\ Idle
  /\ \/ main = "starting"
     \/ main = "running" /\ \E l \in Loops : loop[l] = "rejected"
  /\ main' = "closing"
  /\ shuttingDown' = TRUE
  /\ UNCHANGED <<gate, loop, batch, shutdown, pool>>

(* The catch block closes the pool whoever still uses it. *)
FatalClose ==
  /\ Idle
  /\ main = "closing"
  /\ main' = "failed"
  /\ pool' = "closed"
  /\ UNCHANGED <<gate, loop, batch, shutdown, shuttingDown>>

-----------------------------------------------------------------------------
(* One pass of a loop: it looks at shuttingDown before each claim only. *)
Poll_Regardless(l) ==
  /\ Idle
  /\ loop[l] = "poll"
  /\ loop' = [loop EXCEPT ![l] = "claiming"]
  /\ UNCHANGED <<gate, batch, main, shutdown, shuttingDown, pool>>

Poll(l) ==
  /\ Idle
  /\ loop[l] = "poll"
  /\ loop' = [loop EXCEPT ![l] = IF shuttingDown THEN "done" ELSE "claiming"]
  /\ UNCHANGED <<gate, batch, main, shutdown, shuttingDown, pool>>

ClaimNothing(l) ==
  /\ Idle
  /\ loop[l] = "claiming"
  /\ loop' = [loop EXCEPT ![l] = "sleeping"]
  /\ UNCHANGED <<gate, batch, main, shutdown, shuttingDown, pool>>

Wake(l) ==
  /\ Idle
  /\ loop[l] = "sleeping"
  /\ loop' = [loop EXCEPT ![l] = "poll"]
  /\ UNCHANGED <<gate, batch, main, shutdown, shuttingDown, pool>>

(* The claimed items go to the gate within one continuation. *)
ClaimBatch(l, b) ==
  /\ loop[l] = "claiming"
  /\ \A i \in DOMAIN b : LoopOf(b[i]) = l
  /\ Submit(b)
  /\ loop' = [loop EXCEPT ![l] = "processing"]
  /\ batch' = [batch EXCEPT ![l] = {b[i] : i \in DOMAIN b}]
  /\ UNCHANGED <<main, shutdown, shuttingDown, pool>>

(* The claim's promise is returned without await: its rejection passes the  *)
(* catch and rejects the loop.                                              *)
ClaimRejects(l) ==
  /\ Idle
  /\ loop[l] = "claiming"
  /\ loop' = [loop EXCEPT ![l] = "rejected"]
  /\ UNCHANGED <<gate, batch, main, shutdown, shuttingDown, pool>>

GateContinues == Continue /\ UNCHANGED worker

(* A handler answers; its loop goes on waiting for the others. *)
HandlerResolves(o) ==
  /\ Settle(o)
  /\ batch' = [batch EXCEPT ![LoopOf(o)] = @ \ {o}]
  /\ UNCHANGED <<loop, main, shutdown, shuttingDown, pool>>

(* A handler rejects: Promise.all rejects and the loop with it, once. *)
HandlerRejects(o) ==
  /\ Settle(o)
  /\ batch' = [batch EXCEPT ![LoopOf(o)] = @ \ {o}]
  /\ loop' = [loop EXCEPT ![LoopOf(o)] = "rejected"]
  /\ UNCHANGED <<main, shutdown, shuttingDown, pool>>

Released(o) == Release(o) /\ UNCHANGED worker

(* Promise.all resolves with the last handler. *)
BatchDone(l) ==
  /\ Idle
  /\ loop[l] = "processing"
  /\ batch[l] = {}
  /\ loop' = [loop EXCEPT ![l] = "poll"]
  /\ UNCHANGED <<gate, batch, main, shutdown, shuttingDown, pool>>

-----------------------------------------------------------------------------
(* SIGINT or SIGTERM, also while the health server starts and activeLoops  *)
(* is still the empty promise; a second one finds shutdownPromise.         *)
Signal ==
  /\ Idle
  /\ shutdown = "none"
  /\ shutdown' = "closing"
  /\ shuttingDown' = TRUE
  /\ UNCHANGED <<gate, loop, batch, main, pool>>

HealthServerClosed ==
  /\ Idle
  /\ shutdown = "closing"
  /\ shutdown' = "awaiting"
  /\ UNCHANGED <<gate, loop, batch, main, shuttingDown, pool>>

LoopsReturned_BatchesIgnored ==
  \A l \in Loops : loop[l] \in {"done", "off", "processing", "claiming"}

(* The loops that activeLoops stands for: none before they are started. *)
LoopsReturned == \A l \in Loops : loop[l] \in {"done", "off"}

(* await activeLoops, then executor.close. *)
ShutdownClose ==
  /\ Idle
  /\ shutdown = "awaiting"
  /\ LoopsReturned
  /\ shutdown' = "closed"
  /\ pool' = "closed"
  /\ UNCHANGED <<gate, loop, batch, main, shuttingDown>>

(* activeLoops rejected: the pool is left to the catch block. *)
ShutdownFails ==
  /\ Idle
  /\ shutdown = "awaiting"
  /\ \E l \in Loops : loop[l] = "rejected"
  /\ shutdown' = "failed"
  /\ UNCHANGED <<gate, loop, batch, main, shuttingDown, pool>>

LoopStep(l) == \/ Poll(l) \/ ClaimNothing(l) \/ Wake(l) \/ ClaimRejects(l)
               \/ BatchDone(l)
               \/ \E b \in Batches : ClaimBatch(l, b)

ProcessStep == \/ Start \/ MainReturns \/ Fatal \/ FatalClose
               \/ HealthServerClosed \/ ShutdownClose \/ ShutdownFails

Proceed == \/ ProcessStep \/ GateContinues
           \/ \E l \in Loops : LoopStep(l)
           \/ \E o \in Ops : HandlerResolves(o) \/ HandlerRejects(o) \/ Released(o)

WorkerNext == Proceed \/ Signal

WorkerSpec == WorkerInit /\ [][WorkerNext]_workerVars

(* The event loop goes on while anything is left to do: claims are answered *)
(* and handlers end one way or the other.  Nobody has to send a signal.     *)
WorkerFairSpec == WorkerSpec /\ WF_workerVars(Proceed)

-----------------------------------------------------------------------------

TypeOK ==
  /\ GateTypeOK
  /\ loop \in [Loops -> {"off", "poll", "claiming", "sleeping", "processing",
                         "rejected", "done"}]
  /\ batch \in [Loops -> SUBSET Ops]
  /\ main \in {"starting", "running", "ended", "closing", "failed"}
  /\ shutdown \in {"none", "closing", "awaiting", "closed", "failed"}
  /\ shuttingDown \in BOOLEAN
  /\ pool \in {"open", "closed"}

(* Work this process has leased: a claim in flight, or an item that has not *)
(* been answered.                                                           *)
NothingLeased == /\ \A l \in Loops : loop[l] # "claiming"
                 /\ \A o \in Ops : op[o] \in {"out", "settled"}

(* A graceful shutdown closes the pool only after the claims in flight, the *)
(* items that were waiting in the gate and the running handlers are all     *)
(* answered; nothing is claimed after it.                                   *)
DrainsBeforeClose == shutdown = "closed" => NothingLeased

(* A signal or a rejected loop always ends the process: the pool is closed, *)
(* every loop has returned, and the handlers nobody waits for any more have *)
(* left the gate as well.                                                   *)
Ends == shuttingDown ~> /\ pool = "closed"
                        /\ \A l \in Loops : loop[l] \in {"off", "done", "rejected"}
                        /\ \A o \in Ops : op[o] = "out"

=============================================================================
