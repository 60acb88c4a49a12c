--------------------------- MODULE AutomationRun ---------------------------
(***************************************************************************)
(* The durable automation engine of backend/ecc/domains/automation:        *)
(* workflow runs that several workers lease, drive step by step and        *)
(* compensate (worker.py), while operators enqueue, cancel, pause and      *)
(* resume them, decide approval requests (approvals.py), throw kill        *)
(* switches (kill_switches.py) and revoke policies (policy.py).            *)
(*                                                                         *)
(* One action is one database transaction of the code, or one call of an   *)
(* adapter.  Between two transactions of a worker any other actor may run. *)
(* The workflow version a run is pinned to never changes, so its graph is  *)
(* a constant; a step's action digest is a function of that graph, so a    *)
(* request approved for the live digest is a request approved for the step.*)
(***************************************************************************)
EXTENDS Integers, FiniteSets

CONSTANTS
  Run,            \* workflow_runs rows that may be created
  Worker,         \* worker processes, each with its own worker_id
  Workflow,       \* workflow families
  NoWorker,       \* leased_by IS NULL
  NoRun,          \* a worker that is not driving a run
  Everything,     \* the scope of the global kill switch
  WorkflowOf,     \* the workflow of each run
  NumSteps,       \* length of the pinned graph; step indexes are 0-based
  ActionStep,     \* indexes of the steps with step_type = 'action'
  CompensateRef,  \* compensable action step -> index of its compensation step
  Adapter,        \* what the adapter registry and the policy scope say of a step
  HighImpact,     \* action steps whose adapter declares high-impact categories
  Mode,           \* the approval modes the workflows' policies may have
  CountLimit,     \* automation_policies.count_limit
  MaxRetry,       \* MAX_RETRY_ATTEMPTS
  MaxCrash        \* bound: how many times worker processes may die

Step == 0 .. NumSteps - 1
Compensable == DOMAIN CompensateRef

(* The shape validate_graph_shape enforces: a compensate_ref names a       *)
(* compensation step, which at most one action step may claim.             *)
ASSUME GraphAssumption ==
  /\ NumSteps \in Nat \ {0}
  /\ ActionStep \subseteq Step
  /\ HighImpact \subseteq ActionStep
  /\ Compensable \subseteq ActionStep
  /\ CompensateRef \in [Compensable -> Step \ ActionStep]
  /\ \A i, j \in Compensable : CompensateRef[i] = CompensateRef[j] => i = j
  /\ Adapter \in [Step -> {"authorized", "out_of_scope", "bad_input", "missing"}]

ASSUME ConstantAssumption ==
  /\ NoWorker \notin Worker
  /\ NoRun \notin Run
  /\ Everything \notin Workflow
  /\ WorkflowOf \in [Run -> Workflow]
  /\ CountLimit \in Nat
  /\ MaxRetry \in Nat
  /\ MaxCrash \in Nat
  /\ Mode \subseteq {"bounded_recurring", "per_run", "preview_only"}

VARIABLES
  \* workflow_runs
  status, cursor, leasedBy, lapsed, cancelRequested, pauseRequested, backingOff,
  \* workflow_run_steps
  step, attempts,
  \* approval_requests, automation_kill_switches, automation_policies
  approval, killed, policy,
  \* the local state of each worker process
  pc, job, at, verdict, tried, todo, clean,
  \* history: calls of adapter.execute and compensate per step; process deaths
  effects, crashes

leaseVars  == <<leasedBy, lapsed>>
flagVars   == <<cancelRequested, pauseRequested>>
runVars    == <<status, cursor, leasedBy, lapsed, cancelRequested, pauseRequested, backingOff>>
stepVars   == <<step, attempts>>
humanVars  == <<approval, killed, policy>>
localVars  == <<pc, job, at, verdict, tried, todo, clean>>
auxVars    == <<effects, crashes>>
vars == <<runVars, stepVars, humanVars, localVars, auxVars>>

-----------------------------------------------------------------------------
(* Statuses.                                                               *)

Terminal == {"succeeded", "failed", "cancelled", "compensated",
             "compensation_failed", "preview_blocked"}
LeaseBearing == {"leased", "running", "compensating"}
Cancellable == {"queued", "paused", "needs_review"}
RunStatus == Terminal \cup LeaseBearing \cup Cancellable \cup {"absent", "waiting_approval"}

StepStatus == {"none", "dispatched", "succeeded", "failed", "unknown", "retrying"}
\* "lapsed" is a pending row past its expires_at: computed, never stored.
ApprovalStatus == {"none", "pending", "lapsed", "approved", "rejected"}
Policy == [mode : Mode, usable : BOOLEAN]

WorkerPC == {"idle", "mark", "renew", "kill_check", "gate", "execute", "record",
             "step_failed", "settle",
             "comp_renew", "comp_gate", "comp_execute", "comp_record"}
\* The control points between picking an action step and leaving it.
ForwardPC == {"renew", "kill_check", "gate", "execute", "record", "step_failed"}
CompensationPC == {"comp_gate", "comp_execute", "comp_record"}
Verdict == RunStatus \cup {"ok", "transient", "error", "none"}

RunTypes ==
  /\ status \in [Run -> RunStatus]
  /\ cursor \in [Run -> 0 .. NumSteps]
  /\ leasedBy \in [Run -> Worker \cup {NoWorker}]
  /\ lapsed \in [Run -> BOOLEAN]
  /\ cancelRequested \in [Run -> BOOLEAN]
  /\ pauseRequested \in [Run -> BOOLEAN]
  /\ backingOff \in [Run -> BOOLEAN]

RowTypes ==
  /\ step \in [Run -> [Step -> StepStatus]]
  /\ attempts \in [Run -> [Step -> Nat]]
  /\ approval \in [Run -> [Step -> ApprovalStatus]]
  /\ killed \in SUBSET (Workflow \cup {Everything})
  /\ policy \in [Workflow -> Policy]
  /\ effects \in [Run -> [Step -> Nat]]
  /\ crashes \in Nat

LocalTypes ==
  /\ pc \in [Worker -> WorkerPC]
  /\ job \in [Worker -> Run \cup {NoRun}]
  /\ at \in [Worker -> 0 .. NumSteps]
  /\ verdict \in [Worker -> Verdict]
  /\ tried \in [Worker -> Nat]
  /\ todo \in [Worker -> SUBSET Compensable]
  /\ clean \in [Worker -> BOOLEAN]

\* A worker in the loop has a run, stands at a step of the kind its control point
\* is about, and settles a run only in a status that ends its lease.
ControlShape ==
  \A w \in Worker :
    /\ pc[w] # "idle" => job[w] \in Run
    /\ pc[w] \in ForwardPC => at[w] \in ActionStep
    /\ pc[w] \in CompensationPC => at[w] \in Compensable
    /\ pc[w] = "settle" => verdict[w] \in RunStatus \ LeaseBearing

TypeOK == RunTypes /\ RowTypes /\ LocalTypes /\ ControlShape

Init ==
  /\ status = [r \in Run |-> "absent"]
  /\ cursor = [r \in Run |-> 0]
  /\ leasedBy = [r \in Run |-> NoWorker]
  /\ lapsed = [r \in Run |-> FALSE]
  /\ cancelRequested = [r \in Run |-> FALSE]
  /\ pauseRequested = [r \in Run |-> FALSE]
  /\ backingOff = [r \in Run |-> FALSE]
  /\ step = [r \in Run |-> [i \in Step |-> "none"]]
  /\ attempts = [r \in Run |-> [i \in Step |-> 0]]
  /\ approval = [r \in Run |-> [i \in Step |-> "none"]]
  /\ killed = {}
  /\ policy \in [Workflow -> [mode : Mode, usable : {TRUE}]]
  /\ pc = [w \in Worker |-> "idle"]
  /\ job = [w \in Worker |-> NoRun]
  /\ at = [w \in Worker |-> 0]
  /\ verdict = [w \in Worker |-> "none"]
  /\ tried = [w \in Worker |-> 0]
  /\ todo = [w \in Worker |-> {}]
  /\ clean = [w \in Worker |-> TRUE]
  /\ effects = [r \in Run |-> [i \in Step |-> 0]]
  /\ crashes = 0


-----------------------------------------------------------------------------
(* What the transactions read and write.                                   *)

Killed(r) == Everything \in killed \/ WorkflowOf[r] \in killed

PolicyOf(r) == policy[WorkflowOf[r]]

\* Mutant: a crashed worker's run is not reclaimed.
ClaimableQueuedOnly(r) == status[r] = "queued" /\ ~backingOff[r] /\ ~Killed(r)

\* Mutant: the global switch is forgotten by the claim query.
ClaimableUnderGlobalKill(r) ==
  /\ \/ status[r] = "queued"
     \/ status[r] \in {"leased", "running"} /\ lapsed[r]
  /\ ~backingOff[r]
  /\ WorkflowOf[r] \notin killed

\* _CLAIMABLE_PREDICATE: queued, or abandoned by a worker that stopped renewing.
Claimable(r) ==
  /\ \/ status[r] = "queued"
     \/ status[r] \in {"leased", "running"} /\ lapsed[r]
  /\ ~backingOff[r]
  /\ ~Killed(r)

\* _LEASE_OWNERSHIP_PREDICATE, for the run the worker is driving.
Owns(w) == leasedBy[job[w]] = w

\* Rows of workflow_run_steps, of whatever status: _run_dispatch_totals counts them all.
DispatchCount(r) == Cardinality({i \in Step : step[r][i] # "none"})

\* Mutant: the adapter's high-impact categories are not consulted.
RequiresApprovalByModeOnly(r, i) ==
  DispatchCount(r) >= CountLimit \/ PolicyOf(r).mode # "bounded_recurring"

\* evaluate_approval_requirement, an empty set of categories included.
RequiresApproval(r, i) ==
  \/ i \in HighImpact
  \/ DispatchCount(r) >= CountLimit
  \/ PolicyOf(r).mode # "bounded_recurring"

\* Mutant: steps that never succeeded are compensated too.
QualifyingAll(r, boundary) == {i \in Compensable : i <= boundary}

\* _qualifying_compensations: succeeded compensable steps below the failed one.
Qualifying(r, boundary) ==
  {i \in Compensable : i < boundary /\ step[r][i] = "succeeded"}

SetStep(r, i, s) == step' = [step EXCEPT ![r][i] = s]
SetCursor(w) == cursor' = [cursor EXCEPT ![job[w]] = at[w]]
CountEffect(r, i) == effects' = [effects EXCEPT ![r][i] = @ + 1]

ReleaseLease(r) ==
  /\ leasedBy' = [leasedBy EXCEPT ![r] = NoWorker]
  /\ lapsed' = [lapsed EXCEPT ![r] = FALSE]

\* Mutant: the write carries no ownership predicate.
UnownedWrite(w, s, c) ==
  /\ status' = [status EXCEPT ![job[w]] = s]
  /\ cursor' = [cursor EXCEPT ![job[w]] = c]
  /\ ReleaseLease(job[w])

\* _finish_run and _pause_run: the write happens only under this worker's own
\* lease; otherwise the transaction rolls back, the cursor it moved included.
OwnedWrite(w, s, c) ==
  IF Owns(w)
    THEN /\ status' = [status EXCEPT ![job[w]] = s]
         /\ cursor' = [cursor EXCEPT ![job[w]] = c]
         /\ ReleaseLease(job[w])
    ELSE UNCHANGED <<status, cursor, leaseVars>>

Goto(w, label) == pc' = [pc EXCEPT ![w] = label]

\* process_claimed_run returns: the worker is free to poll again.
Return(w) ==
  /\ pc' = [pc EXCEPT ![w] = "idle"]
  /\ job' = [job EXCEPT ![w] = NoRun]
  /\ at' = [at EXCEPT ![w] = 0]
  /\ verdict' = [verdict EXCEPT ![w] = "none"]
  /\ tried' = [tried EXCEPT ![w] = 0]
  /\ todo' = [todo EXCEPT ![w] = {}]
  /\ clean' = [clean EXCEPT ![w] = TRUE]

\* A worker that knows the status to write but writes it in its next transaction.
Conclude(w, s) ==
  /\ Goto(w, "settle")
  /\ verdict' = [verdict EXCEPT ![w] = s]

\* Mutant: the step after the last one is driven whatever its type.
AdvanceAnyType(w, i) ==
  /\ at' = [at EXCEPT ![w] = i]
  /\ IF i = NumSteps
       THEN Conclude(w, "succeeded")
       ELSE Goto(w, "renew") /\ verdict' = [verdict EXCEPT ![w] = "none"]

\* The loop of process_claimed_run: on to the first action step from i on, or
\* past the end of the graph, where the run has succeeded.
Advance(w, i) ==
  \E n \in i .. NumSteps :
    /\ n < NumSteps => n \in ActionStep
    /\ \A j \in i .. NumSteps : j < n => j \notin ActionStep
    /\ at' = [at EXCEPT ![w] = n]
    /\ IF n = NumSteps
         THEN Conclude(w, "succeeded")
         ELSE Goto(w, "renew") /\ verdict' = [verdict EXCEPT ![w] = "none"]

\* Mutant: compensation begins without checking that the lease is still held.
FailRunUnowned(w, c) ==
  LET r == job[w]
      undo == Qualifying(r, at[w])
  IN IF undo # {}
       THEN /\ status' = [status EXCEPT ![r] = "compensating"]
            /\ cursor' = [cursor EXCEPT ![r] = c]
            /\ Goto(w, "comp_renew")
            /\ todo' = [todo EXCEPT ![w] = undo]
            /\ UNCHANGED <<leaseVars, job, at, verdict, tried, clean>>
       ELSE OwnedWrite(w, "failed", c) /\ Return(w)

\* The 'failed' branch of process_claimed_run: compensate what qualifies, under
\* the lease the worker keeps, or finish the run.  c is the cursor it commits.
FailRun(w, c) ==
  LET r == job[w]
      undo == Qualifying(r, at[w])
  IN IF Owns(w) /\ undo # {}
       THEN /\ status' = [status EXCEPT ![r] = "compensating"]
            /\ cursor' = [cursor EXCEPT ![r] = c]
            /\ Goto(w, "comp_renew")
            /\ todo' = [todo EXCEPT ![w] = undo]
            /\ UNCHANGED <<leaseVars, job, at, verdict, tried, clean>>
       ELSE OwnedWrite(w, "failed", c) /\ Return(w)

-----------------------------------------------------------------------------
(* A worker leases a run and drives it to the next checkpoint.             *)

\* claim_next_run, ordinary claim and crash-recovery reclaim alike.
Claim(w, r) ==
  /\ pc[w] = "idle"
  /\ Claimable(r)
  /\ status' = [status EXCEPT ![r] = "leased"]
  /\ leasedBy' = [leasedBy EXCEPT ![r] = w]
  /\ lapsed' = [lapsed EXCEPT ![r] = FALSE]
  /\ Goto(w, "mark")
  /\ job' = [job EXCEPT ![w] = r]
  /\ UNCHANGED <<cursor, flagVars, backingOff, stepVars, humanVars, at, verdict,
                 tried, todo, clean, auxVars>>

\* _mark_running: a lease already lost is tolerated, the next renewal finds out.
MarkRunning(w) ==
  /\ pc[w] = "mark"
  /\ status' = IF status[job[w]] = "leased" /\ Owns(w)
                 THEN [status EXCEPT ![job[w]] = "running"] ELSE status
  /\ Advance(w, cursor[job[w]])
  /\ UNCHANGED <<cursor, leaseVars, flagVars, backingOff, stepVars, humanVars,
                 job, tried, todo, clean, auxVars>>

\* renew_lease, and the cancel and pause flags read from the row it returns.
RenewLease(w) ==
  LET r == job[w] IN
  /\ pc[w] = "renew"
  /\ IF Owns(w) /\ status[r] \in LeaseBearing
       THEN /\ lapsed' = [lapsed EXCEPT ![r] = FALSE]
            /\ IF cancelRequested[r] THEN Conclude(w, "cancelled")
               ELSE IF pauseRequested[r] THEN Conclude(w, "paused")
               ELSE Goto(w, "kill_check") /\ UNCHANGED verdict
            /\ UNCHANGED <<job, at, tried, todo, clean>>
       ELSE Return(w) /\ UNCHANGED lapsed
  /\ UNCHANGED <<status, cursor, leasedBy, flagVars, backingOff, stepVars,
                 humanVars, auxVars>>

\* The per-step kill-switch check.
CheckKillSwitch(w) ==
  /\ pc[w] = "kill_check"
  /\ IF Killed(job[w])
       THEN Conclude(w, "needs_review")
       ELSE Goto(w, "gate") /\ UNCHANGED verdict
  /\ UNCHANGED <<runVars, stepVars, humanVars, job, at, tried, todo, clean, auxVars>>

\* The owned write of a status decided in an earlier transaction.
Settle(w) ==
  /\ pc[w] = "settle"
  /\ OwnedWrite(w, verdict[w],
                IF verdict[w] = "succeeded" THEN NumSteps ELSE cursor[job[w]])
  /\ Return(w)
  /\ UNCHANGED <<flagVars, backingOff, stepVars, humanVars, auxVars>>

-----------------------------------------------------------------------------
(* run_step.  The step row is read FOR UPDATE in the transaction that moved *)
(* current_step_index, without an ownership predicate: a worker displaced   *)
(* since its renewal gets here too.                                         *)

\* Mutant: a step left 'dispatched' is retried instead of becoming 'unknown'.
AtGateRetryDispatched(w, rowStatus) ==
  /\ pc[w] = "gate"
  /\ \/ step[job[w]][at[w]] = rowStatus
     \/ step[job[w]][at[w]] = "dispatched" /\ rowStatus = "retrying"

\* Mutant: an 'unknown' step is retried.
AtGateRetryUnknown(w, rowStatus) ==
  /\ pc[w] = "gate"
  /\ \/ step[job[w]][at[w]] = rowStatus
     \/ step[job[w]][at[w]] = "unknown" /\ rowStatus = "retrying"

AtGate(w, rowStatus) ==
  /\ pc[w] = "gate"
  /\ step[job[w]][at[w]] = rowStatus

\* Stop at the gate: the cursor and the status commit together, or not at all.
StopAtGate(w, s) ==
  /\ OwnedWrite(w, s, at[w])
  /\ Return(w)
  /\ UNCHANGED stepVars

\* The transaction that leaves the row 'dispatched', just before the adapter call.
Dispatch(w) ==
  /\ SetStep(job[w], at[w], "dispatched")
  /\ SetCursor(w)
  /\ Goto(w, "execute")
  /\ tried' = [tried EXCEPT ![w] = attempts[job[w]][at[w]]]
  /\ UNCHANGED <<status, leaseVars, attempts, job, at, verdict, todo, clean>>

GateUnchanged == UNCHANGED <<flagVars, backingOff, killed, policy, auxVars>>

\* Already succeeded: never dispatched again.
SkipSucceeded(w) ==
  /\ AtGate(w, "succeeded")
  /\ IF Owns(w) THEN SetCursor(w) ELSE UNCHANGED cursor
  /\ Advance(w, at[w] + 1)
  /\ UNCHANGED <<status, leaseVars, stepVars, approval, job, tried, todo, clean>>
  /\ GateUnchanged

\* Already failed, by an adapter or by a rejected approval.
SkipFailed(w) ==
  /\ AtGate(w, "failed")
  /\ FailRun(w, at[w])
  /\ UNCHANGED <<stepVars, approval>>
  /\ GateUnchanged

\* Already ambiguous: a human decides.
SkipUnknown(w) ==
  /\ AtGate(w, "unknown")
  /\ StopAtGate(w, "needs_review")
  /\ UNCHANGED approval
  /\ GateUnchanged

\* A row left 'dispatched' by a worker that died or lost its lease: whether the
\* adapter acted is not known, and the step becomes 'unknown'.
MarkUnknown(w) ==
  /\ AtGate(w, "dispatched")
  /\ SetStep(job[w], at[w], "unknown")
  /\ SetCursor(w)
  /\ Conclude(w, "needs_review")
  /\ UNCHANGED <<status, leaseVars, attempts, approval, job, at, tried, todo, clean>>
  /\ GateUnchanged

\* Retry after a transient failure; the approval gate is not asked again.
Redispatch(w) ==
  /\ AtGate(w, "retrying")
  /\ IF PolicyOf(job[w]).usable /\ Adapter[at[w]] # "out_of_scope"
       THEN Dispatch(w)
       ELSE StopAtGate(w, "needs_review")
  /\ UNCHANGED approval
  /\ GateUnchanged

\* A first dispatch refused by the policy's lifecycle or by its scope.
BlockedByPolicy(w) ==
  /\ AtGate(w, "none")
  /\ ~PolicyOf(job[w]).usable \/ Adapter[at[w]] = "out_of_scope"
  /\ StopAtGate(w, "needs_review")
  /\ UNCHANGED approval
  /\ GateUnchanged

\* Whether the gate gets as far as the approval question.
Authorized(w) == PolicyOf(job[w]).usable /\ Adapter[at[w]] = "authorized"

Approved(w) ==
  RequiresApproval(job[w], at[w]) => approval[job[w]][at[w]] = "approved"

\* An action that could never be dispatched, under a preview_only policy or not.
GateUndispatchable(w) ==
  /\ AtGate(w, "none")
  /\ PolicyOf(job[w]).usable
  /\ Adapter[at[w]] \in {"bad_input", "missing"}
  /\ IF PolicyOf(job[w]).mode = "preview_only" THEN StopAtGate(w, "preview_blocked")
     ELSE IF Adapter[at[w]] = "missing" THEN Dispatch(w)
     ELSE /\ SetStep(job[w], at[w], "failed")
          /\ SetCursor(w)
          /\ Goto(w, "step_failed")
          /\ UNCHANGED <<status, leaseVars, attempts, job, at, verdict, tried, todo, clean>>
  /\ UNCHANGED approval
  /\ GateUnchanged

\* The request is committed first and the run parked in a second transaction.
RequestApproval(w) ==
  LET r == job[w] IN
  /\ AtGate(w, "none")
  /\ Authorized(w)
  /\ ~Approved(w)
  /\ approval[r][at[w]] \notin {"pending", "lapsed"}
  /\ approval' = [approval EXCEPT ![r][at[w]] = "pending"]
  /\ SetCursor(w)
  /\ Conclude(w, "waiting_approval")
  /\ UNCHANGED <<status, leaseVars, stepVars, job, at, tried, todo, clean>>
  /\ GateUnchanged

\* A request is already pending (an expired one included): wait for it.
AwaitApproval(w) ==
  /\ AtGate(w, "none")
  /\ Authorized(w)
  /\ ~Approved(w)
  /\ approval[job[w]][at[w]] \in {"pending", "lapsed"}
  /\ StopAtGate(w, "waiting_approval")
  /\ UNCHANGED approval
  /\ GateUnchanged

\* The gate cleared.  A preview_only policy stops even an approved step.
FirstDispatch(w) ==
  /\ AtGate(w, "none")
  /\ Authorized(w)
  /\ Approved(w)
  /\ IF PolicyOf(job[w]).mode = "preview_only"
       THEN StopAtGate(w, "preview_blocked")
       ELSE Dispatch(w)
  /\ UNCHANGED approval
  /\ GateUnchanged

-----------------------------------------------------------------------------
(* The adapter call and the transaction that records its outcome.          *)

\* adapter.execute: it acts on the outside world and answers, raises a
\* TransientAdapterError or raises anything else.
Execute(w) ==
  /\ pc[w] = "execute"
  /\ Adapter[at[w]] # "missing"
  /\ CountEffect(job[w], at[w])
  /\ \E outcome \in {"ok", "transient", "error"} :
       verdict' = [verdict EXCEPT ![w] = outcome]
  /\ Goto(w, "record")
  /\ UNCHANGED <<runVars, stepVars, humanVars, job, at, tried, todo, clean, crashes>>

\* AdapterNotRegistered: dispatched, then failed without a call.
FailUnregistered(w) ==
  /\ pc[w] = "execute"
  /\ Adapter[at[w]] = "missing"
  /\ SetStep(job[w], at[w], "failed")
  /\ Goto(w, "step_failed")
  /\ UNCHANGED <<runVars, attempts, humanVars, job, at, verdict, tried, todo, clean, auxVars>>

RecordSuccess(w) ==
  /\ pc[w] = "record"
  /\ verdict[w] = "ok"
  /\ SetStep(job[w], at[w], "succeeded")
  /\ Advance(w, at[w] + 1)
  /\ UNCHANGED <<runVars, attempts, humanVars, job, tried, todo, clean, auxVars>>

\* Mutant: the attempt is not counted.
RecordTransientUncounted(w) ==
  LET r == job[w] IN
  /\ pc[w] = "record"
  /\ verdict[w] = "transient"
  /\ tried[w] < MaxRetry
  /\ IF Owns(w)
       THEN /\ status' = [status EXCEPT ![r] = "queued"]
            /\ backingOff' = [backingOff EXCEPT ![r] = TRUE]
            /\ ReleaseLease(r)
            /\ SetStep(r, at[w], "retrying")
       ELSE UNCHANGED <<status, backingOff, leaseVars, step>>
  /\ Return(w)
  /\ UNCHANGED <<cursor, attempts, flagVars, humanVars, auxVars>>

\* The run goes back to the queue under a backoff, if this worker still owns it.
RecordTransient(w) ==
  LET r == job[w] IN
  /\ pc[w] = "record"
  /\ verdict[w] = "transient"
  /\ tried[w] < MaxRetry
  /\ IF Owns(w)
       THEN /\ status' = [status EXCEPT ![r] = "queued"]
            /\ backingOff' = [backingOff EXCEPT ![r] = TRUE]
            /\ ReleaseLease(r)
            /\ SetStep(r, at[w], "retrying")
            /\ attempts' = [attempts EXCEPT ![r][at[w]] = tried[w] + 1]
       ELSE UNCHANGED <<status, backingOff, leaseVars, stepVars>>
  /\ Return(w)
  /\ UNCHANGED <<cursor, flagVars, humanVars, auxVars>>

RecordFailure(w) ==
  /\ pc[w] = "record"
  /\ \/ verdict[w] = "error"
     \/ verdict[w] = "transient" /\ tried[w] >= MaxRetry
  /\ SetStep(job[w], at[w], "failed")
  /\ Goto(w, "step_failed")
  /\ UNCHANGED <<runVars, attempts, humanVars, job, at, verdict, tried, todo, clean, auxVars>>

\* The failed step is on record; the run's own transition is the next transaction.
AfterFailure(w) ==
  /\ pc[w] = "step_failed"
  /\ FailRun(w, cursor[job[w]])
  /\ UNCHANGED <<flagVars, backingOff, stepVars, humanVars, auxVars>>

-----------------------------------------------------------------------------
(* _run_compensation_sequence: the qualifying steps in descending order,    *)
(* each under a renewed lease.  Nothing reclaims a 'compensating' run.      *)
(* compensation_steps mirrors the compensation step's own row in the same   *)
(* transactions and is not modelled apart from it.                          *)

\* Mutant: compensations run in ascending order.
NextToCompensateAscending(w, i) == i \in todo[w] /\ \A j \in todo[w] : i <= j

\* The step about to be compensated is the highest one left.
NextToCompensate(w, i) == i \in todo[w] /\ \A j \in todo[w] : j <= i

CompensationDone(w) ==
  /\ pc[w] = "comp_renew"
  /\ todo[w] = {}
  /\ Conclude(w, IF clean[w] THEN "compensated" ELSE "compensation_failed")
  /\ UNCHANGED <<runVars, stepVars, humanVars, job, at, tried, todo, clean, auxVars>>

CompensationRenew(w) ==
  LET r == job[w] IN
  /\ pc[w] = "comp_renew"
  /\ todo[w] # {}
  /\ IF Owns(w) /\ status[r] \in LeaseBearing
       THEN /\ lapsed' = [lapsed EXCEPT ![r] = FALSE]
            /\ \E i \in Step : NextToCompensate(w, i) /\ at' = [at EXCEPT ![w] = i]
            /\ Goto(w, "comp_gate")
            /\ UNCHANGED <<job, verdict, tried, todo, clean>>
       ELSE Return(w) /\ UNCHANGED lapsed
  /\ UNCHANGED <<status, cursor, leasedBy, flagVars, backingOff, stepVars,
                 humanVars, auxVars>>

\* Mutant: a compensation that failed does not spoil the outcome.
CompensationOutcomeIgnored(w, ok) ==
  /\ Goto(w, "comp_renew")
  /\ todo' = [todo EXCEPT ![w] = @ \ {at[w]}]
  /\ UNCHANGED <<clean, job, at, tried>>

\* Mutant: the step stays on the list.
CompensationOutcomeRepeats(w, ok) ==
  /\ Goto(w, "comp_renew")
  /\ clean' = [clean EXCEPT ![w] = @ /\ ok]
  /\ UNCHANGED <<todo, job, at, tried>>

\* On to the next step; one that did not succeed spoils the outcome.
CompensationOutcome(w, ok) ==
  /\ Goto(w, "comp_renew")
  /\ todo' = [todo EXCEPT ![w] = @ \ {at[w]}]
  /\ clean' = [clean EXCEPT ![w] = @ /\ ok]
  /\ UNCHANGED <<job, at, tried>>

\* The idempotency gate on the compensation step's own row.
CompensationGate(w) ==
  LET r == job[w]
      c == CompensateRef[at[w]]
  IN
  /\ pc[w] = "comp_gate"
  /\ CASE step[r][c] = "none" ->
            /\ SetStep(r, c, "dispatched")
            /\ Goto(w, "comp_execute")
            /\ UNCHANGED <<job, at, tried, todo, clean>>
       [] step[r][c] = "dispatched" ->
            SetStep(r, c, "unknown") /\ CompensationOutcome(w, FALSE)
       [] OTHER ->
            UNCHANGED step /\ CompensationOutcome(w, step[r][c] = "succeeded")
  /\ UNCHANGED <<runVars, attempts, humanVars, verdict, auxVars>>

\* Usability and scope are checked on a row already durable.
CompensationRefused(w) ==
  LET r == job[w]
      c == CompensateRef[at[w]]
  IN
  /\ pc[w] = "comp_execute"
  /\ ~PolicyOf(r).usable \/ Adapter[c] # "authorized"
  /\ SetStep(r, c, "failed")
  /\ CompensationOutcome(w, FALSE)
  /\ UNCHANGED <<runVars, attempts, humanVars, verdict, auxVars>>

CompensationExecute(w) ==
  LET r == job[w]
      c == CompensateRef[at[w]]
  IN
  /\ pc[w] = "comp_execute"
  /\ PolicyOf(r).usable
  /\ Adapter[c] = "authorized"
  /\ CountEffect(r, c)
  /\ \E outcome \in {"ok", "error"} : verdict' = [verdict EXCEPT ![w] = outcome]
  /\ Goto(w, "comp_record")
  /\ UNCHANGED <<runVars, stepVars, humanVars, job, at, tried, todo, clean, crashes>>

CompensationRecord(w) ==
  LET ok == verdict[w] = "ok" IN
  /\ pc[w] = "comp_record"
  /\ SetStep(job[w], CompensateRef[at[w]], IF ok THEN "succeeded" ELSE "failed")
  /\ CompensationOutcome(w, ok)
  /\ verdict' = [verdict EXCEPT ![w] = "none"]
  /\ UNCHANGED <<runVars, attempts, humanVars, auxVars>>

-----------------------------------------------------------------------------
(* The world around the workers.                                           *)

\* The process dies, or an exception leaves process_claimed_run.  A process that
\* starts again has a new worker_id: an idle worker owns nothing it acts on.
Crash(w) ==
  /\ pc[w] # "idle"
  /\ crashes < MaxCrash
  /\ Return(w)
  /\ crashes' = crashes + 1
  /\ UNCHANGED <<runVars, stepVars, humanVars, effects>>

\* leased_until passes, 30 seconds after the last renewal.
LeaseLapses(r) ==
  /\ leasedBy[r] # NoWorker
  /\ ~lapsed[r]
  /\ lapsed' = [lapsed EXCEPT ![r] = TRUE]
  /\ UNCHANGED <<status, cursor, leasedBy, flagVars, backingOff, stepVars,
                 humanVars, localVars, auxVars>>

\* next_attempt_at passes.
BackoffElapses(r) ==
  /\ backingOff[r]
  /\ backingOff' = [backingOff EXCEPT ![r] = FALSE]
  /\ UNCHANGED <<status, cursor, leaseVars, flagVars, stepVars, humanVars,
                 localVars, auxVars>>

OnlyRuns == UNCHANGED <<stepVars, humanVars, localVars, auxVars>>

\* enqueue_run: no new run of a killed workflow.
Enqueue(r) ==
  /\ status[r] = "absent"
  /\ ~Killed(r)
  /\ status' = [status EXCEPT ![r] = "queued"]
  /\ UNCHANGED <<cursor, leaseVars, flagVars, backingOff>>
  /\ OnlyRuns

\* cancel_run.  A run some worker holds, or one a human may still decide, only
\* gets the flag; the others are cancelled at once.
CancelNow(r) ==
  \/ status[r] \in Cancellable
  \/ status[r] = "waiting_approval" /\ approval[r][cursor[r]] # "pending"

Cancel(r) ==
  /\ status[r] \notin Terminal \cup {"absent"}
  /\ cancelRequested' = [cancelRequested EXCEPT ![r] = TRUE]
  /\ status' = IF CancelNow(r) THEN [status EXCEPT ![r] = "cancelled"] ELSE status
  /\ UNCHANGED <<cursor, leaseVars, pauseRequested, backingOff>>
  /\ OnlyRuns

\* pause_run: a queued run parks at once, any other at its next checkpoint.
Pause(r) ==
  /\ status[r] \notin Terminal \cup {"absent", "paused"}
  /\ pauseRequested' = [pauseRequested EXCEPT ![r] = TRUE]
  /\ status' = IF status[r] = "queued" THEN [status EXCEPT ![r] = "paused"] ELSE status
  /\ UNCHANGED <<cursor, leaseVars, cancelRequested, backingOff>>
  /\ OnlyRuns

Resume(r) ==
  /\ status[r] = "paused"
  /\ status' = [status EXCEPT ![r] = "queued"]
  /\ pauseRequested' = [pauseRequested EXCEPT ![r] = FALSE]
  /\ ReleaseLease(r)
  /\ UNCHANGED <<cursor, cancelRequested, backingOff>>
  /\ OnlyRuns

\* _advance_run_after_decision acts only on a run parked at this very step.
DecisionApplies(r, i) == status[r] = "waiting_approval" /\ cursor[r] = i

Requeue(r, i) ==
  IF DecisionApplies(r, i)
    THEN status' = [status EXCEPT ![r] = "queued"] /\ ReleaseLease(r)
    ELSE UNCHANGED <<status, leaseVars>>

DecisionUnchanged ==
  UNCHANGED <<cursor, flagVars, backingOff, attempts, killed, policy, localVars, auxVars>>

\* decide_approval, for a request neither decided nor expired.
Approve(r, i) ==
  /\ approval[r][i] = "pending"
  /\ approval' = [approval EXCEPT ![r][i] = "approved"]
  /\ Requeue(r, i)
  /\ UNCHANGED step
  /\ DecisionUnchanged

\* A rejection is recorded as a failed step, which the next claim reads.
Reject(r, i) ==
  /\ approval[r][i] = "pending"
  /\ approval' = [approval EXCEPT ![r][i] = "rejected"]
  /\ Requeue(r, i)
  /\ IF DecisionApplies(r, i) THEN SetStep(r, i, "failed") ELSE UNCHANGED step
  /\ DecisionUnchanged

\* expires_at of a pending request passes.
ApprovalExpires(r, i) ==
  /\ approval[r][i] = "pending"
  /\ approval' = [approval EXCEPT ![r][i] = "lapsed"]
  /\ UNCHANGED <<runVars, stepVars, killed, policy, localVars, auxVars>>

InScope(r, scope) == scope \in {Everything, WorkflowOf[r]}

\* activate_kill_switch parks every queued run in scope for review.
ActivateKillSwitch(scope) ==
  LET parked == {r \in Run : InScope(r, scope) /\ status[r] = "queued"} IN
  /\ scope \notin killed
  /\ killed' = killed \cup {scope}
  /\ status' = [r \in Run |-> IF r \in parked THEN "needs_review" ELSE status[r]]
  /\ leasedBy' = [r \in Run |-> IF r \in parked THEN NoWorker ELSE leasedBy[r]]
  /\ lapsed' = [r \in Run |-> IF r \in parked THEN FALSE ELSE lapsed[r]]
  /\ UNCHANGED <<cursor, flagVars, backingOff, stepVars, approval, policy,
                 localVars, auxVars>>

\* deactivate_kill_switch touches no run.
DeactivateKillSwitch(scope) ==
  /\ scope \in killed
  /\ killed' = killed \ {scope}
  /\ UNCHANGED <<runVars, stepVars, approval, policy, localVars, auxVars>>

\* revoke_policy, or expires_at passing: there is no way back.
PolicyLapses(f) ==
  /\ policy[f].usable
  /\ policy' = [policy EXCEPT ![f].usable = FALSE]
  /\ UNCHANGED <<runVars, stepVars, approval, killed, localVars, auxVars>>

-----------------------------------------------------------------------------
WorkerStep(w) ==
  \/ MarkRunning(w) \/ RenewLease(w) \/ CheckKillSwitch(w) \/ Settle(w)
  \/ SkipSucceeded(w) \/ SkipFailed(w) \/ SkipUnknown(w) \/ MarkUnknown(w)
  \/ Redispatch(w) \/ BlockedByPolicy(w) \/ GateUndispatchable(w)
  \/ RequestApproval(w) \/ AwaitApproval(w) \/ FirstDispatch(w)
  \/ Execute(w) \/ FailUnregistered(w)
  \/ RecordSuccess(w) \/ RecordTransient(w) \/ RecordFailure(w) \/ AfterFailure(w)
  \/ CompensationDone(w) \/ CompensationRenew(w) \/ CompensationGate(w)
  \/ CompensationRefused(w) \/ CompensationExecute(w) \/ CompensationRecord(w)

OperatorStep ==
  \/ \E r \in Run : Enqueue(r) \/ Cancel(r) \/ Pause(r) \/ Resume(r)
  \/ \E r \in Run, i \in Step : Approve(r, i) \/ Reject(r, i)
  \/ \E scope \in Workflow \cup {Everything} :
       ActivateKillSwitch(scope) \/ DeactivateKillSwitch(scope)
  \/ \E f \in Workflow : PolicyLapses(f)

TimeStep ==
  \/ \E r \in Run : LeaseLapses(r) \/ BackoffElapses(r)
  \/ \E r \in Run, i \in Step : ApprovalExpires(r, i)

Next ==
  \/ \E w \in Worker : WorkerStep(w) \/ Crash(w) \/ \E r \in Run : Claim(w, r)
  \/ OperatorStep
  \/ TimeStep

Spec == Init /\ [][Next]_vars

-----------------------------------------------------------------------------
(* Safety.                                                                 *)

\* The worker is between the dispatch of a step, forward or compensating, and the
\* record of its outcome.
InFlight(w, r, i) ==
  /\ job[w] = r
  /\ \/ pc[w] \in {"execute", "record"} /\ at[w] = i
     \/ pc[w] \in {"comp_execute", "comp_record"} /\ CompensateRef[at[w]] = i

\* A run is lease-bearing exactly while it has a lease: nothing clears or sets
\* one without the other, so no status is left that no worker will ever revisit.
LeaseShape ==
  \A r \in Run : status[r] \in LeaseBearing <=> leasedBy[r] # NoWorker

\* However often leases lapse and workers are displaced, two workers never both
\* hold the same step between its dispatch and the record of its outcome.
SoleExecutor ==
  \A w, v \in Worker, r \in Run, i \in Step :
    InFlight(w, r, i) /\ InFlight(v, r, i) => w = v

\* The adapter is called at most once per attempt, and a new attempt exists only
\* because the previous call was recorded as a transient failure.
AtMostOncePerAttempt ==
  \A r \in Run, i \in Step :
    effects[r][i] <= attempts[r][i] + 1 /\ attempts[r][i] <= MaxRetry

\* A high-impact step, and any step of a per_run policy, acts only with a
\* request approved for it; under a preview_only policy no step ever acts.
EffectsAuthorized ==
  \A r \in Run, i \in ActionStep :
    effects[r][i] > 0 =>
      /\ PolicyOf(r).mode # "preview_only"
      /\ i \in HighImpact \/ PolicyOf(r).mode = "per_run" => approval[r][i] = "approved"

\* Only what succeeded is undone, and only in a run that failed.
CompensationSound ==
  \A r \in Run, i \in Compensable :
    step[r][CompensateRef[i]] # "none" =>
      /\ step[r][i] = "succeeded"
      /\ status[r] \in {"compensating", "compensated", "compensation_failed"}

\* Later effects are undone before earlier ones.
CompensationDescends ==
  \A r \in Run : \A i, j \in Compensable :
    /\ i < j
    /\ step[r][j] = "succeeded"
    /\ step[r][CompensateRef[i]] # "none"
    => step[r][CompensateRef[j]] \notin {"none", "dispatched"}

\* The terminal statuses tell the truth about the steps.
OutcomeTruthful ==
  \A r \in Run :
    /\ status[r] = "succeeded" => \A i \in ActionStep : step[r][i] = "succeeded"
    /\ status[r] = "compensated" =>
         \A i \in Compensable :
           step[r][i] = "succeeded" => step[r][CompensateRef[i]] = "succeeded"
    /\ status[r] = "failed" => \E i \in ActionStep : step[r][i] = "failed"
    /\ status[r] = "preview_blocked" => \A i \in Step : effects[r][i] = 0

\* A terminal run never changes status again, whatever a displaced worker, a
\* late approval or an operator does.
TerminalIsFinal ==
  [][\A r \in Run : status[r] \in Terminal => status'[r] = status[r]]_vars

\* While a kill switch covers a run no worker gains its lease, not even to
\* recover it from a crash.
KilledNeverLeased ==
  [][\A r \in Run :
       Killed(r) /\ leasedBy'[r] # leasedBy[r] => leasedBy'[r] = NoWorker]_vars

\* An ambiguous step is never dispatched again on a guess: only the late answer of
\* the very dispatch that was ambiguous may still replace 'unknown', be it by a
\* success, by a failure, or by a transient failure the owner will retry.
UnknownNotRetried ==
  [][\A r \in Run, i \in Step :
       step[r][i] = "unknown" /\ step'[r][i] # "unknown" =>
         /\ step'[r][i] \notin {"none", "dispatched"}
         /\ \E w \in Worker : InFlight(w, r, i)]_vars

-----------------------------------------------------------------------------
(* Liveness.  Workers poll and advance (weak fairness of their steps), time *)
(* passes.  The code renews a lease between any two steps and only an        *)
(* adapter call may take longer than a lease, so under this specification a  *)
(* lease lapses only during a call or after its owner has gone.              *)

SlowOnlyInAdapter ==
  \A r \in Run : lapsed'[r] /\ ~lapsed[r] =>
    \A w \in Worker :
      job[w] = r /\ leasedBy[r] = w => pc[w] \in {"execute", "record", "comp_execute", "comp_record"}

Fairness ==
  /\ \A w \in Worker : WF_vars(WorkerStep(w))
  /\ WF_vars(\E w \in Worker, r \in Run : Claim(w, r))
  /\ \A r \in Run : WF_vars(BackoffElapses(r)) /\ WF_vars(LeaseLapses(r) /\ SlowOnlyInAdapter)

LiveSpec == Init /\ [][Next /\ SlowOnlyInAdapter]_vars /\ Fairness

Settled == Terminal \cup {"paused", "waiting_approval", "needs_review", "compensating"}

\* A run the workers may take ends, or stops where a human decides, despite
\* crashes, displaced workers, retries and cancellation; a kill switch excepted.
RunSettles ==
  \A r \in Run :
    status[r] \in {"queued", "leased", "running"} ~> status[r] \in Settled \/ Killed(r)

\* A compensation that began ends, unless a worker process died.
CompensationEnds ==
  \A r \in Run :
    status[r] = "compensating" ~>
      status[r] \in {"compensated", "compensation_failed"} \/ crashes > 0

-----------------------------------------------------------------------------
(* What the documents say and the code does not do.                        *)

\* kill_switches.py: a run some worker holds when the switch is thrown is parked
\* for review by that worker, so that none is left for a deactivation to resume.
KilledRunNotRequeued ==
  [][\A r \in Run :
       Killed(r) /\ status[r] \in LeaseBearing => status'[r] # "queued"]_vars

\* worker.py: no run waits for approval with nothing in the inbox to decide.
WaitingHasRequest ==
  \A r \in Run :
    status[r] = "waiting_approval" => approval[r][cursor[r]] \in {"pending", "lapsed"}
====
