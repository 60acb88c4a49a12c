------------------------ MODULE AutomationRunProofs ------------------------
(***************************************************************************)
(* Proofs about AutomationRun for every set of runs, workers and workflows, *)
(* every graph validate_graph_shape accepts and every limit: the types are  *)
(* correct, the status of a run agrees with its lease, from which the       *)
(* finality of terminal statuses follows, the calls to the outside world    *)
(* are bounded by what the step rows say of them, and what a run reports as *)
(* its outcome, its approvals and its compensations is what its rows bear   *)
(* out.                                                                     *)
(***************************************************************************)
EXTENDS AutomationRun, FiniteSetTheorems, TLAPS

(* Facts about sets, and what each helper of the model does to the types.   *)

\* The literal statuses and control points the actions write are members of the
\* sets the types are stated with.
LEMMA Members ==
  /\ {"succeeded", "failed", "cancelled", "compensated", "compensation_failed",
      "preview_blocked", "leased", "running", "compensating", "queued", "paused",
      "needs_review", "absent", "waiting_approval"} \subseteq RunStatus
  /\ {"succeeded", "failed", "cancelled", "compensated", "compensation_failed",
      "preview_blocked", "queued", "paused", "needs_review",
      "waiting_approval"} \subseteq RunStatus \ LeaseBearing
  /\ {"none", "dispatched", "succeeded", "failed", "unknown", "retrying"} \subseteq StepStatus
  /\ {"none", "pending", "lapsed", "approved", "rejected"} \subseteq ApprovalStatus
  /\ {"idle", "mark", "settle", "comp_renew"} \subseteq WorkerPC \ (ForwardPC \cup CompensationPC)
  /\ {"renew", "kill_check", "gate", "execute", "record", "step_failed"} \subseteq ForwardPC \ CompensationPC
  /\ {"comp_gate", "comp_execute", "comp_record"} \subseteq CompensationPC \ ForwardPC
  /\ ForwardPC \cup CompensationPC \subseteq WorkerPC \ {"idle", "settle"}
  /\ RunStatus \cup {"ok", "transient", "error", "none"} \subseteq Verdict
  BY DEF RunStatus, Terminal, LeaseBearing, Cancellable, StepStatus, ApprovalStatus,
         WorkerPC, ForwardPC, CompensationPC, Verdict

\* What validate_graph_shape's rules say of the step indexes the engine
\* computes with: action and compensation steps are steps, and the loop's
\* cursor stays in range.
LEMMA Indexes ==
  /\ NumSteps \in Nat
  /\ ActionStep \subseteq Step
  /\ Compensable \subseteq ActionStep
  /\ \A i \in Compensable : CompensateRef[i] \in Step
  /\ \A i \in Step : i \in 0 .. NumSteps /\ i + 1 \in 0 .. NumSteps
  /\ 0 \in 0 .. NumSteps
  BY GraphAssumption DEF Step, Compensable

\* _finish_run and _pause_run, the write that happens or rolls back, keep the
\* types.
LEMMA OwnedWriteTypes ==
  ASSUME RunTypes, NEW w \in Worker, job[w] \in Run,
         NEW s \in RunStatus, NEW c \in 0 .. NumSteps, OwnedWrite(w, s, c),
         UNCHANGED <<flagVars, backingOff>>
  PROVE  RunTypes'
<1>1. CASE Owns(w)
  BY <1>1 DEF RunTypes, OwnedWrite, ReleaseLease, flagVars
<1>2. CASE ~Owns(w)
  BY <1>2 DEF RunTypes, OwnedWrite, leaseVars, flagVars
<1> QED
  BY <1>1, <1>2

\* Returning to the poll loop leaves every worker where its control point says.
LEMMA ReturnTypes ==
  ASSUME LocalTypes, ControlShape, NEW w \in Worker, Return(w)
  PROVE  LocalTypes' /\ ControlShape'
<1>1. LocalTypes'
  BY Members, Indexes DEF LocalTypes, Return
<1>2. ASSUME NEW v \in Worker, v # w
      PROVE  pc'[v] = pc[v] /\ job'[v] = job[v] /\ at'[v] = at[v] /\ verdict'[v] = verdict[v]
  BY <1>2 DEF LocalTypes, Return
<1>3. pc'[w] = "idle"
  BY DEF LocalTypes, Return
<1> QED
  BY <1>1, <1>2, <1>3, Members DEF ControlShape

\* So does picking the status the next transaction writes.
LEMMA ConcludeTypes ==
  ASSUME LocalTypes, ControlShape, NEW w \in Worker, job[w] \in Run,
         NEW s \in RunStatus \ LeaseBearing, Conclude(w, s), UNCHANGED <<job, at, tried, todo, clean>>
  PROVE  LocalTypes' /\ ControlShape'
  BY Members DEF LocalTypes, ControlShape, Conclude, Goto

\* So does the loop of process_claimed_run, which stops at an action step or
\* past the end of the graph.
LEMMA AdvanceTypes ==
  ASSUME LocalTypes, ControlShape, NEW w \in Worker, job[w] \in Run,
         NEW i \in 0 .. NumSteps, Advance(w, i), UNCHANGED <<job, tried, todo, clean>>
  PROVE  LocalTypes' /\ ControlShape'
<1>1. PICK n \in i .. NumSteps :
        /\ n < NumSteps => n \in ActionStep
        /\ at' = [at EXCEPT ![w] = n]
        /\ IF n = NumSteps
             THEN Conclude(w, "succeeded")
             ELSE Goto(w, "renew") /\ verdict' = [verdict EXCEPT ![w] = "none"]
  BY DEF Advance
<1>2. n \in 0 .. NumSteps /\ (n # NumSteps => n \in ActionStep)
  BY <1>1, Indexes
<1>3. CASE n = NumSteps
  BY <1>1, <1>2, <1>3, Members DEF LocalTypes, ControlShape, Conclude, Goto
<1>4. CASE n # NumSteps
  BY <1>1, <1>2, <1>4, Members DEF LocalTypes, ControlShape, Goto
<1> QED
  BY <1>3, <1>4

\* So does staying at an action step while moving to another control point.
LEMMA GotoTypes ==
  ASSUME LocalTypes, ControlShape, NEW w \in Worker, job[w] \in Run,
         NEW l \in ForwardPC, Goto(w, l), at[w] \in ActionStep,
         verdict' \in [Worker -> Verdict], tried' \in [Worker -> Nat],
         \A v \in Worker : v # w => verdict'[v] = verdict[v],
         UNCHANGED <<job, at, todo, clean>>
  PROVE  LocalTypes' /\ ControlShape'
<1>1. l \in WorkerPC /\ l \notin CompensationPC /\ l # "settle"
  BY Members DEF ForwardPC, CompensationPC
<1>2. /\ pc' \in [Worker -> WorkerPC]
      /\ pc'[w] = l
      /\ \A v \in Worker : v # w => pc'[v] = pc[v]
  BY <1>1 DEF LocalTypes, Goto
<1>3. LocalTypes'
  BY <1>2 DEF LocalTypes
<1>4. ControlShape'
  BY <1>1, <1>2 DEF ControlShape
<1> QED
  BY <1>3, <1>4

\* Writing one step row keeps the step table typed.
LEMMA SetStepTypes ==
  ASSUME RowTypes, NEW r \in Run, NEW i \in Step, NEW s \in StepStatus, SetStep(r, i, s)
  PROVE  step' \in [Run -> [Step -> StepStatus]]
<1>1. step[r] \in [Step -> StepStatus]
  BY DEF RowTypes
<1>2. [step[r] EXCEPT ![i] = s] \in [Step -> StepStatus]
  BY <1>1
<1> QED
  BY <1>2 DEF RowTypes, SetStep

\* Counting one adapter call keeps the counts natural numbers.
LEMMA CountEffectTypes ==
  ASSUME RowTypes, NEW r \in Run, NEW i \in Step, CountEffect(r, i)
  PROVE  effects' \in [Run -> [Step -> Nat]]
<1>1. effects[r] \in [Step -> Nat]
  BY DEF RowTypes
<1>2. effects[r][i] + 1 \in Nat
  BY <1>1
<1>3. [effects[r] EXCEPT ![i] = effects[r][i] + 1] \in [Step -> Nat]
  BY <1>1, <1>2
<1>4. effects' = [effects EXCEPT ![r] = [effects[r] EXCEPT ![i] = effects[r][i] + 1]]
  BY DEF RowTypes, CountEffect
<1> QED
  BY <1>3, <1>4 DEF RowTypes

\* The failed branch, compensating or finishing the run, keeps the types.
LEMMA FailRunTypes ==
  ASSUME RunTypes, LocalTypes, ControlShape, NEW w \in Worker, job[w] \in Run,
         NEW c \in 0 .. NumSteps, FailRun(w, c), UNCHANGED <<flagVars, backingOff>>
  PROVE  RunTypes' /\ LocalTypes' /\ ControlShape'
<1> DEFINE undo == Qualifying(job[w], at[w])
<1>1. undo \subseteq Compensable
  BY DEF Qualifying
<1>2. CASE Owns(w) /\ undo # {}
  <2>1. /\ status' = [status EXCEPT ![job[w]] = "compensating"]
        /\ cursor' = [cursor EXCEPT ![job[w]] = c]
        /\ pc' = [pc EXCEPT ![w] = "comp_renew"]
        /\ todo' = [todo EXCEPT ![w] = undo]
        /\ UNCHANGED <<leasedBy, lapsed, job, at, verdict, tried, clean>>
    BY <1>2 DEF FailRun, Goto, leaseVars
  <2>2. RunTypes'
    BY <2>1, Members DEF RunTypes, flagVars
  <2>3. LocalTypes'
    BY <2>1, <1>1, Members DEF LocalTypes
  <2>4. ControlShape'
    BY <2>1, Members DEF ControlShape, LocalTypes
  <2> QED
    BY <2>2, <2>3, <2>4
<1>3. CASE ~(Owns(w) /\ undo # {})
  <2>1. OwnedWrite(w, "failed", c) /\ Return(w)
    BY <1>3 DEF FailRun
  <2> QED
    BY <2>1, OwnedWriteTypes, ReturnTypes, Members
<1> QED
  BY <1>2, <1>3

\* Stopping at the dispatch gate keeps the types and touches no step row.
LEMMA StopAtGateTypes ==
  ASSUME RunTypes, LocalTypes, ControlShape, NEW w \in Worker, job[w] \in Run,
         at[w] \in ActionStep, NEW s \in RunStatus, StopAtGate(w, s),
         UNCHANGED <<flagVars, backingOff>>
  PROVE  RunTypes' /\ LocalTypes' /\ ControlShape' /\ UNCHANGED stepVars
<1>1. OwnedWrite(w, s, at[w]) /\ Return(w) /\ UNCHANGED stepVars /\ at[w] \in 0 .. NumSteps
  BY Indexes DEF StopAtGate
<1> QED
  BY <1>1, OwnedWriteTypes, ReturnTypes

\* current_step_index stays an index of the graph.
LEMMA SetCursorTypes ==
  ASSUME RunTypes, NEW w \in Worker, job[w] \in Run, at[w] \in Step, SetCursor(w)
  PROVE  cursor' \in [Run -> 0 .. NumSteps]
  BY Indexes DEF RunTypes, SetCursor

\* The transaction that commits a dispatched row keeps the types.
LEMMA DispatchTypes ==
  ASSUME RunTypes, RowTypes, LocalTypes, ControlShape, NEW w \in Worker, job[w] \in Run,
         at[w] \in ActionStep, Dispatch(w), UNCHANGED <<flagVars, backingOff>>
  PROVE  /\ RunTypes' /\ LocalTypes' /\ ControlShape'
         /\ step' \in [Run -> [Step -> StepStatus]]
         /\ UNCHANGED attempts
<1>1. /\ SetStep(job[w], at[w], "dispatched")
      /\ SetCursor(w)
      /\ Goto(w, "execute")
      /\ tried' = [tried EXCEPT ![w] = attempts[job[w]][at[w]]]
      /\ UNCHANGED <<status, leasedBy, lapsed, attempts, job, at, verdict, todo, clean>>
  BY DEF Dispatch, leaseVars
<1>2. at[w] \in Step
  BY Indexes
<1>3. attempts[job[w]][at[w]] \in Nat
  BY <1>2 DEF RowTypes
<1>4. tried' \in [Worker -> Nat]
  BY <1>1, <1>3 DEF LocalTypes
<1>5. LocalTypes' /\ ControlShape'
  BY <1>1, <1>4, GotoTypes, Members DEF LocalTypes
<1>6. RunTypes'
  BY <1>1, <1>2, SetCursorTypes DEF RunTypes, flagVars
<1>7. step' \in [Run -> [Step -> StepStatus]]
  BY <1>1, <1>2, SetStepTypes, Members
<1> QED
  BY <1>1, <1>5, <1>6, <1>7

\* Moving on to the next compensation keeps the types.
LEMMA CompensationOutcomeTypes ==
  ASSUME LocalTypes, ControlShape, NEW w \in Worker, job[w] \in Run, NEW ok \in BOOLEAN,
         CompensationOutcome(w, ok),
         verdict' \in [Worker -> Verdict],
         \A v \in Worker : v # w => verdict'[v] = verdict[v]
  PROVE  LocalTypes' /\ ControlShape'
<1>1. /\ pc' = [pc EXCEPT ![w] = "comp_renew"]
      /\ todo' = [todo EXCEPT ![w] = @ \ {at[w]}]
      /\ clean' = [clean EXCEPT ![w] = @ /\ ok]
      /\ UNCHANGED <<job, at, tried>>
  BY DEF CompensationOutcome, Goto
<1>2. todo' \in [Worker -> SUBSET Compensable]
  BY <1>1 DEF LocalTypes
<1>3. clean' \in [Worker -> BOOLEAN]
  BY <1>1 DEF LocalTypes
<1>4. LocalTypes'
  BY <1>1, <1>2, <1>3, Members DEF LocalTypes
<1>5. ControlShape'
  BY <1>1, Members DEF ControlShape, LocalTypes
<1> QED
  BY <1>4, <1>5


\* Every transaction of the engine, of an operator and of time keeps the tables
\* and the workers' local state in their types: one step per action of the
\* model.
THEOREM TypeStep ==
  ASSUME TypeOK, [Next]_vars
  PROVE  TypeOK'
<1> USE DEF runVars, leaseVars, flagVars, stepVars, humanVars, localVars, auxVars, GateUnchanged
<1>0. /\ RunTypes /\ RowTypes /\ LocalTypes /\ ControlShape
      /\ \A w \in Worker :
           /\ pc[w] # "idle" => job[w] \in Run
           /\ pc[w] \in ForwardPC => at[w] \in ActionStep /\ at[w] \in Step
           /\ pc[w] \in CompensationPC => CompensateRef[at[w]] \in Step
           /\ at[w] \in 0 .. NumSteps
           /\ verdict[w] \in Verdict
  BY Indexes DEF TypeOK, ControlShape, LocalTypes
<1>1. ASSUME NEW w \in Worker, MarkRunning(w)
      PROVE  TypeOK'
  <2> job[w] \in Run
    BY <1>1, <1>0, Members DEF MarkRunning
  <2>1. RunTypes'
    BY <1>1, <1>0, Members DEF MarkRunning, RunTypes
  <2>2. RowTypes'
    BY <1>1, <1>0 DEF MarkRunning, RowTypes
  <2>3. LocalTypes' /\ ControlShape'
    BY <1>1, <1>0, AdvanceTypes DEF MarkRunning, RunTypes
  <2> QED
    BY <2>1, <2>2, <2>3 DEF TypeOK
<1>2. ASSUME NEW w \in Worker, RenewLease(w)
      PROVE  TypeOK'
  <2> pc[w] \in ForwardPC /\ job[w] \in Run /\ at[w] \in ActionStep /\ at[w] \in Step
    BY <1>2, <1>0, Members DEF RenewLease
  <2>1. RunTypes'
    BY <1>2, <1>0 DEF RenewLease, RunTypes
  <2>2. RowTypes'
    BY <1>2, <1>0 DEF RenewLease, RowTypes
  <2>3. CASE Return(w)
    BY <1>2, <1>0, <2>1, <2>2, <2>3, ReturnTypes DEF TypeOK
  <2>4. CASE \E s \in RunStatus \ LeaseBearing : Conclude(w, s) /\ UNCHANGED <<job, at, tried, todo, clean>>
    BY <1>2, <1>0, <2>1, <2>2, <2>4, ConcludeTypes DEF TypeOK
  <2>5. CASE Goto(w, "kill_check") /\ UNCHANGED <<verdict, job, at, tried, todo, clean>>
    BY <1>2, <1>0, <2>1, <2>2, <2>5, GotoTypes, Members DEF TypeOK, LocalTypes
  <2> QED
    BY <1>2, <2>3, <2>4, <2>5, Members DEF RenewLease
<1>3. ASSUME NEW w \in Worker, CheckKillSwitch(w)
      PROVE  TypeOK'
  <2> pc[w] \in ForwardPC /\ job[w] \in Run /\ at[w] \in ActionStep /\ at[w] \in Step
    BY <1>3, <1>0, Members DEF CheckKillSwitch
  <2>1. RunTypes' /\ RowTypes'
    BY <1>3, <1>0 DEF CheckKillSwitch, RunTypes, RowTypes
  <2>2. CASE Conclude(w, "needs_review") /\ UNCHANGED <<job, at, tried, todo, clean>>
    BY <1>3, <1>0, <2>1, <2>2, ConcludeTypes, Members DEF TypeOK
  <2>3. CASE Goto(w, "gate") /\ UNCHANGED <<verdict, job, at, tried, todo, clean>>
    BY <1>3, <1>0, <2>1, <2>3, GotoTypes, Members DEF TypeOK, LocalTypes
  <2> QED
    BY <1>3, <2>2, <2>3 DEF CheckKillSwitch
<1>4. ASSUME NEW w \in Worker, Settle(w)
      PROVE  TypeOK'
  <2> job[w] \in Run
    BY <1>4, <1>0, Members DEF Settle
  <2>1. RunTypes'
    BY <1>4, <1>0, OwnedWriteTypes, Indexes DEF Settle, RunTypes, ControlShape
  <2>2. RowTypes'
    BY <1>4, <1>0 DEF Settle, RowTypes
  <2>3. LocalTypes' /\ ControlShape'
    BY <1>4, <1>0, ReturnTypes DEF Settle
  <2> QED
    BY <2>1, <2>2, <2>3 DEF TypeOK
<1>5. ASSUME NEW w \in Worker, SkipSucceeded(w)
      PROVE  TypeOK'
  <2> pc[w] \in ForwardPC /\ job[w] \in Run /\ at[w] \in ActionStep /\ at[w] \in Step
    BY <1>5, <1>0, Members DEF SkipSucceeded, AtGate
  <2>1. RunTypes'
    BY <1>5, <1>0, SetCursorTypes DEF SkipSucceeded, RunTypes
  <2>2. RowTypes'
    BY <1>5, <1>0 DEF SkipSucceeded, RowTypes
  <2>3. LocalTypes' /\ ControlShape'
    BY <1>5, <1>0, AdvanceTypes, Indexes DEF SkipSucceeded
  <2> QED
    BY <2>1, <2>2, <2>3 DEF TypeOK
<1>6. ASSUME NEW w \in Worker, SkipFailed(w)
      PROVE  TypeOK'
  <2> pc[w] \in ForwardPC /\ job[w] \in Run /\ at[w] \in ActionStep /\ at[w] \in Step
    BY <1>6, <1>0, Members DEF SkipFailed, AtGate
  <2>1. RunTypes'
    BY <1>6, <1>0, FailRunTypes DEF SkipFailed
  <2>2. RowTypes'
    BY <1>6, <1>0 DEF SkipFailed, RowTypes
  <2>3. LocalTypes' /\ ControlShape'
    BY <1>6, <1>0, FailRunTypes DEF SkipFailed
  <2> QED
    BY <2>1, <2>2, <2>3 DEF TypeOK
<1>7. ASSUME NEW w \in Worker, SkipUnknown(w)
      PROVE  TypeOK'
  <2> pc[w] \in ForwardPC /\ job[w] \in Run /\ at[w] \in ActionStep /\ at[w] \in Step
    BY <1>7, <1>0, Members DEF SkipUnknown, AtGate
  <2>1. RunTypes'
    BY <1>7, <1>0, StopAtGateTypes, Members DEF SkipUnknown
  <2>2. RowTypes'
    BY <1>7, <1>0, StopAtGateTypes, Members DEF SkipUnknown, RowTypes
  <2>3. LocalTypes' /\ ControlShape'
    BY <1>7, <1>0, StopAtGateTypes, Members DEF SkipUnknown
  <2> QED
    BY <2>1, <2>2, <2>3 DEF TypeOK
<1>8. ASSUME NEW w \in Worker, MarkUnknown(w)
      PROVE  TypeOK'
  <2> pc[w] \in ForwardPC /\ job[w] \in Run /\ at[w] \in ActionStep /\ at[w] \in Step
    BY <1>8, <1>0, Members DEF MarkUnknown, AtGate
  <2>1. RunTypes'
    BY <1>8, <1>0, SetCursorTypes DEF MarkUnknown, RunTypes
  <2>2. RowTypes'
    BY <1>8, <1>0, SetStepTypes, Members DEF MarkUnknown, RowTypes
  <2>3. LocalTypes' /\ ControlShape'
    BY <1>8, <1>0, ConcludeTypes, Members DEF MarkUnknown
  <2> QED
    BY <2>1, <2>2, <2>3 DEF TypeOK
<1>9. ASSUME NEW w \in Worker, Redispatch(w)
      PROVE  TypeOK'
  <2> pc[w] \in ForwardPC /\ job[w] \in Run /\ at[w] \in ActionStep /\ at[w] \in Step
    BY <1>9, <1>0, Members DEF Redispatch, AtGate
  <2>1. CASE StopAtGate(w, "needs_review")
    BY <1>9, <1>0, <2>1, StopAtGateTypes, Members DEF Redispatch, TypeOK, RowTypes
  <2>2. CASE Dispatch(w)
    BY <1>9, <1>0, <2>2, DispatchTypes DEF Redispatch, TypeOK, RowTypes
  <2> QED
    BY <1>9, <2>1, <2>2 DEF Redispatch
<1>10. ASSUME NEW w \in Worker, BlockedByPolicy(w)
      PROVE  TypeOK'
  <2> pc[w] \in ForwardPC /\ job[w] \in Run /\ at[w] \in ActionStep /\ at[w] \in Step
    BY <1>10, <1>0, Members DEF BlockedByPolicy, AtGate
  <2>1. RunTypes'
    BY <1>10, <1>0, StopAtGateTypes, Members DEF BlockedByPolicy
  <2>2. RowTypes'
    BY <1>10, <1>0, StopAtGateTypes, Members DEF BlockedByPolicy, RowTypes
  <2>3. LocalTypes' /\ ControlShape'
    BY <1>10, <1>0, StopAtGateTypes, Members DEF BlockedByPolicy
  <2> QED
    BY <2>1, <2>2, <2>3 DEF TypeOK
<1>11. ASSUME NEW w \in Worker, GateUndispatchable(w)
      PROVE  TypeOK'
  <2> pc[w] \in ForwardPC /\ job[w] \in Run /\ at[w] \in ActionStep /\ at[w] \in Step
    BY <1>11, <1>0, Members DEF GateUndispatchable, AtGate
  <2>1. CASE StopAtGate(w, "preview_blocked")
    BY <1>11, <1>0, <2>1, StopAtGateTypes, Members
    DEF GateUndispatchable, TypeOK, RowTypes
  <2>2. CASE Dispatch(w)
    BY <1>11, <1>0, <2>2, DispatchTypes DEF GateUndispatchable, TypeOK, RowTypes
  <2>3. CASE /\ SetStep(job[w], at[w], "failed")
             /\ SetCursor(w)
             /\ Goto(w, "step_failed")
             /\ UNCHANGED <<status, leaseVars, attempts, job, at, verdict, tried, todo, clean>>
    <3>1. RunTypes'
      BY <1>11, <1>0, <2>3, SetCursorTypes DEF GateUndispatchable, RunTypes
    <3>2. RowTypes'
      BY <1>11, <1>0, <2>3, SetStepTypes, Members DEF GateUndispatchable, RowTypes
    <3>3. LocalTypes' /\ ControlShape'
      BY <1>11, <1>0, <2>3, GotoTypes, Members DEF LocalTypes
    <3> QED
      BY <3>1, <3>2, <3>3 DEF TypeOK
  <2> QED
    BY <1>11, <2>1, <2>2, <2>3 DEF GateUndispatchable
<1>12. ASSUME NEW w \in Worker, RequestApproval(w)
      PROVE  TypeOK'
  <2> pc[w] \in ForwardPC /\ job[w] \in Run /\ at[w] \in ActionStep /\ at[w] \in Step
    BY <1>12, <1>0, Members DEF RequestApproval, AtGate
  <2>1. RunTypes'
    BY <1>12, <1>0, SetCursorTypes DEF RequestApproval, RunTypes
  <2>2. RowTypes'
    BY <1>12, <1>0, Members DEF RequestApproval, RowTypes
  <2>3. LocalTypes' /\ ControlShape'
    BY <1>12, <1>0, ConcludeTypes, Members DEF RequestApproval
  <2> QED
    BY <2>1, <2>2, <2>3 DEF TypeOK
<1>13. ASSUME NEW w \in Worker, AwaitApproval(w)
      PROVE  TypeOK'
  <2> pc[w] \in ForwardPC /\ job[w] \in Run /\ at[w] \in ActionStep /\ at[w] \in Step
    BY <1>13, <1>0, Members DEF AwaitApproval, AtGate
  <2>1. RunTypes'
    BY <1>13, <1>0, StopAtGateTypes, Members DEF AwaitApproval
  <2>2. RowTypes'
    BY <1>13, <1>0, StopAtGateTypes, Members DEF AwaitApproval, RowTypes
  <2>3. LocalTypes' /\ ControlShape'
    BY <1>13, <1>0, StopAtGateTypes, Members DEF AwaitApproval
  <2> QED
    BY <2>1, <2>2, <2>3 DEF TypeOK
<1>14. ASSUME NEW w \in Worker, FirstDispatch(w)
      PROVE  TypeOK'
  <2> pc[w] \in ForwardPC /\ job[w] \in Run /\ at[w] \in ActionStep /\ at[w] \in Step
    BY <1>14, <1>0, Members DEF FirstDispatch, AtGate
  <2>1. CASE StopAtGate(w, "preview_blocked")
    BY <1>14, <1>0, <2>1, StopAtGateTypes, Members DEF FirstDispatch, TypeOK, RowTypes
  <2>2. CASE Dispatch(w)
    BY <1>14, <1>0, <2>2, DispatchTypes DEF FirstDispatch, TypeOK, RowTypes
  <2> QED
    BY <1>14, <2>1, <2>2 DEF FirstDispatch
<1>15. ASSUME NEW w \in Worker, Execute(w)
      PROVE  TypeOK'
  <2> pc[w] \in ForwardPC /\ job[w] \in Run /\ at[w] \in ActionStep /\ at[w] \in Step
    BY <1>15, <1>0, Members DEF Execute
  <2>1. RunTypes'
    BY <1>15, <1>0 DEF Execute, RunTypes
  <2>2. RowTypes'
    BY <1>15, <1>0, CountEffectTypes DEF Execute, RowTypes
  <2>3. LocalTypes' /\ ControlShape'
    <3>1. /\ verdict' \in [Worker -> Verdict]
          /\ \A v \in Worker : v # w => verdict'[v] = verdict[v]
      BY <1>15, <1>0, Members DEF Execute, LocalTypes
    <3> QED
      BY <1>15, <1>0, <3>1, GotoTypes, Members DEF Execute, LocalTypes
  <2> QED
    BY <2>1, <2>2, <2>3 DEF TypeOK
<1>16. ASSUME NEW w \in Worker, FailUnregistered(w)
      PROVE  TypeOK'
  <2> pc[w] \in ForwardPC /\ job[w] \in Run /\ at[w] \in ActionStep /\ at[w] \in Step
    BY <1>16, <1>0, Members DEF FailUnregistered
  <2>1. RunTypes'
    BY <1>16, <1>0 DEF FailUnregistered, RunTypes
  <2>2. RowTypes'
    BY <1>16, <1>0, SetStepTypes, Members DEF FailUnregistered, RowTypes
  <2>3. LocalTypes' /\ ControlShape'
    BY <1>16, <1>0, GotoTypes, Members DEF FailUnregistered, LocalTypes
  <2> QED
    BY <2>1, <2>2, <2>3 DEF TypeOK
<1>17. ASSUME NEW w \in Worker, RecordSuccess(w)
      PROVE  TypeOK'
  <2> pc[w] \in ForwardPC /\ job[w] \in Run /\ at[w] \in ActionStep /\ at[w] \in Step
    BY <1>17, <1>0, Members DEF RecordSuccess
  <2>1. RunTypes'
    BY <1>17, <1>0 DEF RecordSuccess, RunTypes
  <2>2. RowTypes'
    BY <1>17, <1>0, SetStepTypes, Members DEF RecordSuccess, RowTypes
  <2>3. LocalTypes' /\ ControlShape'
    BY <1>17, <1>0, AdvanceTypes, Indexes DEF RecordSuccess
  <2> QED
    BY <2>1, <2>2, <2>3 DEF TypeOK
<1>18. ASSUME NEW w \in Worker, RecordTransient(w)
      PROVE  TypeOK'
  <2> pc[w] \in ForwardPC /\ job[w] \in Run /\ at[w] \in ActionStep /\ at[w] \in Step
    BY <1>18, <1>0, Members DEF RecordTransient
  <2>1. LocalTypes' /\ ControlShape'
    BY <1>18, <1>0, ReturnTypes DEF RecordTransient
  <2>2. CASE Owns(w)
    <3>1. RunTypes'
      BY <1>18, <1>0, <2>2, Members DEF RecordTransient, RunTypes, ReleaseLease
    <3>2. attempts' \in [Run -> [Step -> Nat]]
      <4>1. tried[w] + 1 \in Nat
        BY <1>0 DEF LocalTypes
      <4>2. attempts' = [attempts EXCEPT ![job[w]][at[w]] = tried[w] + 1]
        BY <1>18, <2>2 DEF RecordTransient
      <4> QED
        BY <1>0, <4>1, <4>2 DEF RowTypes
    <3>3. step' \in [Run -> [Step -> StepStatus]]
      BY <1>18, <1>0, <2>2, SetStepTypes, Members DEF RecordTransient
    <3>4. RowTypes'
      BY <1>18, <1>0, <3>2, <3>3 DEF RecordTransient, RowTypes
    <3> QED
      BY <2>1, <3>1, <3>4 DEF TypeOK
  <2>3. CASE ~Owns(w)
    BY <1>18, <1>0, <2>1, <2>3 DEF RecordTransient, TypeOK, RunTypes, RowTypes
  <2> QED
    BY <2>2, <2>3
<1>19. ASSUME NEW w \in Worker, RecordFailure(w)
      PROVE  TypeOK'
  <2> pc[w] \in ForwardPC /\ job[w] \in Run /\ at[w] \in ActionStep /\ at[w] \in Step
    BY <1>19, <1>0, Members DEF RecordFailure
  <2>1. RunTypes'
    BY <1>19, <1>0 DEF RecordFailure, RunTypes
  <2>2. RowTypes'
    BY <1>19, <1>0, SetStepTypes, Members DEF RecordFailure, RowTypes
  <2>3. LocalTypes' /\ ControlShape'
    BY <1>19, <1>0, GotoTypes, Members DEF RecordFailure, LocalTypes
  <2> QED
    BY <2>1, <2>2, <2>3 DEF TypeOK
<1>20. ASSUME NEW w \in Worker, AfterFailure(w)
      PROVE  TypeOK'
  <2> pc[w] \in ForwardPC /\ job[w] \in Run /\ at[w] \in ActionStep /\ at[w] \in Step
    BY <1>20, <1>0, Members DEF AfterFailure
  <2>1. RunTypes'
    BY <1>20, <1>0, FailRunTypes DEF AfterFailure, RunTypes
  <2>2. RowTypes'
    BY <1>20, <1>0 DEF AfterFailure, RowTypes
  <2>3. LocalTypes' /\ ControlShape'
    BY <1>20, <1>0, FailRunTypes DEF AfterFailure, RunTypes
  <2> QED
    BY <2>1, <2>2, <2>3 DEF TypeOK
<1>21. ASSUME NEW w \in Worker, CompensationDone(w)
      PROVE  TypeOK'
  <2> job[w] \in Run
    BY <1>21, <1>0, Members DEF CompensationDone
  <2>1. RunTypes'
    BY <1>21, <1>0 DEF CompensationDone, RunTypes
  <2>2. RowTypes'
    BY <1>21, <1>0 DEF CompensationDone, RowTypes
  <2>3. LocalTypes' /\ ControlShape'
    BY <1>21, <1>0, ConcludeTypes, Members DEF CompensationDone
  <2> QED
    BY <2>1, <2>2, <2>3 DEF TypeOK
<1>22. ASSUME NEW w \in Worker, CompensationRenew(w)
      PROVE  TypeOK'
  <2> job[w] \in Run
    BY <1>22, <1>0, Members DEF CompensationRenew
  <2>1. RunTypes' /\ RowTypes'
    BY <1>22, <1>0 DEF CompensationRenew, RunTypes, RowTypes
  <2>2. CASE Return(w)
    BY <1>22, <1>0, <2>1, <2>2, ReturnTypes DEF TypeOK
  <2>3. CASE ~Return(w)
    <3>1. PICK i \in Step :
            /\ i \in todo[w] /\ at' = [at EXCEPT ![w] = i]
            /\ pc' = [pc EXCEPT ![w] = "comp_gate"]
            /\ UNCHANGED <<job, verdict, tried, todo, clean>>
      BY <1>22, <2>3 DEF CompensationRenew, NextToCompensate, Goto
    <3>2. i \in Compensable /\ i \in 0 .. NumSteps
      BY <1>0, <3>1, Indexes DEF LocalTypes
    <3>3. LocalTypes'
      BY <1>0, <3>1, <3>2, Members DEF LocalTypes
    <3>4. ControlShape'
      BY <1>0, <3>1, <3>2, Members DEF LocalTypes, ControlShape
    <3> QED
      BY <2>1, <3>3, <3>4 DEF TypeOK
  <2> QED
    BY <2>2, <2>3
<1>23. ASSUME NEW w \in Worker, CompensationGate(w)
      PROVE  TypeOK'
  <2> /\ pc[w] \in CompensationPC /\ job[w] \in Run
      /\ CompensateRef[at[w]] \in Step
    BY <1>23, <1>0, Members DEF CompensationGate
  <2>0. step[job[w]][CompensateRef[at[w]]] \in StepStatus
    BY <1>0 DEF RowTypes
  <2>1. RunTypes'
    BY <1>23, <1>0 DEF CompensationGate, RunTypes
  <2>2. CASE step[job[w]][CompensateRef[at[w]]] = "none"
    <3>1. /\ SetStep(job[w], CompensateRef[at[w]], "dispatched")
          /\ pc' = [pc EXCEPT ![w] = "comp_execute"]
          /\ UNCHANGED <<attempts, approval, killed, policy, effects, crashes>>
          /\ UNCHANGED <<job, at, verdict, tried, todo, clean>>
      BY <1>23, <2>2 DEF CompensationGate, Goto
    <3>2. RowTypes'
      BY <1>0, <3>1, SetStepTypes, Members DEF RowTypes
    <3>3. at[w] \in Compensable
      BY <1>0 DEF ControlShape
    <3>4. LocalTypes' /\ ControlShape'
      BY <1>0, <3>1, <3>3, Members DEF LocalTypes, ControlShape
    <3> QED
      BY <2>1, <3>2, <3>4 DEF TypeOK
  <2>3. CASE step[job[w]][CompensateRef[at[w]]] = "dispatched"
    <3>1. /\ SetStep(job[w], CompensateRef[at[w]], "unknown")
          /\ CompensationOutcome(w, FALSE)
          /\ UNCHANGED <<attempts, approval, killed, policy, verdict, effects, crashes>>
      BY <1>23, <2>3 DEF CompensationGate
    <3>2. RowTypes'
      BY <1>0, <3>1, SetStepTypes, Members DEF RowTypes
    <3>3. LocalTypes' /\ ControlShape'
      BY <1>0, <3>1, CompensationOutcomeTypes DEF LocalTypes
    <3> QED
      BY <2>1, <3>2, <3>3 DEF TypeOK
  <2>4. CASE step[job[w]][CompensateRef[at[w]]] \notin {"none", "dispatched"}
    <3>1. PICK ok \in BOOLEAN :
          /\ UNCHANGED step
          /\ CompensationOutcome(w, ok)
          /\ UNCHANGED <<attempts, approval, killed, policy, verdict, effects, crashes>>
      BY <1>23, <2>4 DEF CompensationGate
    <3>2. RowTypes'
      BY <1>0, <3>1 DEF RowTypes
    <3>3. LocalTypes' /\ ControlShape'
      BY <1>0, <3>1, CompensationOutcomeTypes DEF LocalTypes
    <3> QED
      BY <2>1, <3>2, <3>3 DEF TypeOK
  <2> QED
    BY <2>2, <2>3, <2>4
<1>24. ASSUME NEW w \in Worker, CompensationRefused(w)
      PROVE  TypeOK'
  <2> /\ pc[w] \in CompensationPC /\ job[w] \in Run
      /\ CompensateRef[at[w]] \in Step
    BY <1>24, <1>0, Members DEF CompensationRefused
  <2>1. RunTypes'
    BY <1>24, <1>0 DEF CompensationRefused, RunTypes
  <2>2. RowTypes'
    BY <1>24, <1>0, SetStepTypes, Members DEF CompensationRefused, RowTypes
  <2>3. LocalTypes' /\ ControlShape'
    BY <1>24, <1>0, CompensationOutcomeTypes DEF CompensationRefused, LocalTypes
  <2> QED
    BY <2>1, <2>2, <2>3 DEF TypeOK
<1>25. ASSUME NEW w \in Worker, CompensationExecute(w)
      PROVE  TypeOK'
  <2> /\ pc[w] \in CompensationPC /\ job[w] \in Run
      /\ CompensateRef[at[w]] \in Step
    BY <1>25, <1>0, Members DEF CompensationExecute
  <2>1. RunTypes'
    BY <1>25, <1>0 DEF CompensationExecute, RunTypes
  <2>2. RowTypes'
    BY <1>25, <1>0, CountEffectTypes DEF CompensationExecute, RowTypes
  <2>3. LocalTypes' /\ ControlShape'
    <3>1. PICK outcome \in {"ok", "error"} :
             /\ verdict' = [verdict EXCEPT ![w] = outcome]
             /\ pc' = [pc EXCEPT ![w] = "comp_record"]
             /\ UNCHANGED <<job, at, tried, todo, clean>>
      BY <1>25 DEF CompensationExecute, Goto
    <3>2. at[w] \in Compensable
      BY <1>0 DEF ControlShape
    <3> QED
      BY <1>0, <3>1, <3>2, Members DEF LocalTypes, ControlShape
  <2> QED
    BY <2>1, <2>2, <2>3 DEF TypeOK
<1>26. ASSUME NEW w \in Worker, CompensationRecord(w)
      PROVE  TypeOK'
  <2> /\ pc[w] \in CompensationPC /\ job[w] \in Run
      /\ CompensateRef[at[w]] \in Step
    BY <1>26, <1>0, Members DEF CompensationRecord
  <2>1. RunTypes'
    BY <1>26, <1>0 DEF CompensationRecord, RunTypes
  <2>2. RowTypes'
    BY <1>26, <1>0, SetStepTypes, Members DEF CompensationRecord, RowTypes
  <2>3. LocalTypes' /\ ControlShape'
    <3>1. /\ verdict' \in [Worker -> Verdict]
          /\ \A v \in Worker : v # w => verdict'[v] = verdict[v]
      BY <1>26, <1>0, Members DEF CompensationRecord, LocalTypes
    <3>2. PICK ok \in BOOLEAN : CompensationOutcome(w, ok)
      BY <1>26 DEF CompensationRecord
    <3> QED
      BY <1>0, <3>1, <3>2, CompensationOutcomeTypes
  <2> QED
    BY <2>1, <2>2, <2>3 DEF TypeOK
<1>27. ASSUME NEW w \in Worker, Crash(w)
      PROVE  TypeOK'
  <2>1. RunTypes'
    BY <1>27, <1>0 DEF Crash, RunTypes
  <2>2. RowTypes'
    BY <1>27, <1>0 DEF Crash, RowTypes
  <2>3. LocalTypes' /\ ControlShape'
    BY <1>27, <1>0, ReturnTypes DEF Crash
  <2> QED
    BY <2>1, <2>2, <2>3 DEF TypeOK
<1>28. ASSUME NEW w \in Worker, NEW r \in Run, Claim(w, r)
      PROVE  TypeOK'
  <2>1. RunTypes'
    BY <1>28, <1>0, Members DEF Claim, RunTypes
  <2>2. RowTypes'
    BY <1>28, <1>0 DEF Claim, RowTypes
  <2>3. LocalTypes' /\ ControlShape'
    BY <1>28, <1>0, Members DEF Claim, Goto, LocalTypes, ControlShape
  <2> QED
    BY <2>1, <2>2, <2>3 DEF TypeOK
<1>29. ASSUME NEW r \in Run, Enqueue(r)
      PROVE  TypeOK'
  <2>1. RunTypes'
    BY <1>29, <1>0, Members DEF Enqueue, RunTypes, OnlyRuns
  <2>2. RowTypes'
    BY <1>29, <1>0 DEF Enqueue, RowTypes, OnlyRuns
  <2>3. LocalTypes' /\ ControlShape'
    BY <1>29, <1>0 DEF Enqueue, LocalTypes, ControlShape, OnlyRuns
  <2> QED
    BY <2>1, <2>2, <2>3 DEF TypeOK
<1>30. ASSUME NEW r \in Run, Cancel(r)
      PROVE  TypeOK'
  <2>1. RunTypes'
    BY <1>30, <1>0, Members DEF Cancel, RunTypes, OnlyRuns
  <2>2. RowTypes'
    BY <1>30, <1>0 DEF Cancel, RowTypes, OnlyRuns
  <2>3. LocalTypes' /\ ControlShape'
    BY <1>30, <1>0 DEF Cancel, LocalTypes, ControlShape, OnlyRuns
  <2> QED
    BY <2>1, <2>2, <2>3 DEF TypeOK
<1>31. ASSUME NEW r \in Run, Pause(r)
      PROVE  TypeOK'
  <2>1. RunTypes'
    BY <1>31, <1>0, Members DEF Pause, RunTypes, OnlyRuns
  <2>2. RowTypes'
    BY <1>31, <1>0 DEF Pause, RowTypes, OnlyRuns
  <2>3. LocalTypes' /\ ControlShape'
    BY <1>31, <1>0 DEF Pause, LocalTypes, ControlShape, OnlyRuns
  <2> QED
    BY <2>1, <2>2, <2>3 DEF TypeOK
<1>32. ASSUME NEW r \in Run, Resume(r)
      PROVE  TypeOK'
  <2>1. RunTypes'
    BY <1>32, <1>0, Members DEF Resume, RunTypes, OnlyRuns, ReleaseLease
  <2>2. RowTypes'
    BY <1>32, <1>0 DEF Resume, RowTypes, OnlyRuns
  <2>3. LocalTypes' /\ ControlShape'
    BY <1>32, <1>0 DEF Resume, LocalTypes, ControlShape, OnlyRuns
  <2> QED
    BY <2>1, <2>2, <2>3 DEF TypeOK
<1>33. ASSUME NEW r \in Run, LeaseLapses(r)
      PROVE  TypeOK'
  <2>1. RunTypes'
    BY <1>33, <1>0, Members DEF LeaseLapses, RunTypes
  <2>2. RowTypes'
    BY <1>33, <1>0 DEF LeaseLapses, RowTypes
  <2>3. LocalTypes' /\ ControlShape'
    BY <1>33, <1>0 DEF LeaseLapses, LocalTypes, ControlShape
  <2> QED
    BY <2>1, <2>2, <2>3 DEF TypeOK
<1>34. ASSUME NEW r \in Run, BackoffElapses(r)
      PROVE  TypeOK'
  <2>1. RunTypes'
    BY <1>34, <1>0, Members DEF BackoffElapses, RunTypes
  <2>2. RowTypes'
    BY <1>34, <1>0 DEF BackoffElapses, RowTypes
  <2>3. LocalTypes' /\ ControlShape'
    BY <1>34, <1>0 DEF BackoffElapses, LocalTypes, ControlShape
  <2> QED
    BY <2>1, <2>2, <2>3 DEF TypeOK
<1>35. ASSUME NEW r \in Run, NEW i \in Step, Approve(r, i)
      PROVE  TypeOK'
  <2>1. RunTypes'
    BY <1>35, <1>0, Members
    DEF Approve, DecisionUnchanged, Requeue, ReleaseLease, RunTypes
  <2>2. RowTypes'
    BY <1>35, <1>0, Members DEF Approve, DecisionUnchanged, RowTypes
  <2>3. LocalTypes' /\ ControlShape'
    BY <1>35, <1>0 DEF Approve, DecisionUnchanged, LocalTypes, ControlShape
  <2> QED
    BY <2>1, <2>2, <2>3 DEF TypeOK
<1>36. ASSUME NEW r \in Run, NEW i \in Step, Reject(r, i)
      PROVE  TypeOK'
  <2>1. RunTypes'
    BY <1>36, <1>0, Members
    DEF Reject, DecisionUnchanged, Requeue, ReleaseLease, RunTypes
  <2>2. RowTypes'
    <3>1. step' \in [Run -> [Step -> StepStatus]]
      BY <1>36, <1>0, SetStepTypes, Members DEF Reject, RowTypes
    <3> QED
      BY <1>36, <1>0, <3>1, Members DEF Reject, DecisionUnchanged, RowTypes
  <2>3. LocalTypes' /\ ControlShape'
    BY <1>36, <1>0 DEF Reject, DecisionUnchanged, LocalTypes, ControlShape
  <2> QED
    BY <2>1, <2>2, <2>3 DEF TypeOK
<1>37. ASSUME NEW r \in Run, NEW i \in Step, ApprovalExpires(r, i)
      PROVE  TypeOK'
  <2>1. RunTypes'
    BY <1>37, <1>0 DEF ApprovalExpires, RunTypes
  <2>2. RowTypes'
    BY <1>37, <1>0, Members DEF ApprovalExpires, RowTypes
  <2>3. LocalTypes' /\ ControlShape'
    BY <1>37, <1>0 DEF ApprovalExpires, LocalTypes, ControlShape
  <2> QED
    BY <2>1, <2>2, <2>3 DEF TypeOK
<1>38. ASSUME NEW scope \in Workflow \cup {Everything}, ActivateKillSwitch(scope)
      PROVE  TypeOK'
  <2>1. RunTypes'
    BY <1>38, <1>0, Members DEF ActivateKillSwitch, RunTypes
  <2>2. RowTypes'
    BY <1>38, <1>0 DEF ActivateKillSwitch, RowTypes
  <2>3. LocalTypes' /\ ControlShape'
    BY <1>38, <1>0 DEF ActivateKillSwitch, LocalTypes, ControlShape
  <2> QED
    BY <2>1, <2>2, <2>3 DEF TypeOK
<1>39. ASSUME NEW scope \in Workflow \cup {Everything}, DeactivateKillSwitch(scope)
      PROVE  TypeOK'
  <2>1. RunTypes'
    BY <1>39, <1>0, Members DEF DeactivateKillSwitch, RunTypes
  <2>2. RowTypes'
    BY <1>39, <1>0 DEF DeactivateKillSwitch, RowTypes
  <2>3. LocalTypes' /\ ControlShape'
    BY <1>39, <1>0 DEF DeactivateKillSwitch, LocalTypes, ControlShape
  <2> QED
    BY <2>1, <2>2, <2>3 DEF TypeOK
<1>40. ASSUME NEW f \in Workflow, PolicyLapses(f)
      PROVE  TypeOK'
  <2>1. RunTypes'
    BY <1>40, <1>0 DEF PolicyLapses, RunTypes
  <2>2. RowTypes'
    <3>1. policy' \in [Workflow -> Policy]
      BY <1>40, <1>0 DEF PolicyLapses, RowTypes, Policy
    <3> QED
      BY <1>40, <1>0, <3>1 DEF PolicyLapses, RowTypes
  <2>3. LocalTypes' /\ ControlShape'
    BY <1>40, <1>0 DEF PolicyLapses, LocalTypes, ControlShape
  <2> QED
    BY <2>1, <2>2, <2>3 DEF TypeOK
<1>41. ASSUME UNCHANGED vars
      PROVE  TypeOK'
  BY <1>41, <1>0 DEF vars, TypeOK, RunTypes, RowTypes, LocalTypes, ControlShape
<1> QED
  BY <1>1, <1>2, <1>3, <1>4, <1>5, <1>6, <1>7, <1>8, <1>9, <1>10,
     <1>11, <1>12, <1>13, <1>14, <1>15, <1>16, <1>17, <1>18, <1>19,
     <1>20, <1>21, <1>22, <1>23, <1>24, <1>25, <1>26, <1>27, <1>28,
     <1>29, <1>30, <1>31, <1>32, <1>33, <1>34, <1>35, <1>36, <1>37,
     <1>38, <1>39, <1>40, <1>41
  DEF Next, WorkerStep, OperatorStep, TimeStep

\* The engine's tables and the workers' local state always have their types,
\* and a worker past its claim always has a run and stands at a step of the
\* kind its code is about (process_claimed_run, run_step,
\* _run_compensation_sequence).
THEOREM TypeCorrect == Spec => []TypeOK
<1>1. Init => TypeOK
  <2> SUFFICES ASSUME Init PROVE TypeOK
    OBVIOUS
  <2>1. RunTypes
    BY Members, Indexes DEF Init, RunTypes
  <2>2. RowTypes
    BY Members DEF Init, RowTypes, Policy
  <2>3. LocalTypes /\ ControlShape
    BY Members, Indexes DEF Init, LocalTypes, ControlShape
  <2> QED
    BY <2>1, <2>2, <2>3 DEF TypeOK
<1>2. TypeOK /\ [Next]_vars => TypeOK'
  BY TypeStep
<1> QED
  BY <1>1, <1>2, PTL DEF Spec

-----------------------------------------------------------------------------
(* Status and lease.                                                        *)

\* What a step may never do to the run table.
TableStep ==
  \A r \in Run :
    /\ status[r] \in Terminal => status'[r] = status[r]
    /\ Killed(r) /\ leasedBy'[r] # leasedBy[r] => leasedBy'[r] = NoWorker

\* The kinds of run status do not overlap.
LEMMA StatusKinds ==
  /\ Terminal \cap LeaseBearing = {}
  /\ Terminal \cap Cancellable = {}
  /\ Cancellable \cap LeaseBearing = {}
  /\ "waiting_approval" \notin Terminal \cup LeaseBearing
  /\ "absent" \notin Terminal \cup LeaseBearing
  /\ {"leased", "running", "compensating"} = LeaseBearing
  /\ {"queued", "paused", "needs_review"} = Cancellable
  /\ {"cancelled", "failed"} \subseteq Terminal
  BY DEF Terminal, LeaseBearing, Cancellable

\* A write under _LEASE_OWNERSHIP_PREDICATE finds a lease-bearing run and
\* releases both the status and the lease; without the lease it changes
\* nothing.
LEMMA OwnedWriteLease ==
  ASSUME TypeOK, LeaseShape, NEW w \in Worker, job[w] \in Run,
         NEW s \in RunStatus \ LeaseBearing, NEW c, OwnedWrite(w, s, c)
  PROVE  LeaseShape' /\ TableStep
<1>1. CASE Owns(w)
  <2>1. leasedBy[job[w]] # NoWorker
    BY <1>1, ConstantAssumption DEF Owns
  <2>2. status[job[w]] \in LeaseBearing
    BY <2>1 DEF LeaseShape
  <2>3. /\ status' = [status EXCEPT ![job[w]] = s]
        /\ leasedBy' = [leasedBy EXCEPT ![job[w]] = NoWorker]
    BY <1>1 DEF OwnedWrite, ReleaseLease
  <2> QED
    BY <2>2, <2>3, StatusKinds DEF LeaseShape, TableStep, TypeOK, RunTypes
<1>2. CASE ~Owns(w)
  BY <1>2 DEF OwnedWrite, leaseVars, LeaseShape, TableStep
<1> QED
  BY <1>1, <1>2

\* The failed branch keeps the lease exactly when it goes on to compensate.
LEMMA FailRunLease ==
  ASSUME TypeOK, LeaseShape, NEW w \in Worker, job[w] \in Run, NEW c, FailRun(w, c)
  PROVE  LeaseShape' /\ TableStep
<1>1. CASE OwnedWrite(w, "failed", c)
  BY <1>1, OwnedWriteLease, Members
<1>2. CASE ~OwnedWrite(w, "failed", c)
  <2>1. /\ Owns(w)
        /\ status' = [status EXCEPT ![job[w]] = "compensating"]
        /\ UNCHANGED leasedBy
    BY <1>2 DEF FailRun, leaseVars
  <2>2. leasedBy[job[w]] # NoWorker
    BY <2>1, ConstantAssumption DEF Owns
  <2>3. status[job[w]] \in LeaseBearing
    BY <2>2 DEF LeaseShape
  <2> QED
    BY <2>1, <2>2, <2>3, StatusKinds DEF LeaseShape, TableStep, TypeOK, RunTypes
<1> QED
  BY <1>1, <1>2

\* Every step keeps status and lease in agreement, leaves terminal runs alone
\* and grants no lease under a kill switch: one step per action of the model.
THEOREM LeaseStep ==
  ASSUME TypeOK, LeaseShape, [Next]_vars
  PROVE  LeaseShape' /\ TableStep
<1> USE DEF runVars, leaseVars, flagVars, stepVars, humanVars, localVars, auxVars, GateUnchanged
<1>0. /\ RunTypes
      /\ \A w \in Worker : pc[w] # "idle" => job[w] \in Run
      /\ \A w \in Worker : pc[w] = "settle" => verdict[w] \in RunStatus \ LeaseBearing
  BY DEF TypeOK, ControlShape
<1>a. ASSUME UNCHANGED <<status, leasedBy>>
      PROVE  LeaseShape' /\ TableStep
  BY <1>a DEF LeaseShape, TableStep
<1>b. ASSUME NEW w \in Worker, job[w] \in Run,
             NEW s \in RunStatus \ LeaseBearing, StopAtGate(w, s)
      PROVE  LeaseShape' /\ TableStep
  BY <1>b, OwnedWriteLease DEF StopAtGate
<1>1. ASSUME NEW w \in Worker, MarkRunning(w)
      PROVE  LeaseShape' /\ TableStep
  <2>1. job[w] \in Run
    BY <1>1, <1>0 DEF MarkRunning
  <2>2. CASE status[job[w]] = "leased" /\ Owns(w)
    BY <1>1, <1>0, <2>1, <2>2, StatusKinds
    DEF MarkRunning, LeaseShape, TableStep, RunTypes
  <2>3. CASE ~(status[job[w]] = "leased" /\ Owns(w))
    BY <1>1, <1>a, <2>3 DEF MarkRunning
  <2> QED
    BY <2>2, <2>3
<1>2. ASSUME NEW w \in Worker, RenewLease(w)
      PROVE  LeaseShape' /\ TableStep
  BY <1>2, <1>a DEF RenewLease
<1>3. ASSUME NEW w \in Worker, CheckKillSwitch(w)
      PROVE  LeaseShape' /\ TableStep
  BY <1>3, <1>a DEF CheckKillSwitch
<1>4. ASSUME NEW w \in Worker, Settle(w)
      PROVE  LeaseShape' /\ TableStep
  BY <1>4, <1>0, OwnedWriteLease DEF Settle
<1>5. ASSUME NEW w \in Worker, SkipSucceeded(w)
      PROVE  LeaseShape' /\ TableStep
  BY <1>5, <1>a DEF SkipSucceeded
<1>6. ASSUME NEW w \in Worker, SkipFailed(w)
      PROVE  LeaseShape' /\ TableStep
  BY <1>6, <1>0, FailRunLease DEF SkipFailed, AtGate
<1>7. ASSUME NEW w \in Worker, SkipUnknown(w)
      PROVE  LeaseShape' /\ TableStep
  BY <1>7, <1>0, <1>b, Members DEF SkipUnknown, AtGate
<1>8. ASSUME NEW w \in Worker, MarkUnknown(w)
      PROVE  LeaseShape' /\ TableStep
  BY <1>8, <1>a DEF MarkUnknown
<1>9. ASSUME NEW w \in Worker, Redispatch(w)
      PROVE  LeaseShape' /\ TableStep
  BY <1>9, <1>0, <1>a, <1>b, Members DEF Redispatch, AtGate, Dispatch
<1>10. ASSUME NEW w \in Worker, BlockedByPolicy(w)
      PROVE  LeaseShape' /\ TableStep
  BY <1>10, <1>0, <1>b, Members DEF BlockedByPolicy, AtGate
<1>11. ASSUME NEW w \in Worker, GateUndispatchable(w)
      PROVE  LeaseShape' /\ TableStep
  BY <1>11, <1>0, <1>a, <1>b, Members DEF GateUndispatchable, AtGate, Dispatch
<1>12. ASSUME NEW w \in Worker, RequestApproval(w)
      PROVE  LeaseShape' /\ TableStep
  BY <1>12, <1>a DEF RequestApproval
<1>13. ASSUME NEW w \in Worker, AwaitApproval(w)
      PROVE  LeaseShape' /\ TableStep
  BY <1>13, <1>0, <1>b, Members DEF AwaitApproval, AtGate
<1>14. ASSUME NEW w \in Worker, FirstDispatch(w)
      PROVE  LeaseShape' /\ TableStep
  BY <1>14, <1>0, <1>a, <1>b, Members DEF FirstDispatch, AtGate, Dispatch
<1>15. ASSUME NEW w \in Worker, Execute(w)
      PROVE  LeaseShape' /\ TableStep
  BY <1>15, <1>a DEF Execute
<1>16. ASSUME NEW w \in Worker, FailUnregistered(w)
      PROVE  LeaseShape' /\ TableStep
  BY <1>16, <1>a DEF FailUnregistered
<1>17. ASSUME NEW w \in Worker, RecordSuccess(w)
      PROVE  LeaseShape' /\ TableStep
  BY <1>17, <1>a DEF RecordSuccess
<1>18. ASSUME NEW w \in Worker, RecordTransient(w)
      PROVE  LeaseShape' /\ TableStep
  <2>1. job[w] \in Run
    BY <1>18, <1>0 DEF RecordTransient
  <2>2. CASE Owns(w)
    <3>1. status[job[w]] \in LeaseBearing
      BY <2>1, <2>2, ConstantAssumption DEF LeaseShape, Owns
    <3>2. /\ status' = [status EXCEPT ![job[w]] = "queued"]
          /\ leasedBy' = [leasedBy EXCEPT ![job[w]] = NoWorker]
      BY <1>18, <2>2 DEF RecordTransient, ReleaseLease
    <3> QED
      BY <1>0, <3>1, <3>2, StatusKinds DEF LeaseShape, TableStep, RunTypes
  <2>3. CASE ~Owns(w)
    BY <1>18, <1>a, <2>3 DEF RecordTransient
  <2> QED
    BY <2>2, <2>3
<1>19. ASSUME NEW w \in Worker, RecordFailure(w)
      PROVE  LeaseShape' /\ TableStep
  BY <1>19, <1>a DEF RecordFailure
<1>20. ASSUME NEW w \in Worker, AfterFailure(w)
      PROVE  LeaseShape' /\ TableStep
  BY <1>20, <1>0, FailRunLease DEF AfterFailure
<1>21. ASSUME NEW w \in Worker, CompensationDone(w)
      PROVE  LeaseShape' /\ TableStep
  BY <1>21, <1>a DEF CompensationDone
<1>22. ASSUME NEW w \in Worker, CompensationRenew(w)
      PROVE  LeaseShape' /\ TableStep
  BY <1>22, <1>a DEF CompensationRenew
<1>23. ASSUME NEW w \in Worker, CompensationGate(w)
      PROVE  LeaseShape' /\ TableStep
  BY <1>23, <1>a DEF CompensationGate
<1>24. ASSUME NEW w \in Worker, CompensationRefused(w)
      PROVE  LeaseShape' /\ TableStep
  BY <1>24, <1>a DEF CompensationRefused
<1>25. ASSUME NEW w \in Worker, CompensationExecute(w)
      PROVE  LeaseShape' /\ TableStep
  BY <1>25, <1>a DEF CompensationExecute
<1>26. ASSUME NEW w \in Worker, CompensationRecord(w)
      PROVE  LeaseShape' /\ TableStep
  BY <1>26, <1>a DEF CompensationRecord
<1>27. ASSUME NEW w \in Worker, Crash(w)
      PROVE  LeaseShape' /\ TableStep
  BY <1>27, <1>a DEF Crash
<1>28. ASSUME NEW w \in Worker, NEW r \in Run, Claim(w, r)
      PROVE  LeaseShape' /\ TableStep
  BY <1>28, <1>0, StatusKinds, ConstantAssumption
  DEF Claim, Claimable, Killed, LeaseShape, TableStep, RunTypes
<1>29. ASSUME NEW r \in Run, Enqueue(r)
      PROVE  LeaseShape' /\ TableStep
  BY <1>29, <1>0, StatusKinds DEF Enqueue, LeaseShape, TableStep, RunTypes
<1>30. ASSUME NEW r \in Run, Cancel(r)
      PROVE  LeaseShape' /\ TableStep
  BY <1>30, <1>0, StatusKinds DEF Cancel, CancelNow, LeaseShape, TableStep, RunTypes
<1>31. ASSUME NEW r \in Run, Pause(r)
      PROVE  LeaseShape' /\ TableStep
  BY <1>31, <1>0, StatusKinds DEF Pause, LeaseShape, TableStep, RunTypes
<1>32. ASSUME NEW r \in Run, Resume(r)
      PROVE  LeaseShape' /\ TableStep
  BY <1>32, <1>0, StatusKinds DEF Resume, ReleaseLease, LeaseShape, TableStep, RunTypes
<1>33. ASSUME NEW r \in Run, LeaseLapses(r)
      PROVE  LeaseShape' /\ TableStep
  BY <1>33, <1>a DEF LeaseLapses
<1>34. ASSUME NEW r \in Run, BackoffElapses(r)
      PROVE  LeaseShape' /\ TableStep
  BY <1>34, <1>a DEF BackoffElapses
<1>35. ASSUME NEW r \in Run, NEW i \in Step, Approve(r, i)
      PROVE  LeaseShape' /\ TableStep
  <2>1. CASE DecisionApplies(r, i)
    BY <1>35, <1>0, <2>1, StatusKinds
    DEF Approve, Requeue, DecisionApplies, ReleaseLease, LeaseShape, TableStep, RunTypes
  <2>2. CASE ~DecisionApplies(r, i)
    BY <1>35, <1>a, <2>2 DEF Approve, Requeue
  <2> QED
    BY <2>1, <2>2
<1>36. ASSUME NEW r \in Run, NEW i \in Step, Reject(r, i)
      PROVE  LeaseShape' /\ TableStep
  <2>1. CASE DecisionApplies(r, i)
    BY <1>36, <1>0, <2>1, StatusKinds
    DEF Reject, Requeue, DecisionApplies, ReleaseLease, LeaseShape, TableStep, RunTypes
  <2>2. CASE ~DecisionApplies(r, i)
    BY <1>36, <1>a, <2>2 DEF Reject, Requeue
  <2> QED
    BY <2>1, <2>2
<1>37. ASSUME NEW r \in Run, NEW i \in Step, ApprovalExpires(r, i)
      PROVE  LeaseShape' /\ TableStep
  BY <1>37, <1>a DEF ApprovalExpires
<1>38. ASSUME NEW scope \in Workflow \cup {Everything}, ActivateKillSwitch(scope)
      PROVE  LeaseShape' /\ TableStep
  BY <1>38, <1>0, StatusKinds DEF ActivateKillSwitch, LeaseShape, TableStep, RunTypes
<1>39. ASSUME NEW scope \in Workflow \cup {Everything}, DeactivateKillSwitch(scope)
      PROVE  LeaseShape' /\ TableStep
  BY <1>39, <1>a DEF DeactivateKillSwitch
<1>40. ASSUME NEW f \in Workflow, PolicyLapses(f)
      PROVE  LeaseShape' /\ TableStep
  BY <1>40, <1>a DEF PolicyLapses
<1>41. ASSUME UNCHANGED vars
      PROVE  LeaseShape' /\ TableStep
  BY <1>41, <1>a DEF vars
<1> QED
  BY <1>1, <1>2, <1>3, <1>4, <1>5, <1>6, <1>7, <1>8, <1>9, <1>10,
     <1>11, <1>12, <1>13, <1>14, <1>15, <1>16, <1>17, <1>18, <1>19,
     <1>20, <1>21, <1>22, <1>23, <1>24, <1>25, <1>26, <1>27, <1>28,
     <1>29, <1>30, <1>31, <1>32, <1>33, <1>34, <1>35, <1>36, <1>37,
     <1>38, <1>39, <1>40, <1>41
  DEF Next, WorkerStep, OperatorStep, TimeStep

\* In every reachable state a run has a lease exactly when its status says a
\* worker is driving it: no transaction of worker.py, approvals.py or
\* kill_switches.py writes one without the other.
THEOREM LeaseShapeHolds == Spec => []LeaseShape
<1>1. Init => LeaseShape
  BY StatusKinds DEF Init, LeaseShape
<1>2. TypeOK /\ LeaseShape /\ [Next]_vars => LeaseShape'
  BY LeaseStep
<1> QED
  BY <1>1, <1>2, TypeCorrect, PTL DEF Spec

\* No step of any actor, displaced workers and late human decisions included,
\* moves a run out of a terminal status.
THEOREM TerminalFinal == Spec => TerminalIsFinal
<1>1. TypeOK /\ LeaseShape /\ [Next]_vars
        => [\A r \in Run : status[r] \in Terminal => status'[r] = status[r]]_vars
  BY LeaseStep DEF TableStep
<1> QED
  BY <1>1, TypeCorrect, LeaseShapeHolds, PTL DEF Spec, TerminalIsFinal

\* No worker gains the lease of a run while a kill switch covers it
\* (claim_next_run's predicate is the only way to a lease).
THEOREM KilledNeverLeasedHolds == Spec => KilledNeverLeased
<1>1. TypeOK /\ LeaseShape /\ [Next]_vars
        => [\A r \in Run :
              Killed(r) /\ leasedBy'[r] # leasedBy[r] => leasedBy'[r] = NoWorker]_vars
  BY LeaseStep DEF TableStep
<1> QED
  BY <1>1, TypeCorrect, LeaseShapeHolds, PTL DEF Spec, KilledNeverLeased

-----------------------------------------------------------------------------
(* The calls to the outside world.  What a step row says bounds the calls   *)
(* made for it (RowInv), and a worker in the middle of a call is the only   *)
(* one there (FlightInv).  Neither is inductive alone: a dispatch needs     *)
(* that nobody acts on the row it finds, and a retry needs that the worker  *)
(* which queues it was alone.                                               *)


ActingPC == {"execute", "record", "comp_execute", "comp_record"}
CallingPC == {"execute", "comp_execute"}

\* What a row says of the calls made for it.
RowInv ==
  \A r \in Run, i \in Step :
    /\ step[r][i] = "none" => effects[r][i] = 0 /\ attempts[r][i] = 0
    /\ step[r][i] = "retrying" => effects[r][i] <= attempts[r][i]
    /\ effects[r][i] <= attempts[r][i] + 1
    /\ attempts[r][i] <= MaxRetry

\* What a row says of the worker whose call it is.
FlightInv ==
  \A w \in Worker, r \in Run, i \in Step :
    InFlight(w, r, i) =>
      /\ step[r][i] \notin {"none", "retrying"}
      /\ pc[w] \in {"execute", "record"} => tried[w] = attempts[r][i]
      /\ pc[w] \in CallingPC => effects[r][i] <= attempts[r][i]
      /\ \A v \in Worker : InFlight(v, r, i) => v = w

EffectInv == RowInv /\ FlightInv

\* Worker w alone moves, and not into a call.
Leaves(w) ==
  /\ pc'[w] \notin ActingPC
  /\ \A v \in Worker \ {w} :
       pc'[v] = pc[v] /\ job'[v] = job[v] /\ at'[v] = at[v] /\ tried'[v] = tried[v]

\* Rows change only into statuses that no dispatch starts from.
Closes ==
  \A r \in Run, i \in Step :
    step'[r][i] # step[r][i] => step'[r][i] \notin {"none", "retrying"}

\* A worker that moves anywhere but into a call, and closes rows if it writes
\* any, disturbs no account of calls.
LEMMA QuietLeave ==
  ASSUME EffectInv, NEW w \in Worker, Leaves(w), Closes, UNCHANGED <<attempts, effects>>
  PROVE  EffectInv'
<1>1. RowInv'
  BY DEF EffectInv, RowInv, Closes
<1>2. \A v \in Worker, r \in Run, i \in Step :
        InFlight(v, r, i)' =>
          v # w /\ InFlight(v, r, i) /\ pc'[v] = pc[v] /\ tried'[v] = tried[v]
  BY DEF Leaves, InFlight, ActingPC
<1>3. FlightInv'
  BY <1>2 DEF EffectInv, FlightInv, Closes
<1> QED
  BY <1>1, <1>3 DEF EffectInv

\* Nor does an actor that moves no worker.
LEMMA QuietWorld ==
  ASSUME EffectInv, UNCHANGED <<pc, job, at, tried>>, Closes, UNCHANGED <<attempts, effects>>
  PROVE  EffectInv'
<1>1. RowInv'
  BY DEF EffectInv, RowInv, Closes
<1>2. \A v \in Worker, r \in Run, i \in Step : InFlight(v, r, i)' <=> InFlight(v, r, i)
  BY DEF InFlight
<1>3. FlightInv'
  BY <1>2 DEF EffectInv, FlightInv, Closes
<1> QED
  BY <1>1, <1>3 DEF EffectInv

\* Returning to the poll loop is no call.
LEMMA ReturnLeaves ==
  ASSUME TypeOK, NEW w \in Worker, Return(w)
  PROVE  Leaves(w)
  BY DEF TypeOK, LocalTypes, Return, Leaves, ActingPC

\* Nor is moving to a control point outside a call,
LEMMA GotoLeaves ==
  ASSUME TypeOK, NEW w \in Worker, NEW l \in WorkerPC \ ActingPC, Goto(w, l),
         \A v \in Worker \ {w} : at'[v] = at[v], UNCHANGED <<job, tried>>
  PROVE  Leaves(w)
  BY DEF TypeOK, LocalTypes, Goto, Leaves

\* concluding,
LEMMA ConcludeLeaves ==
  ASSUME TypeOK, NEW w \in Worker, NEW s, Conclude(w, s), UNCHANGED <<job, at, tried>>
  PROVE  Leaves(w)
<1>1. "settle" \in WorkerPC \ ActingPC
  BY DEF WorkerPC, ActingPC
<1> QED
  BY <1>1, GotoLeaves DEF Conclude

\* advancing to the next step,
LEMMA AdvanceLeaves ==
  ASSUME TypeOK, NEW w \in Worker, NEW i, Advance(w, i), UNCHANGED <<job, tried>>
  PROVE  Leaves(w)
<1>1. {"settle", "renew"} \subseteq WorkerPC \ ActingPC
  BY DEF WorkerPC, ActingPC
<1>2. \E n : at' = [at EXCEPT ![w] = n]
  BY DEF Advance
<1>3. \A v \in Worker \ {w} : at'[v] = at[v]
  BY <1>2 DEF TypeOK, LocalTypes
<1>4. Goto(w, "settle") \/ Goto(w, "renew")
  BY DEF Advance, Conclude
<1> QED
  BY <1>1, <1>3, <1>4, GotoLeaves

\* entering the failed branch,
LEMMA FailRunLeaves ==
  ASSUME TypeOK, NEW w \in Worker, NEW c, FailRun(w, c)
  PROVE  Leaves(w)
<1>1. "comp_renew" \in WorkerPC \ ActingPC
  BY DEF WorkerPC, ActingPC
<1> QED
  BY <1>1, GotoLeaves, ReturnLeaves DEF FailRun

\* or going on to the next compensation.
LEMMA OutcomeLeaves ==
  ASSUME TypeOK, NEW w \in Worker, NEW ok, CompensationOutcome(w, ok)
  PROVE  Leaves(w)
<1>1. "comp_renew" \in WorkerPC \ ActingPC
  BY DEF WorkerPC, ActingPC
<1> QED
  BY <1>1, GotoLeaves DEF CompensationOutcome

\* A row written in any status but none and retrying is closed to dispatch,
LEMMA SetStepCloses ==
  ASSUME TypeOK, NEW r \in Run, NEW i \in Step,
         NEW s \in {"dispatched", "succeeded", "failed", "unknown"}, SetStep(r, i, s)
  PROVE  Closes
  BY DEF TypeOK, RowTypes, SetStep, Closes

\* as is a row not written.
LEMMA SameRows ==
  ASSUME UNCHANGED step
  PROVE  Closes
  BY DEF Closes

\* A dispatch starts from a row nobody is acting on: run_step's SELECT ... FOR
\* UPDATE finds it absent or retrying, and neither status survives a dispatch.
LEMMA DispatchEffects ==
  ASSUME TypeOK, EffectInv, NEW w \in Worker, NEW r \in Run, NEW i \in Step,
         step[r][i] \in {"none", "retrying"}, SetStep(r, i, "dispatched"),
         \A v \in Worker \ {w} :
           pc'[v] = pc[v] /\ job'[v] = job[v] /\ at'[v] = at[v] /\ tried'[v] = tried[v],
         \A j \in Step : \A s \in Run : InFlight(w, s, j)' => s = r /\ j = i,
         pc'[w] \in {"execute", "record"} => tried'[w] = attempts[r][i],
         UNCHANGED <<attempts, effects>>
  PROVE  EffectInv'
<1>1. /\ step'[r][i] = "dispatched"
      /\ \A s \in Run, j \in Step : s # r \/ j # i => step'[s][j] = step[s][j]
  BY DEF TypeOK, RowTypes, SetStep
<1>2. /\ attempts[r][i] \in Nat
      /\ effects[r][i] \in Nat
      /\ effects[r][i] <= attempts[r][i]
  BY DEF EffectInv, RowInv, TypeOK, RowTypes
<1>3. \A v \in Worker : ~InFlight(v, r, i)
  BY DEF EffectInv, FlightInv
<1>4. \A v \in Worker \ {w}, s \in Run, j \in Step :
        InFlight(v, s, j)' => InFlight(v, s, j) /\ (s # r \/ j # i)
  BY <1>3 DEF InFlight
<1>5. RowInv'
  BY <1>1 DEF EffectInv, RowInv
<1>6. FlightInv'
  <2> SUFFICES ASSUME NEW u \in Worker, NEW s \in Run, NEW j \in Step, InFlight(u, s, j)'
               PROVE  /\ step'[s][j] \notin {"none", "retrying"}
                      /\ pc'[u] \in {"execute", "record"} => tried'[u] = attempts'[s][j]
                      /\ pc'[u] \in CallingPC => effects'[s][j] <= attempts'[s][j]
                      /\ \A v \in Worker : InFlight(v, s, j)' => v = u
    BY DEF FlightInv
  <2>1. CASE u = w
    BY <2>1, <1>1, <1>2, <1>4
  <2>2. CASE u # w
    BY <2>2, <1>1, <1>4 DEF EffectInv, FlightInv
  <2> QED
    BY <2>1, <2>2
<1> QED
  BY <1>5, <1>6 DEF EffectInv

\* The adapter call made after a dispatch is the only one its attempt allows.
LEMMA CallEffects ==
  ASSUME TypeOK, EffectInv, NEW w \in Worker, NEW r \in Run, NEW i \in Step,
         InFlight(w, r, i), pc[w] \in CallingPC, CountEffect(r, i),
         \A v \in Worker \ {w} : pc'[v] = pc[v],
         pc'[w] = IF pc[w] = "execute" THEN "record" ELSE "comp_record",
         UNCHANGED <<step, attempts, job, at, tried>>
  PROVE  EffectInv'
<1>1. /\ effects'[r][i] = effects[r][i] + 1
      /\ \A s \in Run, j \in Step : s # r \/ j # i => effects'[s][j] = effects[s][j]
      /\ effects[r][i] \in Nat /\ attempts[r][i] \in Nat
  BY DEF TypeOK, RowTypes, CountEffect
<1>2. /\ effects[r][i] <= attempts[r][i]
      /\ step[r][i] \notin {"none", "retrying"}
      /\ \A v \in Worker : InFlight(v, r, i) => v = w
  BY DEF EffectInv, FlightInv
<1>3. RowInv'
  BY <1>1, <1>2 DEF EffectInv, RowInv
<1>4. pc'[w] \notin CallingPC
  BY DEF CallingPC
<1>5. \A v \in Worker, s \in Run, j \in Step : InFlight(v, s, j)' => InFlight(v, s, j)
  BY DEF InFlight, CallingPC
<1>6. pc'[w] \in {"execute", "record"} => pc[w] \in {"execute", "record"}
  BY DEF CallingPC
<1>7. FlightInv'
  <2> SUFFICES ASSUME NEW u \in Worker, NEW s \in Run, NEW j \in Step, InFlight(u, s, j)'
               PROVE  /\ step'[s][j] \notin {"none", "retrying"}
                      /\ pc'[u] \in {"execute", "record"} => tried'[u] = attempts'[s][j]
                      /\ pc'[u] \in CallingPC => effects'[s][j] <= attempts'[s][j]
                      /\ \A v \in Worker : InFlight(v, s, j)' => v = u
    BY DEF FlightInv
  <2>1. CASE u = w
    BY <2>1, <1>4, <1>5, <1>6 DEF EffectInv, FlightInv
  <2>2. CASE u # w
    BY <2>2, <1>1, <1>2, <1>5 DEF EffectInv, FlightInv
  <2> QED
    BY <2>1, <2>2
<1> QED
  BY <1>3, <1>7 DEF EffectInv

\* The transient failure of an owned run counts the attempt its one call has
\* used.
LEMMA RetryEffects ==
  ASSUME TypeOK, EffectInv, NEW w \in Worker, RecordTransient(w), Owns(w)
  PROVE  EffectInv'
<1> DEFINE r == job[w]
           i == at[w]
<1>1. /\ r \in Run /\ i \in Step
      /\ InFlight(w, r, i) /\ pc[w] = "record" /\ tried[w] < MaxRetry
  BY Members, Indexes DEF RecordTransient, TypeOK, ControlShape, InFlight
<1>2. /\ SetStep(r, i, "retrying")
      /\ attempts' = [attempts EXCEPT ![r][i] = tried[w] + 1]
      /\ Leaves(w)
      /\ UNCHANGED effects
  BY ReturnLeaves DEF RecordTransient, auxVars
<1>3. /\ tried[w] = attempts[r][i]
      /\ effects[r][i] <= attempts[r][i] + 1
      /\ \A v \in Worker : InFlight(v, r, i) => v = w
  BY <1>1 DEF EffectInv, RowInv, FlightInv
<1>4. /\ step'[r][i] = "retrying"
      /\ attempts'[r][i] = attempts[r][i] + 1
      /\ attempts[r][i] \in Nat /\ effects[r][i] \in Nat
      /\ \A s \in Run, j \in Step :
           s # r \/ j # i => step'[s][j] = step[s][j] /\ attempts'[s][j] = attempts[s][j]
  BY <1>1, <1>2, <1>3 DEF TypeOK, RowTypes, SetStep
<1>5. MaxRetry \in Nat
  BY ConstantAssumption
<1>6. RowInv'
  BY <1>1, <1>2, <1>3, <1>4, <1>5 DEF EffectInv, RowInv
<1>7. \A v \in Worker, s \in Run, j \in Step :
        InFlight(v, s, j)' =>
          InFlight(v, s, j) /\ v # w /\ pc'[v] = pc[v] /\ tried'[v] = tried[v]
  BY <1>2 DEF Leaves, InFlight, ActingPC
<1>8. \A v \in Worker, s \in Run, j \in Step : InFlight(v, s, j)' => s # r \/ j # i
  BY <1>3, <1>7
<1>9. FlightInv'
  BY <1>2, <1>4, <1>7, <1>8 DEF EffectInv, FlightInv
<1> QED
  BY <1>6, <1>9 DEF EffectInv


\* Every step of every actor keeps the account of calls: one step per action.
THEOREM EffectStep ==
  ASSUME TypeOK, EffectInv, [Next]_vars
  PROVE  EffectInv'
<1> USE DEF runVars, leaseVars, flagVars, stepVars, humanVars, localVars, auxVars, GateUnchanged
<1>0. \A w \in Worker :
        /\ pc[w] # "idle" => job[w] \in Run
        /\ pc[w] \in ForwardPC => job[w] \in Run /\ at[w] \in Step
        /\ pc[w] \in CompensationPC =>
             job[w] \in Run /\ at[w] \in Compensable /\ CompensateRef[at[w]] \in Step
  BY Indexes, Members DEF TypeOK, ControlShape
<1>a. ASSUME NEW w \in Worker, Leaves(w), UNCHANGED <<step, attempts, effects>>
      PROVE  EffectInv'
  BY <1>a, QuietLeave, SameRows
<1>b. ASSUME UNCHANGED <<pc, job, at, tried, step, attempts, effects>>
      PROVE  EffectInv'
  BY <1>b, QuietWorld, SameRows
<1>c. ASSUME NEW w \in Worker, pc[w] \in ForwardPC,
             NEW s \in {"succeeded", "failed", "unknown"}, SetStep(job[w], at[w], s),
             Leaves(w), UNCHANGED <<attempts, effects>>
      PROVE  EffectInv'
  BY <1>0, <1>c, SetStepCloses, QuietLeave
<1>d. ASSUME NEW w \in Worker, pc[w] \in CompensationPC,
             NEW s \in {"succeeded", "failed", "unknown"}, SetStep(job[w], CompensateRef[at[w]], s),
             Leaves(w), UNCHANGED <<attempts, effects>>
      PROVE  EffectInv'
  BY <1>0, <1>d, SetStepCloses, QuietLeave
<1>e. ASSUME NEW w \in Worker, NEW s, StopAtGate(w, s), UNCHANGED effects
      PROVE  EffectInv'
  BY <1>a, <1>e, ReturnLeaves DEF StopAtGate
<1>f. ASSUME NEW w \in Worker, NEW from \in {"none", "retrying"}, AtGate(w, from),
             Dispatch(w), UNCHANGED effects
      PROVE  EffectInv'
  <2>1. job[w] \in Run /\ at[w] \in Step /\ step[job[w]][at[w]] \in {"none", "retrying"}
    BY <1>0, <1>f, Members DEF AtGate
  <2>2. /\ SetStep(job[w], at[w], "dispatched")
        /\ pc' = [pc EXCEPT ![w] = "execute"]
        /\ tried' = [tried EXCEPT ![w] = attempts[job[w]][at[w]]]
        /\ UNCHANGED <<attempts, job, at>>
    BY <1>f DEF Dispatch, Goto
  <2>3. /\ \A v \in Worker \ {w} :
             pc'[v] = pc[v] /\ job'[v] = job[v] /\ at'[v] = at[v] /\ tried'[v] = tried[v]
        /\ pc'[w] = "execute" /\ tried'[w] = attempts[job[w]][at[w]]
    BY <2>2 DEF TypeOK, LocalTypes
  <2>4. \A j \in Step : \A s \in Run : InFlight(w, s, j)' => s = job[w] /\ j = at[w]
    BY <2>2, <2>3 DEF InFlight
  <2> QED
    BY <1>f, <2>1, <2>2, <2>3, <2>4, DispatchEffects
<1>1. ASSUME NEW w \in Worker, MarkRunning(w)
      PROVE  EffectInv'
  BY <1>1, <1>a, AdvanceLeaves DEF MarkRunning
<1>2. ASSUME NEW w \in Worker, RenewLease(w)
      PROVE  EffectInv'
  <2> {"kill_check"} \subseteq WorkerPC \ ActingPC
    BY DEF WorkerPC, ActingPC
  <2>1. Leaves(w)
    BY <1>2, ReturnLeaves, ConcludeLeaves, GotoLeaves DEF RenewLease
  <2> QED
    BY <1>2, <1>a, <2>1 DEF RenewLease
<1>3. ASSUME NEW w \in Worker, CheckKillSwitch(w)
      PROVE  EffectInv'
  <2> {"gate"} \subseteq WorkerPC \ ActingPC
    BY DEF WorkerPC, ActingPC
  <2>1. Leaves(w)
    BY <1>3, ConcludeLeaves, GotoLeaves DEF CheckKillSwitch
  <2> QED
    BY <1>3, <1>a, <2>1 DEF CheckKillSwitch
<1>4. ASSUME NEW w \in Worker, Settle(w)
      PROVE  EffectInv'
  BY <1>4, <1>a, ReturnLeaves DEF Settle
<1>5. ASSUME NEW w \in Worker, SkipSucceeded(w)
      PROVE  EffectInv'
  BY <1>5, <1>a, AdvanceLeaves DEF SkipSucceeded
<1>6. ASSUME NEW w \in Worker, SkipFailed(w)
      PROVE  EffectInv'
  BY <1>6, <1>a, FailRunLeaves DEF SkipFailed
<1>7. ASSUME NEW w \in Worker, SkipUnknown(w)
      PROVE  EffectInv'
  BY <1>7, <1>e DEF SkipUnknown
<1>8. ASSUME NEW w \in Worker, MarkUnknown(w)
      PROVE  EffectInv'
  BY <1>8, <1>c, ConcludeLeaves, Members DEF MarkUnknown, AtGate
<1>9. ASSUME NEW w \in Worker, Redispatch(w)
      PROVE  EffectInv'
  BY <1>9, <1>e, <1>f DEF Redispatch
<1>10. ASSUME NEW w \in Worker, BlockedByPolicy(w)
      PROVE  EffectInv'
  BY <1>10, <1>e DEF BlockedByPolicy
<1>11. ASSUME NEW w \in Worker, GateUndispatchable(w)
      PROVE  EffectInv'
  <2> {"step_failed"} \subseteq WorkerPC \ ActingPC
    BY DEF WorkerPC, ActingPC
  <2>1. CASE StopAtGate(w, "preview_blocked")
    BY <1>11, <1>e, <2>1 DEF GateUndispatchable
  <2>2. CASE Dispatch(w)
    BY <1>11, <1>f, <2>2 DEF GateUndispatchable
  <2>3. CASE /\ SetStep(job[w], at[w], "failed")
             /\ Goto(w, "step_failed")
             /\ UNCHANGED <<attempts, job, at, tried>>
    BY <1>11, <1>c, <2>3, GotoLeaves, Members DEF GateUndispatchable, AtGate
  <2> QED
    BY <1>11, <2>1, <2>2, <2>3 DEF GateUndispatchable
<1>12. ASSUME NEW w \in Worker, RequestApproval(w)
      PROVE  EffectInv'
  BY <1>12, <1>a, ConcludeLeaves DEF RequestApproval
<1>13. ASSUME NEW w \in Worker, AwaitApproval(w)
      PROVE  EffectInv'
  BY <1>13, <1>e DEF AwaitApproval
<1>14. ASSUME NEW w \in Worker, FirstDispatch(w)
      PROVE  EffectInv'
  BY <1>14, <1>e, <1>f DEF FirstDispatch
<1>15. ASSUME NEW w \in Worker, Execute(w)
      PROVE  EffectInv'
  <2>1. /\ job[w] \in Run /\ at[w] \in Step
        /\ InFlight(w, job[w], at[w]) /\ pc[w] = "execute"
    BY <1>15, <1>0, Members DEF Execute, InFlight
  <2>2. pc'[w] = "record" /\ \A v \in Worker \ {w} : pc'[v] = pc[v]
    BY <1>15 DEF Execute, Goto, TypeOK, LocalTypes
  <2> QED
    BY <1>15, <2>1, <2>2, CallEffects DEF Execute, CallingPC
<1>16. ASSUME NEW w \in Worker, FailUnregistered(w)
      PROVE  EffectInv'
  <2> {"step_failed"} \subseteq WorkerPC \ ActingPC
    BY DEF WorkerPC, ActingPC
  <2> QED
    BY <1>16, <1>c, GotoLeaves, Members DEF FailUnregistered
<1>17. ASSUME NEW w \in Worker, RecordSuccess(w)
      PROVE  EffectInv'
  BY <1>17, <1>c, AdvanceLeaves, Members DEF RecordSuccess
<1>18. ASSUME NEW w \in Worker, RecordTransient(w)
      PROVE  EffectInv'
  <2>1. CASE Owns(w)
    BY <1>18, <2>1, RetryEffects
  <2>2. CASE ~Owns(w)
    BY <1>18, <1>a, <2>2, ReturnLeaves DEF RecordTransient
  <2> QED
    BY <2>1, <2>2
<1>19. ASSUME NEW w \in Worker, RecordFailure(w)
      PROVE  EffectInv'
  <2> {"step_failed"} \subseteq WorkerPC \ ActingPC
    BY DEF WorkerPC, ActingPC
  <2> QED
    BY <1>19, <1>c, GotoLeaves, Members DEF RecordFailure
<1>20. ASSUME NEW w \in Worker, AfterFailure(w)
      PROVE  EffectInv'
  BY <1>20, <1>a, FailRunLeaves DEF AfterFailure
<1>21. ASSUME NEW w \in Worker, CompensationDone(w)
      PROVE  EffectInv'
  BY <1>21, <1>a, ConcludeLeaves DEF CompensationDone
<1>22. ASSUME NEW w \in Worker, CompensationRenew(w)
      PROVE  EffectInv'
  <2> {"comp_gate"} \subseteq WorkerPC \ ActingPC
    BY DEF WorkerPC, ActingPC
  <2>1. CASE Return(w)
    BY <1>22, <1>a, <2>1, ReturnLeaves DEF CompensationRenew
  <2>2. CASE ~Return(w)
    <3>1. /\ Goto(w, "comp_gate") /\ UNCHANGED <<job, tried>>
          /\ \A v \in Worker \ {w} : at'[v] = at[v]
      BY <1>22, <2>2 DEF CompensationRenew, TypeOK, LocalTypes
    <3> QED
      BY <1>22, <1>a, <3>1, GotoLeaves DEF CompensationRenew
  <2> QED
    BY <2>1, <2>2
<1>23. ASSUME NEW w \in Worker, CompensationGate(w)
      PROVE  EffectInv'
  <2> DEFINE c == CompensateRef[at[w]]
  <2>0. pc[w] \in CompensationPC /\ job[w] \in Run /\ at[w] \in Compensable /\ c \in Step
    BY <1>23, <1>0, Members DEF CompensationGate
  <2>1. CASE step[job[w]][c] = "none"
    <3>1. /\ SetStep(job[w], c, "dispatched")
          /\ pc' = [pc EXCEPT ![w] = "comp_execute"]
          /\ UNCHANGED <<attempts, effects, job, at, tried>>
      BY <1>23, <2>1 DEF CompensationGate, Goto
    <3>2. /\ \A v \in Worker \ {w} :
               pc'[v] = pc[v] /\ job'[v] = job[v] /\ at'[v] = at[v] /\ tried'[v] = tried[v]
          /\ pc'[w] = "comp_execute"
      BY <3>1 DEF TypeOK, LocalTypes
    <3>3. \A j \in Step : \A s \in Run : InFlight(w, s, j)' => s = job[w] /\ j = c
      BY <3>1, <3>2 DEF InFlight
    <3> QED
      BY <2>0, <2>1, <3>1, <3>2, <3>3, DispatchEffects
  <2>2. CASE step[job[w]][c] = "dispatched"
    BY <1>23, <1>d, <2>0, <2>2, OutcomeLeaves DEF CompensationGate
  <2>3. CASE step[job[w]][c] \notin {"none", "dispatched"}
    <3>1. Leaves(w) /\ UNCHANGED <<step, attempts, effects>>
      BY <1>23, <2>3, OutcomeLeaves DEF CompensationGate
    <3> QED
      BY <1>a, <3>1
  <2> QED
    BY <2>1, <2>2, <2>3
<1>24. ASSUME NEW w \in Worker, CompensationRefused(w)
      PROVE  EffectInv'
  BY <1>24, <1>d, OutcomeLeaves, Members DEF CompensationRefused
<1>25. ASSUME NEW w \in Worker, CompensationExecute(w)
      PROVE  EffectInv'
  <2>1. /\ job[w] \in Run /\ CompensateRef[at[w]] \in Step
        /\ InFlight(w, job[w], CompensateRef[at[w]]) /\ pc[w] = "comp_execute"
    BY <1>25, <1>0, Members DEF CompensationExecute, InFlight
  <2>2. pc'[w] = "comp_record" /\ \A v \in Worker \ {w} : pc'[v] = pc[v]
    BY <1>25 DEF CompensationExecute, Goto, TypeOK, LocalTypes
  <2> QED
    BY <1>25, <2>1, <2>2, CallEffects DEF CompensationExecute, CallingPC
<1>26. ASSUME NEW w \in Worker, CompensationRecord(w)
      PROVE  EffectInv'
  BY <1>26, <1>d, OutcomeLeaves, Members DEF CompensationRecord
<1>27. ASSUME NEW w \in Worker, Crash(w)
      PROVE  EffectInv'
  BY <1>27, <1>a, ReturnLeaves DEF Crash
<1>28. ASSUME NEW w \in Worker, NEW r \in Run, Claim(w, r)
      PROVE  EffectInv'
  <2> {"mark"} \subseteq WorkerPC \ ActingPC
    BY DEF WorkerPC, ActingPC
  <2>1. Leaves(w)
    BY <1>28 DEF Claim, Goto, Leaves, TypeOK, LocalTypes
  <2> QED
    BY <1>28, <1>a, <2>1 DEF Claim
<1>29. ASSUME NEW r \in Run, Enqueue(r)
      PROVE  EffectInv'
  BY <1>29, <1>b DEF Enqueue, OnlyRuns
<1>30. ASSUME NEW r \in Run, Cancel(r)
      PROVE  EffectInv'
  BY <1>30, <1>b DEF Cancel, OnlyRuns
<1>31. ASSUME NEW r \in Run, Pause(r)
      PROVE  EffectInv'
  BY <1>31, <1>b DEF Pause, OnlyRuns
<1>32. ASSUME NEW r \in Run, Resume(r)
      PROVE  EffectInv'
  BY <1>32, <1>b DEF Resume, OnlyRuns
<1>33. ASSUME NEW r \in Run, LeaseLapses(r)
      PROVE  EffectInv'
  BY <1>33, <1>b DEF LeaseLapses
<1>34. ASSUME NEW r \in Run, BackoffElapses(r)
      PROVE  EffectInv'
  BY <1>34, <1>b DEF BackoffElapses
<1>35. ASSUME NEW r \in Run, NEW i \in Step, Approve(r, i)
      PROVE  EffectInv'
  BY <1>35, <1>b DEF Approve, DecisionUnchanged
<1>36. ASSUME NEW r \in Run, NEW i \in Step, Reject(r, i)
      PROVE  EffectInv'
  <2>1. Closes
    BY <1>36, SetStepCloses, SameRows DEF Reject
  <2> QED
    BY <1>36, <2>1, QuietWorld DEF Reject, DecisionUnchanged
<1>37. ASSUME NEW r \in Run, NEW i \in Step, ApprovalExpires(r, i)
      PROVE  EffectInv'
  BY <1>37, <1>b DEF ApprovalExpires
<1>38. ASSUME NEW scope \in Workflow \cup {Everything}, ActivateKillSwitch(scope)
      PROVE  EffectInv'
  BY <1>38, <1>b DEF ActivateKillSwitch
<1>39. ASSUME NEW scope \in Workflow \cup {Everything}, DeactivateKillSwitch(scope)
      PROVE  EffectInv'
  BY <1>39, <1>b DEF DeactivateKillSwitch
<1>40. ASSUME NEW f \in Workflow, PolicyLapses(f)
      PROVE  EffectInv'
  BY <1>40, <1>b DEF PolicyLapses
<1>41. ASSUME UNCHANGED vars
      PROVE  EffectInv'
  BY <1>41, <1>b DEF vars
<1> QED
  BY <1>1, <1>2, <1>3, <1>4, <1>5, <1>6, <1>7, <1>8, <1>9, <1>10,
     <1>11, <1>12, <1>13, <1>14, <1>15, <1>16, <1>17, <1>18, <1>19,
     <1>20, <1>21, <1>22, <1>23, <1>24, <1>25, <1>26, <1>27, <1>28,
     <1>29, <1>30, <1>31, <1>32, <1>33, <1>34, <1>35, <1>36, <1>37,
     <1>38, <1>39, <1>40, <1>41
  DEF Next, WorkerStep, OperatorStep, TimeStep

\* The account of calls is kept in every reachable state.
THEOREM EffectsAccounted == Spec => []EffectInv
<1>1. Init => EffectInv
  <2> SUFFICES ASSUME Init PROVE EffectInv
    OBVIOUS
  <2>1. RowInv
    BY ConstantAssumption DEF Init, RowInv
  <2>2. FlightInv
    BY DEF Init, FlightInv, InFlight
  <2> QED
    BY <2>1, <2>2 DEF EffectInv
<1>2. TypeOK /\ EffectInv /\ [Next]_vars => EffectInv'
  BY EffectStep
<1> QED
  BY <1>1, <1>2, TypeCorrect, PTL DEF Spec

\* However leases lapse and workers are displaced, no two workers are ever
\* between the dispatch and the record of the same step (run_step,
\* _dispatch_compensation_step).
THEOREM SoleExecutorHolds == Spec => []SoleExecutor
<1>1. EffectInv => SoleExecutor
  BY DEF EffectInv, FlightInv, SoleExecutor
<1> QED
  BY <1>1, EffectsAccounted, PTL

\* For every graph, any number of workers and any retry limit, adapter.execute
\* and compensate are called at most once per recorded attempt, and attempts
\* never exceed MAX_RETRY_ATTEMPTS.
THEOREM AtMostOncePerAttemptHolds == Spec => []AtMostOncePerAttempt
<1>1. EffectInv => AtMostOncePerAttempt
  BY DEF EffectInv, RowInv, AtMostOncePerAttempt
<1> QED
  BY <1>1, EffectsAccounted, PTL

-----------------------------------------------------------------------------
(* What a run's rows, its status and its workers say of each other: the     *)
(* four properties of a run's outcome, and what they rest on.  A request is *)
(* open only for a step that nobody has dispatched, the steps are reached   *)
(* in order, and a run that is being compensated stays with the worker that *)
(* began it.                                                                *)

UndoPC == {"comp_renew"} \cup CompensationPC
Undone == {"compensating", "compensated", "compensation_failed"}

Sanctioned(r, i) ==
  /\ PolicyOf(r).mode # "preview_only"
  /\ i \in HighImpact \/ PolicyOf(r).mode = "per_run" => approval[r][i] = "approved"
Below(r, n) == \A j \in ActionStep : j < n => step[r][j] = "succeeded"
HasFailed(r) == \E i \in ActionStep : step[r][i] = "failed"
Undo(r, i) == step[r][CompensateRef[i]]

\* A run's rows: requests are for steps not dispatched, what is called again
\* has been through the gate, steps are reached in order, and only action
\* steps and compensations are called.
RowsInv ==
  \A r \in Run :
    /\ \A i \in Step :
         approval[r][i] = "pending" =>
           /\ i \in ActionStep
           /\ step[r][i] = "none"
           /\ Adapter[i] = "authorized"
           /\ RequiresApproval(r, i)
    /\ \A i \in ActionStep :
         step[r][i] \in {"dispatched", "retrying"} => Adapter[i] = "missing" \/ Sanctioned(r, i)
    /\ Below(r, cursor[r])
    /\ \A i \in ActionStep : step[r][i] # "none" => Below(r, i)
    /\ \A i \in Step :
         effects[r][i] > 0 => i \in ActionStep \/ \E j \in Compensable : CompensateRef[j] = i

\* Its status: what failed has a failed row, and a preview is one.
StatusInv ==
  \A r \in Run :
    /\ status[r] \in Undone \cup {"failed"} => HasFailed(r)
    /\ status[r] = "preview_blocked" => PolicyOf(r).mode = "preview_only"

\* Everything that succeeded and is not on the list has been compensated, or has
\* at least been tried.
Compensated(w, rest) ==
  \A i \in Compensable \ rest :
    step[job[w]][i] = "succeeded" =>
      /\ Undo(job[w], i) \notin {"none", "dispatched"}
      /\ clean[w] => Undo(job[w], i) = "succeeded"

\* What a worker at a control point may rely on.
Place(w) ==
  /\ pc[w] \in ForwardPC => Below(job[w], at[w])
  /\ pc[w] \in {"execute", "record"} => Adapter[at[w]] = "missing" \/ Sanctioned(job[w], at[w])
  /\ pc[w] = "step_failed" => step[job[w]][at[w]] = "failed"
  /\ pc[w] \in CompensationPC => NextToCompensate(w, at[w])
  /\ pc[w] \in UndoPC =>
       /\ status[job[w]] \in Undone
       /\ \A i \in todo[w] : step[job[w]][i] = "succeeded"
       /\ Compensated(w, todo[w])
  /\ pc[w] = "settle" =>
       /\ verdict[w] \notin {"failed", "preview_blocked"}
       /\ verdict[w] = "succeeded" => Below(job[w], NumSteps)
       /\ verdict[w] \in Undone => status[job[w]] \in Undone
       /\ verdict[w] = "compensated" =>
            \A i \in Compensable : step[job[w]][i] = "succeeded" => Undo(job[w], i) = "succeeded"

\* A row whose step is in a call is dispatched, or taken for ambiguous.
CallInv ==
  \A w \in Worker, r \in Run, i \in Step :
    InFlight(w, r, i) => step[r][i] \in {"dispatched", "unknown"}

\* A run that is compensating is driven by nobody but the worker compensating it.
OwnerAt(w) ==
  job[w] \in Run /\ Owns(w) /\ status[job[w]] = "compensating" =>
    pc[w] \in UndoPC \/ (pc[w] = "settle" /\ verdict[w] \in Undone)
OwnerInv == \A w \in Worker : OwnerAt(w)

OutcomeInv ==
  /\ RowsInv /\ StatusInv /\ CallInv /\ OwnerInv
  /\ \A w \in Worker : Place(w)
  /\ EffectsAuthorized /\ CompensationSound /\ CompensationDescends /\ OutcomeTruthful

\* What a step may do to a row.
RowMove(r, i) ==
  \/ step'[r][i] = step[r][i]
  \/ /\ i \in ActionStep
     /\ \/ /\ step[r][i] \in {"none", "retrying"}
           /\ step'[r][i] = "dispatched"
           /\ Adapter[i] = "missing" \/ Sanctioned(r, i)
        \/ step[r][i] = "none" /\ step'[r][i] = "failed"
        \/ /\ step[r][i] \in {"dispatched", "unknown"}
           /\ step'[r][i] = "retrying"
           /\ Adapter[i] = "missing" \/ Sanctioned(r, i)
     /\ Below(r, i)
  \/ step[r][i] \in {"dispatched", "unknown"} /\ step'[r][i] \in {"unknown", "succeeded", "failed"}
  \/ \E j \in Compensable :
       /\ i = CompensateRef[j]
       /\ step[r][i] = "none" /\ step'[r][i] = "dispatched"
       /\ status[r] \in Undone
       /\ step[r][j] = "succeeded"
       /\ \A k \in Compensable :
            j < k /\ step[r][k] = "succeeded" => Undo(r, k) \notin {"none", "dispatched"}

\* What it may do to a run's rows, and to its status.
RowsMove(r) ==
  /\ \A i \in Step :
       /\ RowMove(r, i)
       /\ approval[r][i] = "approved" => approval'[r][i] = "approved"
       /\ approval'[r][i] = "pending" =>
            /\ step'[r][i] = "none"
            /\ \/ approval[r][i] = "pending"
               \/ i \in ActionStep /\ Adapter[i] = "authorized" /\ RequiresApproval(r, i)
       /\ effects'[r][i] > 0 =>
            \/ effects[r][i] > 0
            \/ i \in ActionStep /\ Sanctioned(r, i)
            \/ \E j \in Compensable : CompensateRef[j] = i
  /\ PolicyOf(r)'.mode = PolicyOf(r).mode
StatusMove(r) ==
  /\ status[r] \in Undone => status'[r] \in Undone
  /\ status'[r] # status[r] =>
       /\ status'[r] \in Undone \cup {"failed"} => HasFailed(r)
       /\ status'[r] = "succeeded" => Below(r, NumSteps)
       /\ status'[r] = "compensated" =>
            \A i \in Compensable : step[r][i] = "succeeded" => Undo(r, i) = "succeeded"
       /\ status'[r] = "preview_blocked" => PolicyOf(r).mode = "preview_only"
TableMove(r) == RowsMove(r) /\ StatusMove(r) /\ Below(r, cursor'[r])

\* What was so of a run stays so.
Onward(r) ==
  /\ \A i \in Step : step[r][i] \in {"succeeded", "failed"} => step'[r][i] = step[r][i]
  /\ \A i \in Step : step[r][i] # "none" => step'[r][i] # "none"
  /\ \A i \in Compensable : Undo(r, i) \notin {"none", "dispatched"} => Undo(r, i)' \notin {"none", "dispatched"}
  /\ HasFailed(r) => HasFailed(r)' /\ \A i \in ActionStep : step'[r][i] = "succeeded" => step[r][i] = "succeeded"
  /\ \A n \in 0 .. NumSteps : Below(r, n) => Below(r, n)'
  /\ \A i \in Step : Sanctioned(r, i) => Sanctioned(r, i)'
  /\ \A i \in Step : RequiresApproval(r, i) => RequiresApproval(r, i)'
  /\ status[r] \in Undone => status'[r] \in Undone

\* The number of a run's rows never falls, and with it what asks for approval
\* goes on asking (_run_dispatch_totals, evaluate_approval_requirement).
LEMMA CountStays ==
  ASSUME NEW r \in Run, NEW i \in Step, RequiresApproval(r, i),
         \A j \in Step : step[r][j] # "none" => step'[r][j] # "none",
         PolicyOf(r)'.mode = PolicyOf(r).mode
  PROVE  RequiresApproval(r, i)'
<1> DEFINE before == {j \in Step : step[r][j] # "none"}
           after == {j \in Step : step'[r][j] # "none"}
<1>1. IsFiniteSet(Step)
  <2>1. 0 \in Int /\ NumSteps - 1 \in Int
    BY Indexes
  <2> QED
    BY <2>1, FS_Interval DEF Step
<1>2. IsFiniteSet(after) /\ after \subseteq Step
  BY <1>1, FS_Subset
<1>3. Cardinality(before) <= Cardinality(after)
  BY <1>2, FS_Subset
<1>4. Cardinality(before) \in Nat /\ Cardinality(after) \in Nat
  BY <1>1, <1>2, FS_Subset, FS_CardinalityType
<1>5. DispatchCount(r) = Cardinality(before) /\ DispatchCount(r)' = Cardinality(after)
  BY DEF DispatchCount
<1>6. CountLimit \in Nat
  BY ConstantAssumption
<1> QED
  BY <1>3, <1>4, <1>5, <1>6 DEF RequiresApproval

\* Rows in a final status, what was approved and what was succeeded past stay
\* so, and nothing succeeds in a run with a failed row.
LEMMA TableOnward ==
  ASSUME TypeOK, RowsInv, NEW r \in Run, TableMove(r)
  PROVE  Onward(r)
<1>1. \A i \in Step : step[r][i] \in {"succeeded", "failed"} => step'[r][i] = step[r][i]
  BY DEF TableMove, RowsMove, StatusMove, RowMove
<1>2. \A i \in Step : step[r][i] # "none" => step'[r][i] # "none"
  BY DEF TableMove, RowsMove, StatusMove, RowMove
<1>3. \A i \in Compensable : Undo(r, i) \notin {"none", "dispatched"} => Undo(r, i)' \notin {"none", "dispatched"}
  BY Indexes, GraphAssumption DEF TableMove, RowsMove, StatusMove, RowMove, Undo, Compensable
<1>4. ASSUME HasFailed(r)
      PROVE  HasFailed(r)' /\ \A i \in ActionStep : step'[r][i] = "succeeded" => step[r][i] = "succeeded"
  <2>1. PICK b \in ActionStep : step[r][b] = "failed"
    BY <1>4 DEF HasFailed
  <2>2. HasFailed(r)'
    BY <1>1, <2>1, Indexes DEF HasFailed
  <2>3. ASSUME NEW i \in ActionStep, step'[r][i] = "succeeded", step[r][i] # "succeeded"
        PROVE  FALSE
    <3>1. step[r][i] \in {"dispatched", "unknown"}
      BY <2>3, Indexes DEF TableMove, RowsMove, StatusMove, RowMove
    <3>2. Below(r, i) /\ Below(r, b)
      BY <2>1, <3>1 DEF RowsInv
    <3>3. i \in Nat /\ b \in Nat
      BY Indexes DEF Step
    <3> QED
      BY <2>1, <3>1, <3>2, <3>3 DEF Below
  <2> QED
    BY <2>2, <2>3
<1>5. \A n \in 0 .. NumSteps : Below(r, n) => Below(r, n)'
  BY <1>1, Indexes DEF Below
<1>6. \A i \in Step : Sanctioned(r, i) => Sanctioned(r, i)'
  BY DEF Sanctioned, TableMove, RowsMove, StatusMove
<1>7. \A i \in Step : RequiresApproval(r, i) => RequiresApproval(r, i)'
  BY <1>2, CountStays DEF TableMove, RowsMove, StatusMove
<1> QED
  BY <1>1, <1>2, <1>3, <1>4, <1>5, <1>6, <1>7 DEF Onward, TableMove, RowsMove, StatusMove

\* The tables of a run tell the truth after a step that moves them so: one step
\* per part of the invariant.
LEMMA TableKeeps ==
  ASSUME TypeOK, TypeOK', EffectInv', OutcomeInv, \A r \in Run : TableMove(r)
  PROVE  /\ RowsInv' /\ StatusInv' /\ EffectsAuthorized' /\ CompensationSound'
         /\ CompensationDescends' /\ OutcomeTruthful'
<1>0. /\ RowsInv /\ StatusInv /\ EffectsAuthorized /\ CompensationSound
      /\ CompensationDescends /\ OutcomeTruthful
  BY DEF OutcomeInv
<1>1. \A r \in Run : Onward(r)
  BY <1>0, TableOnward
<1>2. /\ Compensable \subseteq ActionStep /\ ActionStep \subseteq Step
      /\ \A i \in Compensable : CompensateRef[i] \in Step \ ActionStep
      /\ \A i, j \in Compensable : CompensateRef[i] = CompensateRef[j] => i = j
      /\ \A i \in Step : i \in 0 .. NumSteps /\ i \in Nat
      /\ NumSteps \in 0 .. NumSteps
  BY GraphAssumption, Indexes DEF Compensable, Step
<1>3. \A r \in Run : cursor'[r] \in 0 .. NumSteps
  BY DEF TypeOK, RunTypes
<1>4. RowsInv'
  <2> SUFFICES ASSUME NEW r \in Run
               PROVE  /\ \A i \in Step :
                           approval'[r][i] = "pending" =>
                             /\ i \in ActionStep
                             /\ step'[r][i] = "none"
                             /\ Adapter[i] = "authorized"
                             /\ RequiresApproval(r, i)'
                      /\ \A i \in ActionStep :
                           step'[r][i] \in {"dispatched", "retrying"} =>
                             Adapter[i] = "missing" \/ Sanctioned(r, i)'
                      /\ Below(r, cursor[r])'
                      /\ \A i \in ActionStep : step'[r][i] # "none" => Below(r, i)'
                      /\ \A i \in Step :
                           effects'[r][i] > 0 => i \in ActionStep \/ \E j \in Compensable : CompensateRef[j] = i
    BY DEF RowsInv
  <2>0. TableMove(r) /\ Onward(r)
    BY <1>1
  <2>1. \A i \in Step :
          approval'[r][i] = "pending" =>
            /\ i \in ActionStep /\ step'[r][i] = "none" /\ Adapter[i] = "authorized"
            /\ RequiresApproval(r, i)'
    BY <1>0, <2>0 DEF TableMove, RowsMove, StatusMove, Onward, RowsInv
  <2>2. ASSUME NEW i \in ActionStep, step'[r][i] \in {"dispatched", "retrying"}
        PROVE  Adapter[i] = "missing" \/ Sanctioned(r, i)'
    <3>1. RowMove(r, i) /\ i \in Step
      BY <1>2, <2>0 DEF TableMove, RowsMove, StatusMove
    <3>2. Adapter[i] = "missing" \/ Sanctioned(r, i)
      BY <1>0, <1>2, <2>2, <3>1 DEF RowMove, RowsInv
    <3> QED
      BY <2>0, <3>1, <3>2 DEF Onward
  <2>3. Below(r, cursor[r])'
    <3>1. Below(r, cursor'[r])
      BY <2>0 DEF TableMove, RowsMove, StatusMove
    <3>2. \A j \in ActionStep : step[r][j] = "succeeded" => step'[r][j] = "succeeded"
      BY <1>2, <2>0 DEF Onward
    <3> QED
      BY <3>1, <3>2 DEF Below
  <2>4. ASSUME NEW i \in ActionStep, step'[r][i] # "none"
        PROVE  Below(r, i)'
    <3>1. RowMove(r, i) /\ i \in 0 .. NumSteps
      BY <1>2, <2>0 DEF TableMove, RowsMove, StatusMove
    <3>2. Below(r, i)
      BY <1>0, <1>2, <2>4, <3>1 DEF RowMove, RowsInv
    <3> QED
      BY <2>0, <3>1, <3>2 DEF Onward
  <2>5. \A i \in Step :
          effects'[r][i] > 0 => i \in ActionStep \/ \E j \in Compensable : CompensateRef[j] = i
    BY <1>0, <2>0 DEF TableMove, RowsMove, StatusMove, RowsInv
  <2> QED
    BY <2>1, <2>2, <2>3, <2>4, <2>5
<1>5. StatusInv'
  BY <1>0, <1>1 DEF StatusInv, TableMove, RowsMove, StatusMove, Onward
<1>6. EffectsAuthorized'
  BY <1>0, <1>1, <1>2 DEF EffectsAuthorized, TableMove, RowsMove, StatusMove, Onward, Sanctioned
<1>7. CompensationSound'
  <2> SUFFICES ASSUME NEW r \in Run, NEW i \in Compensable, step'[r][CompensateRef[i]] # "none"
               PROVE  step'[r][i] = "succeeded" /\ status'[r] \in Undone
    BY DEF CompensationSound, Undone
  <2>1. RowMove(r, CompensateRef[i]) /\ Onward(r)
    BY <1>1, <1>2 DEF TableMove, RowsMove, StatusMove
  <2>2. step[r][i] = "succeeded" /\ status[r] \in Undone
    BY <1>0, <1>2, <2>1 DEF RowMove, CompensationSound, Undone
  <2> QED
    BY <1>2, <2>1, <2>2 DEF Onward
<1>8. CompensationDescends'
  <2> SUFFICES ASSUME NEW r \in Run, NEW i \in Compensable, NEW j \in Compensable,
                      i < j, step'[r][j] = "succeeded", step'[r][CompensateRef[i]] # "none"
               PROVE  Undo(r, j)' \notin {"none", "dispatched"}
    BY DEF CompensationDescends, Undo
  <2>1. RowMove(r, CompensateRef[i]) /\ Onward(r)
    BY <1>1, <1>2 DEF TableMove, RowsMove, StatusMove
  <2>2. status[r] \in Undone
    BY <1>0, <1>2, <2>1 DEF RowMove, CompensationSound, Undone
  <2>3. step[r][j] = "succeeded"
    BY <1>0, <1>2, <2>1, <2>2 DEF StatusInv, Onward
  <2>4. Undo(r, j) \notin {"none", "dispatched"}
    BY <1>0, <1>2, <2>1, <2>3 DEF RowMove, CompensationDescends, Undo
  <2> QED
    BY <2>1, <2>4 DEF Onward
<1>9. OutcomeTruthful'
  <2> SUFFICES ASSUME NEW r \in Run
               PROVE  /\ status'[r] = "succeeded" => \A i \in ActionStep : step'[r][i] = "succeeded"
                      /\ status'[r] = "compensated" =>
                           \A i \in Compensable :
                             step'[r][i] = "succeeded" => step'[r][CompensateRef[i]] = "succeeded"
                      /\ status'[r] = "failed" => \E i \in ActionStep : step'[r][i] = "failed"
                      /\ status'[r] = "preview_blocked" => \A i \in Step : effects'[r][i] = 0
    BY DEF OutcomeTruthful
  <2>0. TableMove(r) /\ Onward(r)
    BY <1>1
  <2>1. ASSUME status'[r] = "succeeded", NEW i \in ActionStep
        PROVE  step'[r][i] = "succeeded"
    <3>1. i < NumSteps
      BY <1>2 DEF Step
    <3>2. step[r][i] = "succeeded"
      BY <1>0, <2>0, <2>1, <3>1 DEF TableMove, RowsMove, StatusMove, Below, OutcomeTruthful
    <3> QED
      BY <1>2, <2>0, <3>2 DEF Onward
  <2>2. ASSUME status'[r] = "compensated", NEW i \in Compensable, step'[r][i] = "succeeded"
        PROVE  step'[r][CompensateRef[i]] = "succeeded"
    <3>1. HasFailed(r)
      BY <1>0, <2>0, <2>2 DEF TableMove, RowsMove, StatusMove, StatusInv, Undone
    <3>2. step[r][i] = "succeeded"
      BY <1>2, <2>0, <2>2, <3>1 DEF Onward
    <3>3. step[r][CompensateRef[i]] = "succeeded"
      BY <1>0, <2>0, <2>2, <3>2 DEF TableMove, RowsMove, StatusMove, OutcomeTruthful, Undo
    <3> QED
      BY <1>2, <2>0, <3>3 DEF Onward
  <2>3. status'[r] = "failed" => \E i \in ActionStep : step'[r][i] = "failed"
    BY <1>5 DEF StatusInv, HasFailed
  <2>4. ASSUME status'[r] = "preview_blocked", NEW i \in Step
        PROVE  effects'[r][i] = 0
    <3>0. effects'[r][i] \in Nat
      BY DEF TypeOK, RowTypes
    <3>1. PolicyOf(r)'.mode = "preview_only"
      BY <1>5, <2>4 DEF StatusInv
    <3>2. CASE i \in ActionStep
      BY <1>6, <3>0, <3>1, <3>2 DEF EffectsAuthorized
    <3>3. CASE i \notin ActionStep /\ effects'[r][i] > 0
      <4>1. PICK j \in Compensable : CompensateRef[j] = i
        BY <1>4, <3>3 DEF RowsInv
      <4>2. step'[r][i] # "none"
        BY <3>3 DEF EffectInv, RowInv
      <4>3. status'[r] \in Undone
        BY <1>7, <4>1, <4>2 DEF CompensationSound, Undone
      <4> QED
        BY <2>4, <4>3 DEF Undone
    <3> QED
      BY <3>0, <3>2, <3>3
  <2> QED
    BY <2>1, <2>2, <2>3, <2>4
<1> QED
  BY <1>4, <1>5, <1>6, <1>7, <1>8, <1>9

\* The list of a worker that compensates loses what has been tried, and what is
\* off the list stays tried.
LEMMA UndoPlace ==
  ASSUME TypeOK, StatusInv, NEW w \in Worker, job[w] \in Run, Onward(job[w]),
         status[job[w]] \in Undone, \A i \in todo[w] : step[job[w]][i] = "succeeded",
         Compensated(w, todo[w]),
         job'[w] = job[w], todo'[w] \subseteq todo[w], clean'[w] => clean[w],
         \A i \in todo[w] \ todo'[w] :
           /\ Undo(job[w], i)' \notin {"none", "dispatched"}
           /\ clean'[w] => Undo(job[w], i)' = "succeeded"
  PROVE  /\ status'[job'[w]] \in Undone
         /\ \A i \in todo'[w] : step'[job'[w]][i] = "succeeded"
         /\ Compensated(w, todo[w])'
<1> DEFINE r == job[w]
<1>0. /\ Compensable \subseteq ActionStep /\ ActionStep \subseteq Step
      /\ \A i \in Compensable : CompensateRef[i] \in Step
      /\ todo[w] \subseteq Compensable
  BY Indexes DEF TypeOK, LocalTypes
<1>1. status'[r] \in Undone /\ \A i \in todo'[w] : step'[r][i] = "succeeded"
  BY <1>0 DEF Onward
<1>2. ASSUME NEW i \in Compensable \ todo'[w], step'[r][i] = "succeeded"
      PROVE  /\ Undo(r, i)' \notin {"none", "dispatched"}
             /\ clean'[w] => Undo(r, i)' = "succeeded"
  <2>1. CASE i \notin todo[w]
    <3>1. step[r][i] = "succeeded"
      BY <1>0, <1>2 DEF StatusInv, Onward
    <3>2. Undo(r, i) \notin {"none", "dispatched"} /\ (clean[w] => Undo(r, i) = "succeeded")
      BY <2>1, <3>1 DEF Compensated
    <3>3. Undo(r, i) = "succeeded" => Undo(r, i)' = "succeeded"
      BY <1>0 DEF Onward, Undo
    <3> QED
      BY <3>2, <3>3 DEF Onward
  <2>2. CASE i \in todo[w]
    BY <1>2, <2>2
  <2> QED
    BY <2>1, <2>2
<1>3. Compensated(w, todo[w])'
  BY <1>2 DEF Compensated, Undo
<1> QED
  BY <1>1, <1>3

\* What a worker that does not move may rely on stays so.
LEMMA PlaceStays ==
  ASSUME TypeOK, StatusInv, NEW v \in Worker, Place(v), \A r \in Run : Onward(r),
         pc'[v] = pc[v], job'[v] = job[v], at'[v] = at[v], verdict'[v] = verdict[v],
         todo'[v] = todo[v], clean'[v] = clean[v]
  PROVE  Place(v)'
<1> DEFINE r == job[v]
<1>1. CASE pc[v] = "idle"
  BY <1>1 DEF Place, ForwardPC, CompensationPC, UndoPC
<1>2. CASE pc[v] # "idle"
  <2>0. /\ r \in Run /\ Onward(r)
        /\ pc[v] \in ForwardPC => at[v] \in ActionStep /\ at[v] \in Step
        /\ at[v] \in 0 .. NumSteps /\ NumSteps \in 0 .. NumSteps
        /\ todo[v] \subseteq Compensable
        /\ Compensable \subseteq Step /\ ActionStep \subseteq Step
        /\ \A i \in Compensable : CompensateRef[i] \in Step /\ i \in ActionStep
    BY <1>2, Indexes DEF TypeOK, ControlShape, LocalTypes
  <2>1. pc[v] \in ForwardPC => Below(r, at[v])'
    BY <2>0 DEF Onward, Place
  <2>2. pc[v] \in {"execute", "record"} => Adapter[at[v]] = "missing" \/ Sanctioned(r, at[v])'
    BY <2>0, Members DEF Onward, Place
  <2>3. pc[v] = "step_failed" => step'[r][at[v]] = "failed"
    BY <2>0, Members DEF Onward, Place
  <2>4. \A i \in Compensable : Undo(r, i) = "succeeded" => Undo(r, i)' = "succeeded"
    BY <2>0 DEF Onward, Undo
  <2>5. ASSUME status[r] \in Undone, NEW i \in Compensable, step'[r][i] = "succeeded"
        PROVE  step[r][i] = "succeeded"
    BY <2>0, <2>5 DEF StatusInv, Onward
  <2>6. pc[v] \in UndoPC =>
          /\ status'[r] \in Undone
          /\ \A i \in todo[v] : step'[r][i] = "succeeded"
          /\ Compensated(v, todo[v])'
    BY <2>0, UndoPlace DEF Place
  <2>7. pc[v] = "settle" =>
          /\ verdict[v] \notin {"failed", "preview_blocked"}
          /\ verdict[v] = "succeeded" => Below(r, NumSteps)'
          /\ verdict[v] \in Undone => status'[r] \in Undone
          /\ verdict[v] = "compensated" =>
               \A i \in Compensable : step'[r][i] = "succeeded" => Undo(r, i)' = "succeeded"
    <3>1. "compensated" \in Undone
      BY DEF Undone
    <3> QED
      BY <2>0, <2>4, <2>5, <3>1 DEF Onward, Place
  <2> QED
    BY <2>1, <2>2, <2>3, <2>6, <2>7 DEF Place, NextToCompensate, Undo
<1> QED
  BY <1>1, <1>2

\* What a worker relies on where it goes: back to the poll loop,
LEMMA ReturnPlace ==
  ASSUME TypeOK, NEW w \in Worker, Return(w)
  PROVE  Place(w)' /\ job'[w] = NoRun
<1>1. pc'[w] = "idle" /\ job'[w] = NoRun
  BY DEF TypeOK, LocalTypes, Return
<1> QED
  BY <1>1 DEF Place, ForwardPC, CompensationPC, UndoPC

\* to the transaction that writes a status,
LEMMA ConcludePlace ==
  ASSUME TypeOK, NEW w \in Worker, NEW s, Conclude(w, s), UNCHANGED job,
         s \notin {"failed", "preview_blocked"},
         s = "succeeded" => Below(job[w], NumSteps)',
         s \in Undone => status'[job[w]] \in Undone,
         s = "compensated" =>
           \A i \in Compensable :
             step'[job[w]][i] = "succeeded" => step'[job[w]][CompensateRef[i]] = "succeeded"
  PROVE  Place(w)' /\ pc'[w] = "settle" /\ verdict'[w] = s
<1>1. pc'[w] = "settle" /\ verdict'[w] = s /\ job'[w] = job[w]
  BY DEF TypeOK, LocalTypes, Conclude, Goto
<1> QED
  BY <1>1 DEF Place, ForwardPC, CompensationPC, UndoPC, Undo

\* to the next action step or past the last one,
LEMMA AdvancePlace ==
  ASSUME TypeOK, NEW w \in Worker, NEW i \in 0 .. NumSteps, Advance(w, i), UNCHANGED job,
         Below(job[w], i)'
  PROVE  Place(w)' /\ pc'[w] \notin UndoPC
<1>1. PICK n \in i .. NumSteps :
        /\ \A j \in i .. NumSteps : j < n => j \notin ActionStep
        /\ at' = [at EXCEPT ![w] = n]
        /\ IF n = NumSteps
             THEN Conclude(w, "succeeded")
             ELSE Goto(w, "renew") /\ verdict' = [verdict EXCEPT ![w] = "none"]
  BY DEF Advance
<1>2. at'[w] = n /\ job'[w] = job[w]
  BY <1>1 DEF TypeOK, LocalTypes
<1>3. Below(job[w], n)'
  <2> SUFFICES ASSUME NEW j \in ActionStep, j < n
               PROVE  step'[job[w]][j] = "succeeded"
    BY DEF Below
  <2>1. j \in 0 .. NumSteps
    BY Indexes
  <2>2. j < i
    BY <1>1, <2>1, Indexes
  <2> QED
    BY <2>2 DEF Below
<1>4. CASE n = NumSteps
  <2>1. Place(w)' /\ pc'[w] = "settle"
    BY <1>1, <1>3, <1>4, ConcludePlace DEF Undone
  <2> QED
    BY <2>1 DEF UndoPC, CompensationPC
<1>5. CASE n # NumSteps
  <2>1. pc'[w] = "renew"
    BY <1>1, <1>5 DEF TypeOK, LocalTypes, Goto
  <2> QED
    BY <1>2, <1>3, <2>1 DEF Place, ForwardPC, CompensationPC, UndoPC
<1> QED
  BY <1>4, <1>5

\* and to another control point at the same step.
LEMMA ForwardPlace ==
  ASSUME TypeOK, NEW w \in Worker, NEW l \in {"kill_check", "gate", "execute", "record", "step_failed"},
         Goto(w, l), UNCHANGED <<job, at>>, Below(job[w], at[w])',
         l \in {"execute", "record"} => Adapter[at[w]] = "missing" \/ Sanctioned(job[w], at[w])',
         l = "step_failed" => step'[job[w]][at[w]] = "failed"
  PROVE  Place(w)' /\ pc'[w] \notin UndoPC \cup {"settle"}
<1>1. pc'[w] = l /\ job'[w] = job[w] /\ at'[w] = at[w]
  BY DEF TypeOK, LocalTypes, Goto
<1> QED
  BY <1>1 DEF Place, ForwardPC, CompensationPC, UndoPC

\* Rows not written make no move,
LEMMA QuietRows ==
  ASSUME RowsInv, NEW r \in Run, UNCHANGED <<step, approval, effects>>,
         PolicyOf(r)'.mode = PolicyOf(r).mode
  PROVE  RowsMove(r)
  BY DEF RowsMove, RowMove, RowsInv

\* and one row written as the engine writes it makes the run's move.
LEMMA OneRow ==
  ASSUME TypeOK, RowsInv, NEW r \in Run, NEW i \in Step, NEW s, SetStep(r, i, s), RowMove(r, i),
         approval[r][i] # "pending", UNCHANGED <<approval, effects, policy>>, NEW q \in Run
  PROVE  RowsMove(q) /\ step'[r][i] = s
<1>1. /\ step'[r][i] = s
      /\ \A t \in Run, j \in Step : t # r \/ j # i => step'[t][j] = step[t][j]
  BY DEF TypeOK, RowTypes, SetStep
<1>2. PolicyOf(q)'.mode = PolicyOf(q).mode
  BY DEF PolicyOf
<1>3. \A j \in Step : RowMove(q, j)
  BY <1>1 DEF RowMove
<1>4. \A j \in Step : approval[q][j] = "pending" => step'[q][j] = "none"
  BY <1>1 DEF RowsInv
<1> QED
  BY <1>1, <1>2, <1>3, <1>4 DEF RowsMove

\* A call leaves its rows in flight if nothing is recorded but by the worker
\* whose call it was.
LEMMA CallKeeps ==
  ASSUME EffectInv, CallInv, EffectInv', TypeOK, TypeOK',
         \A v \in Worker, r \in Run, i \in Step :
           InFlight(v, r, i)' => InFlight(v, r, i) \/ step'[r][i] = "dispatched",
         \A r \in Run, i \in Step :
           step'[r][i] # step[r][i] /\ step'[r][i] \in {"succeeded", "failed"} =>
             \/ step[r][i] = "none"
             \/ \E w \in Worker : InFlight(w, r, i) /\ ~InFlight(w, r, i)'
  PROVE  CallInv'
<1> SUFFICES ASSUME NEW v \in Worker, NEW r \in Run, NEW i \in Step, InFlight(v, r, i)'
             PROVE  step'[r][i] \in {"dispatched", "unknown"}
  BY DEF CallInv
<1>1. step'[r][i] \in StepStatus \ {"none", "retrying"}
  BY DEF EffectInv, FlightInv, TypeOK, RowTypes
<1>2. CASE step'[r][i] # "dispatched"
  <2>1. InFlight(v, r, i) /\ step[r][i] \in {"dispatched", "unknown"}
    BY <1>2 DEF CallInv
  <2>2. step'[r][i] \notin {"succeeded", "failed"}
    BY <2>1 DEF EffectInv, FlightInv
  <2> QED
    BY <1>1, <2>2 DEF StepStatus
<1> QED
  BY <1>2

\* Between two control points of the forward loop nobody holds one.
LEMMA NotCompensating ==
  ASSUME TypeOK, LeaseShape, OwnerInv, NEW w \in Worker, job[w] \in Run, Owns(w),
         pc[w] \notin UndoPC, pc[w] = "settle" => verdict[w] \notin Undone
  PROVE  status[job[w]] \in {"leased", "running"}
<1>1. status[job[w]] \in LeaseBearing
  BY ConstantAssumption DEF LeaseShape, Owns
<1> QED
  BY <1>1 DEF OwnerInv, OwnerAt, LeaseBearing

\* The owned write of a status that the run's rows bear out is the run's move.
LEMMA OwnedMove ==
  ASSUME TypeOK, LeaseShape, RowsInv, OwnerInv, NEW w \in Worker, job[w] \in Run,
         NEW s \in RunStatus \ LeaseBearing, NEW c \in 0 .. NumSteps, OwnedWrite(w, s, c),
         Below(job[w], c),
         s \in Undone \/ (pc[w] \notin UndoPC /\ (pc[w] = "settle" => verdict[w] \notin Undone)),
         s \in Undone \cup {"failed"} => HasFailed(job[w]),
         s = "succeeded" => Below(job[w], NumSteps),
         s = "compensated" =>
           \A i \in Compensable : step[job[w]][i] = "succeeded" => Undo(job[w], i) = "succeeded",
         s = "preview_blocked" => PolicyOf(job[w]).mode = "preview_only",
         NEW r \in Run
  PROVE  /\ StatusMove(r) /\ Below(r, cursor'[r])
         /\ status'[r] = "compensating" => status[r] = "compensating" /\ leasedBy'[r] = leasedBy[r]
<1>1. CASE ~Owns(w) \/ r # job[w]
  BY <1>1 DEF OwnedWrite, ReleaseLease, leaseVars, StatusMove, RowsInv, TypeOK, RunTypes
<1>2. CASE Owns(w) /\ r = job[w]
  <2>1. status'[r] = s /\ cursor'[r] = c
    BY <1>2 DEF OwnedWrite, TypeOK, RunTypes
  <2>2. s # "compensating"
    BY DEF LeaseBearing
  <2>3. status[r] \in Undone => s \in Undone
    BY <1>2, NotCompensating DEF Undone
  <2> QED
    BY <1>2, <2>1, <2>2, <2>3 DEF StatusMove
<1> QED
  BY <1>1, <1>2

\* A step of worker w moves no other worker.
Others(w) ==
  \A v \in Worker \ {w} :
    /\ pc'[v] = pc[v] /\ job'[v] = job[v] /\ at'[v] = at[v]
    /\ verdict'[v] = verdict[v] /\ todo'[v] = todo[v] /\ clean'[v] = clean[v]

\* A row is closed only by the worker whose call it was, or before any call.
Recorded ==
  \A r \in Run, i \in Step :
    step'[r][i] # step[r][i] /\ step'[r][i] \in {"succeeded", "failed"} =>
      \/ step[r][i] = "none"
      \/ \E w \in Worker : InFlight(w, r, i) /\ ~InFlight(w, r, i)'

\* What a step of a worker has to show,
LEMMA WorkerKeeps ==
  ASSUME TypeOK, TypeOK', EffectInv, EffectInv', OutcomeInv, NEW w \in Worker, Others(w),
         \A r \in Run : TableMove(r),
         \A r \in Run :
           status'[r] = "compensating" =>
             \/ status[r] = "compensating" /\ leasedBy'[r] = leasedBy[r]
             \/ leasedBy'[r] = w,
         Place(w)', OwnerAt(w)', Recorded,
         \A r \in Run, i \in Step :
           InFlight(w, r, i)' => InFlight(w, r, i) \/ step'[r][i] = "dispatched"
  PROVE  OutcomeInv'
<1>1. \A r \in Run : Onward(r)
  BY TableOnward DEF OutcomeInv
<1>2. \A v \in Worker : Place(v)'
  BY <1>1, PlaceStays DEF Others, OutcomeInv
<1>3. OwnerInv'
  <2> SUFFICES ASSUME NEW v \in Worker, v # w
               PROVE  OwnerAt(v)'
    BY DEF OwnerInv
  <2>1. OwnerAt(v)
    BY DEF OutcomeInv, OwnerInv
  <2> QED
    BY <2>1 DEF OwnerAt, Owns, Others
<1>4. \A v \in Worker \ {w}, r \in Run, i \in Step : InFlight(v, r, i)' => InFlight(v, r, i)
  BY DEF InFlight, Others
<1>5. CallInv'
  BY <1>4, CallKeeps DEF OutcomeInv, Recorded
<1> QED
  BY <1>2, <1>3, <1>5, TableKeeps DEF OutcomeInv

\* and a step that moves no worker.
LEMMA WorldKeeps ==
  ASSUME TypeOK, TypeOK', EffectInv, EffectInv', OutcomeInv,
         UNCHANGED <<pc, job, at, verdict, todo, clean>>,
         \A r \in Run : TableMove(r),
         \A r \in Run :
           status'[r] = "compensating" => status[r] = "compensating" /\ leasedBy'[r] = leasedBy[r],
         Recorded
  PROVE  OutcomeInv'
<1>1. \A r \in Run : Onward(r)
  BY TableOnward DEF OutcomeInv
<1>2. \A v \in Worker : Place(v)'
  BY <1>1, PlaceStays DEF OutcomeInv
<1>3. OwnerInv'
  BY DEF OutcomeInv, OwnerInv, OwnerAt, Owns
<1>4. \A v \in Worker, r \in Run, i \in Step : InFlight(v, r, i)' => InFlight(v, r, i)
  BY DEF InFlight
<1>5. CallInv'
  BY <1>4, CallKeeps DEF OutcomeInv, Recorded
<1> QED
  BY <1>2, <1>3, <1>5, TableKeeps DEF OutcomeInv

\* Every transaction of a worker writes its own local state.
LEMMA OneWorker ==
  ASSUME TypeOK, NEW w \in Worker, WorkerStep(w) \/ Crash(w) \/ \E r \in Run : Claim(w, r)
  PROVE  Others(w)
<1> USE DEF runVars, leaseVars, flagVars, stepVars, humanVars, localVars, auxVars, GateUnchanged
<1>0. LocalTypes
  BY DEF TypeOK
<1>a. Return(w) => Others(w)
  BY <1>0 DEF LocalTypes, Return, Others
<1>b. ASSUME NEW l, Goto(w, l), UNCHANGED <<job, todo, clean>>,
             \A v \in Worker \ {w} : at'[v] = at[v] /\ verdict'[v] = verdict[v]
      PROVE  Others(w)
  BY <1>0, <1>b DEF LocalTypes, Goto, Others
<1>c. ASSUME NEW s, Conclude(w, s), UNCHANGED <<job, at, todo, clean>>
      PROVE  Others(w)
  BY <1>0, <1>c DEF LocalTypes, Conclude, Goto, Others
<1>d. ASSUME NEW i, Advance(w, i), UNCHANGED <<job, todo, clean>>
      PROVE  Others(w)
  <2>1. PICK n :
          /\ at' = [at EXCEPT ![w] = n]
          /\ IF n = NumSteps
               THEN Conclude(w, "succeeded")
               ELSE Goto(w, "renew") /\ verdict' = [verdict EXCEPT ![w] = "none"]
    BY <1>d DEF Advance
  <2>2. \A v \in Worker \ {w} : at'[v] = at[v]
    BY <1>0, <2>1 DEF LocalTypes
  <2>3. \A v \in Worker \ {w} : verdict'[v] = verdict[v] /\ pc'[v] = pc[v]
    BY <1>0, <2>1 DEF LocalTypes, Conclude, Goto
  <2> QED
    BY <1>d, <2>2, <2>3 DEF Others
<1>e. ASSUME NEW c, FailRun(w, c)
      PROVE  Others(w)
  <2>1. CASE Return(w)
    BY <1>a, <2>1
  <2>2. CASE ~Return(w)
    BY <1>0, <1>e, <2>2 DEF LocalTypes, FailRun, Goto, Others
  <2> QED
    BY <2>1, <2>2
<1>f. ASSUME NEW ok, CompensationOutcome(w, ok), \A v \in Worker \ {w} : verdict'[v] = verdict[v]
      PROVE  Others(w)
  BY <1>0, <1>f DEF LocalTypes, CompensationOutcome, Goto, Others
<1>g. ASSUME Dispatch(w)
      PROVE  Others(w)
  BY <1>b, <1>g DEF Dispatch
<1>1. MarkRunning(w) \/ SkipSucceeded(w) \/ RecordSuccess(w) => Others(w)
  BY <1>d DEF MarkRunning, SkipSucceeded, RecordSuccess
<1>2. RenewLease(w) \/ CheckKillSwitch(w) => Others(w)
  BY <1>a, <1>b, <1>c DEF RenewLease, CheckKillSwitch
<1>3. Settle(w) \/ RecordTransient(w) \/ Crash(w) => Others(w)
  BY <1>a DEF Settle, RecordTransient, Crash
<1>4. SkipFailed(w) \/ AfterFailure(w) => Others(w)
  BY <1>e DEF SkipFailed, AfterFailure
<1>5. SkipUnknown(w) \/ BlockedByPolicy(w) \/ AwaitApproval(w) => Others(w)
  BY <1>a DEF SkipUnknown, BlockedByPolicy, AwaitApproval, StopAtGate
<1>6. MarkUnknown(w) \/ RequestApproval(w) \/ CompensationDone(w) => Others(w)
  BY <1>c DEF MarkUnknown, RequestApproval, CompensationDone
<1>7. Redispatch(w) \/ FirstDispatch(w) => Others(w)
  BY <1>a, <1>g DEF Redispatch, FirstDispatch, StopAtGate
<1>8. GateUndispatchable(w) => Others(w)
  BY <1>a, <1>b, <1>g DEF GateUndispatchable, StopAtGate
<1>9. FailUnregistered(w) \/ RecordFailure(w) => Others(w)
  BY <1>b DEF FailUnregistered, RecordFailure
<1>10. Execute(w) \/ CompensationExecute(w) => Others(w)
  <2>1. ASSUME NEW l, Goto(w, l), UNCHANGED <<job, at, todo, clean>>, NEW o,
               verdict' = [verdict EXCEPT ![w] = o]
        PROVE  Others(w)
    BY <1>0, <1>b, <2>1 DEF LocalTypes
  <2> QED
    BY <2>1 DEF Execute, CompensationExecute
<1>11. CompensationRenew(w) => Others(w)
  <2> SUFFICES ASSUME CompensationRenew(w), ~Return(w)
               PROVE  Others(w)
    BY <1>a
  <2>1. PICK i \in Step : at' = [at EXCEPT ![w] = i]
    BY DEF CompensationRenew
  <2> QED
    BY <1>0, <1>b, <2>1 DEF CompensationRenew, LocalTypes
<1>12. CompensationGate(w) => Others(w)
  <2> SUFFICES ASSUME CompensationGate(w)
               PROVE  Others(w)
    OBVIOUS
  <2> DEFINE c == CompensateRef[at[w]]
  <2>1. CASE step[job[w]][c] = "none"
    BY <1>b, <2>1 DEF CompensationGate
  <2>2. CASE step[job[w]][c] # "none"
    BY <1>f, <2>2 DEF CompensationGate
  <2> QED
    BY <2>1, <2>2
<1>13. CompensationRefused(w) => Others(w)
  BY <1>f DEF CompensationRefused
<1>14. CompensationRecord(w) => Others(w)
  BY <1>0, <1>f DEF CompensationRecord, LocalTypes
<1>15. ASSUME NEW r \in Run, Claim(w, r)
       PROVE  Others(w)
  BY <1>0, <1>15 DEF Claim, Goto, LocalTypes, Others
<1> QED
  BY <1>1, <1>2, <1>3, <1>4, <1>5, <1>6, <1>7, <1>8, <1>9, <1>10, <1>11, <1>12, <1>13,
     <1>14, <1>15 DEF WorkerStep

\* A run whose status and lease a worker leaves alone is nobody's to undo.
LEMMA OwnerForward ==
  ASSUME TypeOK, OwnerInv, NEW w \in Worker, job'[w] \in {job[w], NoRun},
         pc[w] \notin UndoPC \cup {"settle", "idle"},
         \A r \in Run :
           status'[r] = "compensating" /\ leasedBy'[r] = w =>
             status[r] = "compensating" /\ leasedBy[r] = w
  PROVE  OwnerAt(w)'
<1>1. job[w] \in Run /\ NoRun \notin Run
  BY ConstantAssumption DEF TypeOK, ControlShape, LocalTypes, WorkerPC, UndoPC, CompensationPC
<1>2. OwnerAt(w)
  BY DEF OwnerInv
<1> QED
  BY <1>1, <1>2 DEF OwnerAt, Owns

\* A run whose status and cursor stay makes its move with its rows.
LEMMA SameStatus ==
  ASSUME RowsInv, NEW r \in Run, status'[r] = status[r], cursor'[r] = cursor[r]
  PROVE  StatusMove(r) /\ Below(r, cursor'[r])
BY DEF StatusMove, RowsInv

\* The cursor goes no further than the step the worker stands at.
LEMMA SetCursorBelow ==
  ASSUME TypeOK, RowsInv, NEW w \in Worker, job[w] \in Run, Below(job[w], at[w]),
         SetCursor(w) \/ UNCHANGED cursor, NEW r \in Run
  PROVE  Below(r, cursor'[r])
BY DEF TypeOK, RunTypes, SetCursor, RowsInv

\* A transaction of a worker that writes no row,
LEMMA QuietStep ==
  ASSUME TypeOK, TypeOK', EffectInv, EffectInv', OutcomeInv, NEW w \in Worker, Others(w),
         UNCHANGED <<step, approval, effects, policy>>,
         \A r \in Run : StatusMove(r) /\ Below(r, cursor'[r]),
         \A r \in Run :
           status'[r] = "compensating" =>
             \/ status[r] = "compensating" /\ leasedBy'[r] = leasedBy[r]
             \/ leasedBy'[r] = w,
         Place(w)', OwnerAt(w)',
         \A r \in Run, i \in Step : InFlight(w, r, i)' => InFlight(w, r, i)
  PROVE  OutcomeInv'
<1>1. \A r \in Run : PolicyOf(r)'.mode = PolicyOf(r).mode
  BY DEF PolicyOf
<1>2. \A r \in Run : TableMove(r)
  BY <1>1, QuietRows DEF TableMove, OutcomeInv
<1>3. Recorded
  BY DEF Recorded
<1> QED
  BY <1>2, <1>3, WorkerKeeps

\* one that ends a worker's turn and, under its lease, the run's,
LEMMA StopKeeps ==
  ASSUME TypeOK, TypeOK', LeaseShape, EffectInv, EffectInv', OutcomeInv, NEW w \in Worker, Others(w),
         UNCHANGED <<step, approval, effects, policy>>, job[w] \in Run,
         NEW s \in RunStatus \ LeaseBearing, NEW c \in 0 .. NumSteps, OwnedWrite(w, s, c), Return(w),
         Below(job[w], c),
         s \in Undone \/ (pc[w] \notin UndoPC /\ (pc[w] = "settle" => verdict[w] \notin Undone)),
         s \in Undone \cup {"failed"} => HasFailed(job[w]),
         s = "succeeded" => Below(job[w], NumSteps),
         s = "compensated" =>
           \A i \in Compensable : step[job[w]][i] = "succeeded" => Undo(job[w], i) = "succeeded",
         s = "preview_blocked" => PolicyOf(job[w]).mode = "preview_only"
  PROVE  OutcomeInv'
<1>0. RowsInv /\ OwnerInv
  BY DEF OutcomeInv
<1>1. \A r \in Run :
        /\ StatusMove(r) /\ Below(r, cursor'[r])
        /\ status'[r] = "compensating" => status[r] = "compensating" /\ leasedBy'[r] = leasedBy[r]
  BY <1>0, OwnedMove
<1>2. Place(w)' /\ job'[w] = NoRun
  BY ReturnPlace
<1>3. OwnerAt(w)' /\ \A r \in Run, i \in Step : InFlight(w, r, i)' => InFlight(w, r, i)
  BY <1>2, ConstantAssumption DEF OwnerAt, InFlight
<1> QED
  BY <1>1, <1>2, <1>3, QuietStep

\* and one that writes one row and leaves the run's status.
LEMMA RowStep ==
  ASSUME TypeOK, TypeOK', EffectInv, EffectInv', OutcomeInv, NEW w \in Worker, Others(w),
         NEW i \in Step, NEW s, job[w] \in Run, SetStep(job[w], i, s), RowMove(job[w], i),
         approval[job[w]][i] # "pending",
         UNCHANGED <<approval, effects, policy, status, leasedBy>>,
         \A r \in Run : Below(r, cursor'[r]),
         Place(w)', OwnerAt(w)',
         s \in {"succeeded", "failed"} =>
           \/ step[job[w]][i] = "none"
           \/ InFlight(w, job[w], i) /\ ~InFlight(w, job[w], i)',
         \A r \in Run, j \in Step :
           InFlight(w, r, j)' => InFlight(w, r, j) \/ step'[r][j] = "dispatched"
  PROVE  OutcomeInv'
<1>0. RowsInv
  BY DEF OutcomeInv
<1>1. \A r \in Run : RowsMove(r) /\ step'[job[w]][i] = s
  BY <1>0, OneRow
<1>2. \A r \in Run : TableMove(r)
  BY <1>1 DEF TableMove, StatusMove
<1>3. Recorded
  <2>1. \A r \in Run, j \in Step : r # job[w] \/ j # i => step'[r][j] = step[r][j]
    BY DEF TypeOK, RowTypes, SetStep
  <2> SUFFICES ASSUME NEW r \in Run, NEW j \in Step, step'[r][j] # step[r][j],
                      step'[r][j] \in {"succeeded", "failed"}
               PROVE  \/ step[r][j] = "none"
                      \/ \E v \in Worker : InFlight(v, r, j) /\ ~InFlight(v, r, j)'
    BY DEF Recorded
  <2>2. r = job[w] /\ j = i /\ s \in {"succeeded", "failed"}
    BY <1>1, <2>1
  <2>3. CASE step[job[w]][i] = "none"
    BY <2>2, <2>3
  <2>4. CASE InFlight(w, job[w], i) /\ ~InFlight(w, job[w], i)'
    <3>1. InFlight(w, r, j) /\ ~InFlight(w, r, j)'
      BY <2>2, <2>4 DEF InFlight
    <3> QED
      BY <3>1
  <2> QED
    BY <2>2, <2>3, <2>4
<1> QED
  BY <1>2, <1>3, WorkerKeeps

\* The compensation of one step is behind the worker.
LEMMA OutcomePlace ==
  ASSUME TypeOK, OutcomeInv, NEW w \in Worker, pc[w] \in CompensationPC, NEW ok \in BOOLEAN,
         CompensationOutcome(w, ok), Onward(job[w]),
         step'[job[w]][CompensateRef[at[w]]] \notin {"none", "dispatched"},
         ok => step'[job[w]][CompensateRef[at[w]]] = "succeeded"
  PROVE  Place(w)' /\ pc'[w] = "comp_renew" /\ job'[w] = job[w]
<1>1. /\ pc'[w] = "comp_renew" /\ job'[w] = job[w]
      /\ todo'[w] = todo[w] \ {at[w]} /\ clean'[w] = (clean[w] /\ ok)
  BY DEF TypeOK, LocalTypes, CompensationOutcome, Goto
<1>2. job[w] \in Run /\ StatusInv /\ Place(w) /\ pc[w] \in UndoPC
  BY DEF TypeOK, ControlShape, CompensationPC, UndoPC, OutcomeInv
<1>3. /\ status[job[w]] \in Undone
      /\ \A i \in todo[w] : step[job[w]][i] = "succeeded"
      /\ Compensated(w, todo[w])
  BY <1>2 DEF Place
<1>a. /\ todo'[w] \subseteq todo[w] /\ (clean'[w] => clean[w] /\ ok)
      /\ \A i \in todo[w] \ todo'[w] : i = at[w]
  BY <1>1
<1>b. \A i \in todo[w] \ todo'[w] :
        /\ Undo(job[w], i)' \notin {"none", "dispatched"}
        /\ clean'[w] => Undo(job[w], i)' = "succeeded"
  BY <1>1, <1>a DEF Undo
<1>4. /\ status'[job'[w]] \in Undone
      /\ \A i \in todo'[w] : step'[job'[w]][i] = "succeeded"
      /\ Compensated(w, todo[w])'
  BY <1>1, <1>2, <1>3, <1>a, <1>b, UndoPlace
<1> QED
  BY <1>1, <1>4 DEF Place, ForwardPC, CompensationPC, UndoPC

\* A step that failed either ends the run as failed or begins to compensate it,
\* under the lease: what succeeded lies below the failed step, and is on the list.
LEMMA FailRunKeeps ==
  ASSUME TypeOK, TypeOK', LeaseShape, EffectInv, EffectInv', OutcomeInv, NEW w \in Worker, Others(w),
         UNCHANGED <<step, approval, effects, policy>>, pc[w] \in {"gate", "step_failed"},
         NEW c \in 0 .. NumSteps, Below(job[w], c), step[job[w]][at[w]] = "failed", FailRun(w, c)
  PROVE  OutcomeInv'
<1> DEFINE r == job[w]
           undo == Qualifying(r, at[w])
<1>a. /\ r \in Run /\ at[w] \in ActionStep
      /\ pc[w] \notin UndoPC \cup {"settle", "idle"}
      /\ RowsInv /\ StatusInv /\ OwnerInv
  BY DEF TypeOK, ControlShape, ForwardPC, UndoPC, CompensationPC, OutcomeInv
<1>b. Compensable \subseteq ActionStep /\ \A i \in ActionStep : i \in Nat
  <2>1. \A i \in Step : i \in Nat
    BY GraphAssumption DEF Step
  <2> QED
    BY <2>1, Indexes
<1>c. HasFailed(r)
  BY <1>a DEF HasFailed
<1>0. /\ r \in Run /\ at[w] \in ActionStep /\ HasFailed(r)
      /\ pc[w] \notin UndoPC \cup {"settle", "idle"}
      /\ RowsInv /\ StatusInv /\ OwnerInv
      /\ Compensable \subseteq ActionStep /\ \A i \in ActionStep : i \in Nat
  BY <1>a, <1>b, <1>c
<1>1. CASE Owns(w) /\ undo # {}
  <2>1. /\ status' = [status EXCEPT ![r] = "compensating"]
        /\ cursor' = [cursor EXCEPT ![r] = c]
        /\ Goto(w, "comp_renew")
        /\ todo' = [todo EXCEPT ![w] = undo]
        /\ UNCHANGED <<leasedBy, job, at, clean>>
    BY <1>1 DEF FailRun, leaseVars
  <2>2. /\ status'[r] = "compensating" /\ cursor'[r] = c
        /\ \A q \in Run \ {r} : status'[q] = status[q] /\ cursor'[q] = cursor[q]
        /\ pc'[w] = "comp_renew" /\ todo'[w] = undo /\ job'[w] = r
    BY <1>0, <2>1 DEF TypeOK, RunTypes, LocalTypes, Goto
  <2>3. \A q \in Run : StatusMove(q) /\ Below(q, cursor'[q])
    BY <1>0, <2>2 DEF StatusMove, Undone, RowsInv
  <2>4. ASSUME NEW i \in Compensable \ undo, step[r][i] = "succeeded"
        PROVE  FALSE
    <3>1. ~(i < at[w])
      BY <2>4 DEF Qualifying
    <3>2. Below(r, i)
      BY <1>0, <2>4 DEF RowsInv
    <3> QED
      BY <1>0, <2>4, <3>1, <3>2 DEF Below
  <2>5. Compensated(w, todo[w])'
    BY <2>2, <2>4 DEF Compensated
  <2>6. \A i \in todo'[w] : step'[job'[w]][i] = "succeeded"
    BY <2>2 DEF Qualifying
  <2>7. Place(w)'
    BY <2>2, <2>5, <2>6 DEF Place, ForwardPC, CompensationPC, UndoPC, Undone
  <2>8. OwnerAt(w)' /\ \A q \in Run, i \in Step : ~InFlight(w, q, i)'
    BY <2>2 DEF OwnerAt, UndoPC, InFlight
  <2>9. \A q \in Run :
          status'[q] = "compensating" =>
            (status[q] = "compensating" /\ leasedBy'[q] = leasedBy[q]) \/ leasedBy'[q] = w
    BY <1>1, <2>1, <2>2 DEF Owns
  <2> QED
    BY <2>3, <2>7, <2>8, <2>9, QuietStep
<1>2. CASE ~(Owns(w) /\ undo # {})
  <2>1. OwnedWrite(w, "failed", c) /\ Return(w)
    BY <1>2 DEF FailRun
  <2>2. "failed" \in RunStatus \ LeaseBearing
    BY Members
  <2> QED
    BY <1>0, <2>1, <2>2, StopKeeps DEF Undone
<1> QED
  BY <1>1, <1>2

\* A dispatch is of a step the gate has cleared, with everything before it done.
LEMMA DispatchKeeps ==
  ASSUME TypeOK, TypeOK', EffectInv, EffectInv', OutcomeInv, NEW w \in Worker, Others(w),
         UNCHANGED <<approval, effects, policy>>, pc[w] = "gate",
         step[job[w]][at[w]] \in {"none", "retrying"}, Dispatch(w),
         approval[job[w]][at[w]] # "pending",
         Adapter[at[w]] = "missing" \/ Sanctioned(job[w], at[w])
  PROVE  OutcomeInv'
<1> DEFINE r == job[w]
           i == at[w]
<1>0. /\ r \in Run /\ i \in ActionStep /\ i \in Step /\ Below(r, i)
      /\ pc[w] \notin UndoPC \cup {"settle", "idle"}
      /\ RowsInv /\ OwnerInv
  BY Indexes DEF TypeOK, ControlShape, ForwardPC, UndoPC, CompensationPC, OutcomeInv, Place
<1>1. /\ SetStep(r, i, "dispatched") /\ SetCursor(w) /\ Goto(w, "execute")
      /\ UNCHANGED <<status, leasedBy, job, at>>
  BY DEF Dispatch, leaseVars
<1>2. RowMove(r, i)
  BY <1>0, <1>1 DEF TypeOK, RowTypes, SetStep, RowMove
<1>3. step'[r][i] = "dispatched" /\ \A j \in Step \ {i} : step'[r][j] = step[r][j]
  BY <1>0, <1>1 DEF TypeOK, RowTypes, SetStep
<1>4. Below(r, i)'
  BY <1>0, <1>1, <1>3, Indexes DEF Below, Step
<1>5. Adapter[i] = "missing" \/ Sanctioned(r, i)'
  BY <1>1 DEF Sanctioned, PolicyOf
<1>6. Place(w)'
  BY <1>1, <1>4, <1>5, ForwardPlace
<1>7. OwnerAt(w)' /\ \A q \in Run : Below(q, cursor'[q])
  BY <1>0, <1>1, OwnerForward, SetCursorBelow
<1>8. \A q \in Run, j \in Step : InFlight(w, q, j)' => q = r /\ j = i
  BY <1>1 DEF TypeOK, LocalTypes, Goto, InFlight
<1> QED
  BY <1>0, <1>1, <1>2, <1>3, <1>6, <1>7, <1>8, RowStep

\* A transaction of the forward loop that writes the row of its own step.
LEMMA ForwardRowKeeps ==
  ASSUME TypeOK, TypeOK', EffectInv, EffectInv', OutcomeInv, NEW w \in Worker, Others(w),
         UNCHANGED <<approval, effects, policy, status, leasedBy, job>>, pc[w] \in ForwardPC,
         NEW s, SetStep(job[w], at[w], s), SetCursor(w) \/ UNCHANGED cursor,
         \/ step[job[w]][at[w]] \in {"dispatched", "unknown"} /\ s \in {"unknown", "succeeded", "failed"}
         \/ step[job[w]][at[w]] = "none" /\ s = "failed" /\ approval[job[w]][at[w]] # "pending",
         s \in {"succeeded", "failed"} =>
           step[job[w]][at[w]] = "none" \/ pc[w] \in {"execute", "record"},
         Place(w)', pc'[w] \notin ActingPC
  PROVE  OutcomeInv'
<1>0. /\ job[w] \in Run /\ at[w] \in ActionStep /\ at[w] \in Step /\ Below(job[w], at[w])
      /\ pc[w] \notin UndoPC \cup {"settle", "idle"}
      /\ RowsInv /\ OwnerInv
  BY Indexes DEF TypeOK, ControlShape, ForwardPC, UndoPC, CompensationPC, OutcomeInv, Place
<1>1. step'[job[w]][at[w]] = s
  BY <1>0 DEF TypeOK, RowTypes, SetStep
<1>2. RowMove(job[w], at[w]) /\ approval[job[w]][at[w]] # "pending"
  BY <1>0, <1>1 DEF RowMove, RowsInv
<1>3. OwnerAt(w)' /\ \A r \in Run : Below(r, cursor'[r])
  BY <1>0, OwnerForward, SetCursorBelow
<1>4. /\ \A r \in Run, i \in Step : ~InFlight(w, r, i)'
      /\ pc[w] \in {"execute", "record"} => InFlight(w, job[w], at[w])
  BY DEF InFlight, ActingPC
<1> QED
  BY <1>0, <1>2, <1>3, <1>4, RowStep

\* A transaction of the compensation loop that writes the row of its step.
LEMMA CompensationRowKeeps ==
  ASSUME TypeOK, TypeOK', EffectInv, EffectInv', OutcomeInv, NEW w \in Worker, Others(w),
         UNCHANGED <<approval, effects, policy, status, cursor, leasedBy>>, pc[w] \in CompensationPC,
         NEW s \in {"unknown", "succeeded", "failed"},
         SetStep(job[w], CompensateRef[at[w]], s),
         step[job[w]][CompensateRef[at[w]]] \in {"dispatched", "unknown"},
         CompensationOutcome(w, s = "succeeded"),
         s \in {"succeeded", "failed"} => pc[w] \in {"comp_execute", "comp_record"}
  PROVE  OutcomeInv'
<1> DEFINE r == job[w]
           c == CompensateRef[at[w]]
<1>0. r \in Run /\ c \in Step /\ RowsInv
  BY Indexes DEF TypeOK, ControlShape, CompensationPC, OutcomeInv
<1>1. step'[r][c] = s
  BY <1>0 DEF TypeOK, RowTypes, SetStep
<1>2. RowMove(r, c) /\ approval[r][c] # "pending"
  BY <1>0, <1>1 DEF RowMove, RowsInv
<1>3. \A q \in Run : StatusMove(q) /\ Below(q, cursor'[q])
  BY <1>0, SameStatus
<1>4. RowsMove(r)
  BY <1>0, <1>2, OneRow
<1>5. Onward(r)
  BY <1>0, <1>3, <1>4, TableOnward DEF TableMove
<1>6. Place(w)' /\ pc'[w] = "comp_renew" /\ job'[w] = r
  BY <1>1, <1>5, OutcomePlace
<1>7. OwnerAt(w)' /\ \A q \in Run, i \in Step : ~InFlight(w, q, i)'
  BY <1>6 DEF OwnerAt, UndoPC, InFlight
<1>8. pc[w] \in {"comp_execute", "comp_record"} => InFlight(w, r, c)
  BY DEF InFlight
<1> QED
  BY <1>0, <1>2, <1>3, <1>6, <1>7, <1>8, RowStep

\* The step of the outcome proof: one step per action, the transactions that stop,
\* dispatch, fail or write one row by the lemmas above.
THEOREM OutcomeStep ==
  ASSUME TypeOK, TypeOK', LeaseShape, EffectInv, EffectInv', OutcomeInv, [Next]_vars
  PROVE  OutcomeInv'
<1> USE DEF runVars, leaseVars, flagVars, stepVars, humanVars, localVars, auxVars, GateUnchanged
<1>0. /\ RowsInv /\ StatusInv /\ CallInv /\ OwnerInv
      /\ \A w \in Worker : Place(w)
  BY DEF OutcomeInv
<1>w. \A w \in Worker :
        /\ pc[w] # "idle" => job[w] \in Run
        /\ pc[w] \in ForwardPC =>
             /\ at[w] \in ActionStep /\ at[w] \in Step /\ at[w] \in 0 .. NumSteps
             /\ at[w] + 1 \in 0 .. NumSteps /\ Below(job[w], at[w])
             /\ pc[w] \notin UndoPC \cup {"settle", "idle"}
             /\ pc[w] # "idle"
        /\ pc[w] \in CompensationPC =>
             /\ at[w] \in Compensable /\ CompensateRef[at[w]] \in Step \ ActionStep
             /\ pc[w] \in UndoPC
             /\ pc[w] # "idle"
  <2> TAKE w \in Worker
  <2>1. pc[w] \in ForwardPC => at[w] \in ActionStep /\ Below(job[w], at[w])
    BY <1>0 DEF Place, TypeOK, ControlShape
  <2>2. pc[w] \in CompensationPC => at[w] \in Compensable
    BY DEF TypeOK, ControlShape
  <2>3. /\ pc[w] \in ForwardPC => pc[w] \notin UndoPC \cup {"settle", "idle"}
        /\ pc[w] \in CompensationPC => pc[w] \in UndoPC /\ pc[w] # "idle"
    BY DEF ForwardPC, CompensationPC, UndoPC
  <2>4. pc[w] # "idle" => job[w] \in Run
    BY DEF TypeOK, ControlShape
  <2>5. \A i \in Compensable : CompensateRef[i] \in Step \ ActionStep
    BY GraphAssumption DEF Compensable
  <2> QED
    BY <2>1, <2>2, <2>3, <2>4, <2>5, Indexes
<1>n. \A w \in Worker : pc'[w] \notin ActingPC => \A r \in Run, i \in Step : ~InFlight(w, r, i)'
  BY DEF InFlight, ActingPC
<1>o. \A w \in Worker : WorkerStep(w) \/ Crash(w) \/ (\E r \in Run : Claim(w, r)) => Others(w)
  BY OneWorker
\* A transaction of the forward loop that writes no row and no status,
<1>f. ASSUME NEW w \in Worker, Others(w), pc[w] \notin UndoPC \cup {"settle", "idle"},
             UNCHANGED <<step, approval, effects, policy, status, leasedBy>>,
             (SetCursor(w) /\ pc[w] \in ForwardPC) \/ UNCHANGED cursor,
             Place(w)', job'[w] \in {job[w], NoRun}, pc'[w] \notin ActingPC
      PROVE  OutcomeInv'
  <2>1. \A r \in Run : Below(r, cursor'[r])
    <3>1. CASE UNCHANGED cursor
      BY <1>0, <3>1 DEF RowsInv
    <3>2. CASE SetCursor(w) /\ pc[w] \in ForwardPC
      BY <1>0, <1>w, <3>2, SetCursorBelow
    <3> QED
      BY <1>f, <3>1, <3>2
  <2>2. OwnerAt(w)'
    BY <1>0, <1>f, OwnerForward
  <2> QED
    BY <1>f, <1>n, <2>1, <2>2, QuietStep DEF StatusMove
\* one that gives up,
<1>r. ASSUME NEW w \in Worker, Others(w), Return(w),
             UNCHANGED <<step, approval, effects, policy, status, leasedBy, cursor>>
      PROVE  OutcomeInv'
  <2>1. Place(w)' /\ job'[w] = NoRun
    BY <1>r, ReturnPlace
  <2>2. OwnerAt(w)' /\ \A r \in Run, i \in Step : ~InFlight(w, r, i)'
    BY <2>1, ConstantAssumption DEF OwnerAt, InFlight
  <2> QED
    BY <1>0, <1>r, <2>1, <2>2, SameStatus, QuietStep
\* and one that stops the run at the gate.
<1>s. ASSUME NEW w \in Worker, Others(w), pc[w] = "gate", UNCHANGED <<approval, effects, policy>>,
             NEW s \in {"needs_review", "waiting_approval", "preview_blocked"}, StopAtGate(w, s),
             s = "preview_blocked" => PolicyOf(job[w]).mode = "preview_only"
      PROVE  OutcomeInv'
  <2>1. s \in RunStatus \ LeaseBearing /\ s \notin Undone \cup {"failed", "succeeded", "compensated"}
    BY Members DEF Undone
  <2>2. pc[w] \in ForwardPC
    BY <1>s DEF ForwardPC
  <2> QED
    BY <1>s, <1>w, <2>1, <2>2, StopKeeps DEF StopAtGate
\* Steps that move no worker, row or policy.
<1>q. ASSUME UNCHANGED <<pc, job, at, verdict, todo, clean, step, approval, effects, policy, cursor>>,
             \A r \in Run : StatusMove(r),
             \A r \in Run :
               status'[r] = "compensating" => status[r] = "compensating" /\ leasedBy'[r] = leasedBy[r]
      PROVE  OutcomeInv'
  <2>1. \A r \in Run : PolicyOf(r)'.mode = PolicyOf(r).mode
    BY <1>q DEF PolicyOf
  <2>2. \A r \in Run : TableMove(r)
    BY <1>0, <1>q, <2>1, QuietRows DEF TableMove, RowsInv
  <2>3. Recorded
    BY <1>q DEF Recorded
  <2> QED
    BY <1>q, <2>2, <2>3, WorldKeeps
<1>1. ASSUME NEW w \in Worker, MarkRunning(w)
      PROVE  OutcomeInv'
  <2>0. /\ pc[w] = "mark" /\ job[w] \in Run /\ pc[w] \notin UndoPC \cup {"settle", "idle"}
        /\ cursor[job[w]] \in 0 .. NumSteps /\ Below(job[w], cursor[job[w]])
    BY <1>0, <1>w, <1>1 DEF MarkRunning, UndoPC, CompensationPC, RowsInv, TypeOK, RunTypes
  <2>1. /\ Advance(w, cursor[job[w]])
        /\ UNCHANGED <<cursor, leasedBy, job, tried, step, approval, effects, policy>>
    BY <1>1 DEF MarkRunning
  <2>2. \A r \in Run : status'[r] = status[r] \/ (status[r] = "leased" /\ status'[r] = "running")
    BY <1>1, <2>0 DEF MarkRunning, TypeOK, RunTypes
  <2>3. \A r \in Run : StatusMove(r) /\ Below(r, cursor'[r])
    BY <1>0, <2>1, <2>2 DEF StatusMove, Undone, RowsInv
  <2>4. Place(w)'
    BY <2>0, <2>1, AdvancePlace DEF Below
  <2>5. pc'[w] \notin ActingPC
    BY <2>1, AdvanceLeaves DEF Leaves
  <2>6. OwnerAt(w)'
    BY <1>0, <2>0, <2>1, <2>2, OwnerForward
  <2> QED
    BY <1>o, <1>1, <1>n, <2>1, <2>2, <2>3, <2>4, <2>5, <2>6, QuietStep DEF WorkerStep
<1>2. ASSUME NEW w \in Worker, RenewLease(w)
      PROVE  OutcomeInv'
  <2>0. pc[w] = "renew" /\ pc[w] \in ForwardPC /\ Others(w)
    BY <1>o, <1>2 DEF RenewLease, ForwardPC, WorkerStep
  <2>1. UNCHANGED <<step, approval, effects, policy, status, leasedBy, cursor>>
    BY <1>2 DEF RenewLease
  <2>2. CASE Return(w)
    BY <1>r, <2>0, <2>1, <2>2
  <2>3. CASE Conclude(w, "cancelled") \/ Conclude(w, "paused")
    <3>1. UNCHANGED <<job, at, tried>>
      BY <1>2, <2>3 DEF RenewLease, Return, Conclude, Goto, TypeOK, LocalTypes
    <3>2. Place(w)' /\ pc'[w] = "settle"
      BY <2>3, <3>1, ConcludePlace DEF Undone
    <3> QED
      BY <1>f, <1>w, <2>0, <2>1, <3>1, <3>2 DEF ActingPC
  <2>4. CASE Goto(w, "kill_check") /\ UNCHANGED <<job, at>>
    <3>1. Place(w)' /\ pc'[w] = "kill_check"
      BY <1>w, <2>0, <2>1, <2>4, ForwardPlace DEF Below, Goto, TypeOK, LocalTypes
    <3> QED
      BY <1>f, <1>w, <2>0, <2>1, <2>4, <3>1 DEF ActingPC
  <2> QED
    BY <1>2, <2>2, <2>3, <2>4 DEF RenewLease
<1>3. ASSUME NEW w \in Worker, CheckKillSwitch(w)
      PROVE  OutcomeInv'
  <2>0. pc[w] = "kill_check" /\ pc[w] \in ForwardPC /\ Others(w)
    BY <1>o, <1>3 DEF CheckKillSwitch, ForwardPC, WorkerStep
  <2>1. UNCHANGED <<step, approval, effects, policy, status, leasedBy, cursor, job, at>>
    BY <1>3 DEF CheckKillSwitch
  <2>2. CASE Conclude(w, "needs_review")
    <3>1. Place(w)' /\ pc'[w] = "settle"
      BY <2>1, <2>2, ConcludePlace DEF Undone
    <3> QED
      BY <1>f, <1>w, <2>0, <2>1, <3>1 DEF ActingPC
  <2>3. CASE Goto(w, "gate")
    <3>1. Place(w)' /\ pc'[w] = "gate"
      BY <1>w, <2>0, <2>1, <2>3, ForwardPlace DEF Below, Goto, TypeOK, LocalTypes
    <3> QED
      BY <1>f, <1>w, <2>0, <2>1, <3>1 DEF ActingPC
  <2> QED
    BY <1>3, <2>2, <2>3 DEF CheckKillSwitch
<1>4. ASSUME NEW w \in Worker, Settle(w)
      PROVE  OutcomeInv'
  <2> DEFINE c == IF verdict[w] = "succeeded" THEN NumSteps ELSE cursor[job[w]]
  <2>1. /\ pc[w] = "settle" /\ job[w] \in Run /\ verdict[w] \in RunStatus \ LeaseBearing
        /\ pc[w] \notin UndoPC
    BY <1>4 DEF Settle, TypeOK, ControlShape, UndoPC, CompensationPC
  <2>2. /\ verdict[w] \notin {"failed", "preview_blocked"}
        /\ verdict[w] = "succeeded" => Below(job[w], NumSteps)
        /\ verdict[w] \in Undone => status[job[w]] \in Undone
        /\ verdict[w] = "compensated" =>
             \A i \in Compensable :
               step[job[w]][i] = "succeeded" => Undo(job[w], i) = "succeeded"
    BY <1>0, <2>1 DEF Place
  <2>3. c \in 0 .. NumSteps /\ Below(job[w], c)
    BY <1>0, <2>1, <2>2, Indexes DEF RowsInv, TypeOK, RunTypes
  <2>4. verdict[w] \in Undone \cup {"failed"} => HasFailed(job[w])
    BY <1>0, <2>1, <2>2 DEF StatusInv
  <2>5. /\ OwnedWrite(w, verdict[w], c) /\ Return(w)
        /\ UNCHANGED <<step, approval, effects, policy>>
    BY <1>4 DEF Settle
  <2>6. Others(w)
    BY <1>o, <1>4 DEF WorkerStep
  <2> QED
    BY <2>1, <2>2, <2>3, <2>4, <2>5, <2>6, StopKeeps
<1>5. ASSUME NEW w \in Worker, SkipSucceeded(w)
      PROVE  OutcomeInv'
  <2>0. /\ pc[w] = "gate" /\ pc[w] \in ForwardPC /\ Others(w)
        /\ step[job[w]][at[w]] = "succeeded"
    BY <1>o, <1>5 DEF SkipSucceeded, AtGate, ForwardPC, WorkerStep
  <2>1. /\ UNCHANGED <<step, approval, effects, policy, status, leasedBy, job, tried>>
        /\ SetCursor(w) \/ UNCHANGED cursor
        /\ Advance(w, at[w] + 1)
    BY <1>5 DEF SkipSucceeded
  <2>2. PICK i \in ActionStep : i = at[w]
    BY <1>w, <2>0
  <2>3. Below(job[w], i + 1)'
    BY <1>w, <2>0, <2>1, <2>2, Indexes DEF Below, Step
  <2>4. Place(w)' /\ pc'[w] \notin ActingPC
    BY <1>w, <2>0, <2>1, <2>2, <2>3, AdvancePlace, AdvanceLeaves DEF Leaves
  <2> QED
    BY <1>f, <1>w, <2>0, <2>1, <2>4
<1>6. ASSUME NEW w \in Worker, SkipFailed(w)
      PROVE  OutcomeInv'
  <2>1. pc[w] = "gate" /\ pc[w] \in ForwardPC /\ Others(w) /\ step[job[w]][at[w]] = "failed"
    BY <1>o, <1>6 DEF SkipFailed, AtGate, ForwardPC, WorkerStep
  <2>2. FailRun(w, at[w]) /\ UNCHANGED <<step, approval, effects, policy>>
    BY <1>6 DEF SkipFailed
  <2> QED
    BY <1>w, <2>1, <2>2, FailRunKeeps
<1>7. ASSUME NEW w \in Worker, SkipUnknown(w) \/ BlockedByPolicy(w) \/ AwaitApproval(w)
      PROVE  OutcomeInv'
  <2>1. /\ pc[w] = "gate" /\ UNCHANGED <<approval, effects, policy>>
        /\ StopAtGate(w, "needs_review") \/ StopAtGate(w, "waiting_approval")
    BY <1>7 DEF SkipUnknown, BlockedByPolicy, AwaitApproval, AtGate
  <2> QED
    BY <1>o, <1>s, <1>7, <2>1 DEF WorkerStep
<1>8. ASSUME NEW w \in Worker, MarkUnknown(w)
      PROVE  OutcomeInv'
  <2>0. /\ pc[w] = "gate" /\ pc[w] \in ForwardPC /\ Others(w)
        /\ step[job[w]][at[w]] = "dispatched"
    BY <1>o, <1>8 DEF MarkUnknown, AtGate, ForwardPC, WorkerStep
  <2>1. /\ SetStep(job[w], at[w], "unknown") /\ SetCursor(w) /\ Conclude(w, "needs_review")
        /\ UNCHANGED <<approval, effects, policy, status, leasedBy, job>>
    BY <1>8 DEF MarkUnknown
  <2>2. Place(w)' /\ pc'[w] = "settle"
    BY <2>1, ConcludePlace DEF Undone
  <2> QED
    BY <2>0, <2>1, <2>2, ForwardRowKeeps DEF ActingPC
<1>9. ASSUME NEW w \in Worker, Redispatch(w)
      PROVE  OutcomeInv'
  <2>0. /\ pc[w] = "gate" /\ pc[w] \in ForwardPC /\ Others(w)
        /\ step[job[w]][at[w]] = "retrying" /\ UNCHANGED <<approval, effects, policy>>
    BY <1>o, <1>9 DEF Redispatch, AtGate, ForwardPC, WorkerStep
  <2>1. CASE Dispatch(w)
    <3>1. /\ approval[job[w]][at[w]] # "pending"
          /\ Adapter[at[w]] = "missing" \/ Sanctioned(job[w], at[w])
      BY <1>0, <1>w, <2>0 DEF RowsInv
    <3> QED
      BY <2>0, <2>1, <3>1, DispatchKeeps
  <2>2. CASE StopAtGate(w, "needs_review")
    BY <1>s, <2>0, <2>2
  <2> QED
    BY <1>9, <2>1, <2>2 DEF Redispatch
<1>10. ASSUME NEW w \in Worker, GateUndispatchable(w)
       PROVE  OutcomeInv'
  <2>0. /\ pc[w] = "gate" /\ pc[w] \in ForwardPC /\ Others(w)
        /\ step[job[w]][at[w]] = "none" /\ UNCHANGED <<approval, effects, policy>>
        /\ Adapter[at[w]] # "authorized"
    BY <1>o, <1>10 DEF GateUndispatchable, AtGate, ForwardPC, WorkerStep
  <2>1. approval[job[w]][at[w]] # "pending"
    BY <1>0, <1>w, <2>0 DEF RowsInv
  <2>2. CASE PolicyOf(job[w]).mode = "preview_only"
    BY <1>s, <1>10, <2>0, <2>2 DEF GateUndispatchable
  <2>3. CASE PolicyOf(job[w]).mode # "preview_only" /\ Adapter[at[w]] = "missing"
    BY <1>10, <2>0, <2>1, <2>3, DispatchKeeps DEF GateUndispatchable
  <2>4. CASE PolicyOf(job[w]).mode # "preview_only" /\ Adapter[at[w]] # "missing"
    <3>1. /\ SetStep(job[w], at[w], "failed") /\ SetCursor(w) /\ Goto(w, "step_failed")
          /\ UNCHANGED <<status, leasedBy, job, at>>
      BY <1>10, <2>4 DEF GateUndispatchable
    <3>2. /\ step'[job[w]][at[w]] = "failed"
          /\ \A j \in Step \ {at[w]} : step'[job[w]][j] = step[job[w]][j]
      BY <1>w, <2>0, <3>1 DEF TypeOK, RowTypes, SetStep
    <3>3. Below(job[w], at[w])'
      BY <1>w, <2>0, <3>1, <3>2, Indexes DEF Below, Step
    <3>4. Place(w)' /\ pc'[w] = "step_failed"
      BY <3>1, <3>2, <3>3, ForwardPlace DEF Goto, TypeOK, LocalTypes
    <3> QED
      BY <2>0, <2>1, <3>1, <3>4, ForwardRowKeeps DEF ActingPC
  <2> QED
    BY <2>2, <2>3, <2>4
<1>11. ASSUME NEW w \in Worker, RequestApproval(w)
       PROVE  OutcomeInv'
  <2> DEFINE r == job[w]
             i == at[w]
  <2>0. /\ pc[w] = "gate" /\ pc[w] \in ForwardPC /\ Others(w) /\ step[r][i] = "none"
        /\ Adapter[i] = "authorized" /\ RequiresApproval(r, i) /\ approval[r][i] # "approved"
    BY <1>o, <1>11 DEF RequestApproval, AtGate, Authorized, Approved, ForwardPC, WorkerStep
  <2>1. /\ approval' = [approval EXCEPT ![r][i] = "pending"] /\ SetCursor(w)
        /\ Conclude(w, "waiting_approval")
        /\ UNCHANGED <<status, leasedBy, step, effects, policy, job>>
    BY <1>11 DEF RequestApproval
  <2>2. /\ approval'[r][i] = "pending"
        /\ \A q \in Run, j \in Step : q # r \/ j # i => approval'[q][j] = approval[q][j]
    BY <1>w, <2>0, <2>1 DEF TypeOK, RowTypes
  <2>3. \A q \in Run : RowsMove(q)
    BY <1>0, <1>w, <2>0, <2>1, <2>2 DEF RowsMove, RowMove, RowsInv, PolicyOf
  <2>4. \A q \in Run : Below(q, cursor'[q])
    BY <1>0, <1>w, <2>0, <2>1, SetCursorBelow
  <2>5. \A q \in Run : TableMove(q)
    BY <2>1, <2>3, <2>4 DEF TableMove, StatusMove
  <2>6. Place(w)' /\ pc'[w] = "settle"
    BY <2>1, ConcludePlace DEF Undone
  <2>7. OwnerAt(w)'
    BY <1>0, <1>w, <2>0, <2>1, OwnerForward
  <2>8. Recorded
    BY <2>1 DEF Recorded
  <2> QED
    BY <1>n, <2>0, <2>1, <2>5, <2>6, <2>7, <2>8, WorkerKeeps DEF ActingPC
<1>12. ASSUME NEW w \in Worker, FirstDispatch(w)
       PROVE  OutcomeInv'
  <2>0. /\ pc[w] = "gate" /\ pc[w] \in ForwardPC /\ Others(w)
        /\ step[job[w]][at[w]] = "none" /\ UNCHANGED <<approval, effects, policy>>
        /\ Approved(w)
    BY <1>o, <1>12 DEF FirstDispatch, AtGate, ForwardPC, WorkerStep
  <2>1. CASE PolicyOf(job[w]).mode = "preview_only"
    BY <1>s, <1>12, <2>0, <2>1 DEF FirstDispatch
  <2>2. CASE PolicyOf(job[w]).mode # "preview_only"
    <3>1. Dispatch(w)
      BY <1>12, <2>2 DEF FirstDispatch
    <3>2. approval[job[w]][at[w]] # "pending"
      BY <1>0, <1>w, <2>0 DEF RowsInv, Approved
    <3>3. Sanctioned(job[w], at[w])
      BY <2>0, <2>2 DEF Approved, RequiresApproval, Sanctioned
    <3> QED
      BY <2>0, <3>1, <3>2, <3>3, DispatchKeeps
  <2> QED
    BY <2>1, <2>2
<1>13. ASSUME NEW w \in Worker, Execute(w)
       PROVE  OutcomeInv'
  <2> DEFINE r == job[w]
             i == at[w]
  <2>0. /\ pc[w] = "execute" /\ pc[w] \in ForwardPC /\ Others(w) /\ Sanctioned(r, i)
    BY <1>0, <1>o, <1>13 DEF Execute, ForwardPC, WorkerStep, Place
  <2>1. /\ effects' = [effects EXCEPT ![r][i] = @ + 1] /\ Goto(w, "record")
        /\ UNCHANGED <<status, cursor, leasedBy, step, approval, policy, job, at>>
    BY <1>13 DEF Execute, CountEffect
  <2>2. \A q \in Run, j \in Step : q # r \/ j # i => effects'[q][j] = effects[q][j]
    BY <1>w, <2>0, <2>1 DEF TypeOK, RowTypes
  <2>3. \A q \in Run : RowsMove(q)
    BY <1>0, <1>w, <2>0, <2>1, <2>2 DEF RowsMove, RowMove, RowsInv, PolicyOf
  <2>4. \A q \in Run : TableMove(q)
    BY <1>0, <2>1, <2>3, SameStatus DEF TableMove
  <2>5. Place(w)'
    BY <1>w, <2>0, <2>1, ForwardPlace DEF Below, Sanctioned, PolicyOf
  <2>6. OwnerAt(w)'
    BY <1>0, <1>w, <2>0, <2>1, OwnerForward
  <2>7. \A q \in Run, j \in Step : InFlight(w, q, j)' => InFlight(w, q, j)
    BY <2>0, <2>1 DEF InFlight, Goto, TypeOK, LocalTypes
  <2>8. Recorded
    BY <2>1 DEF Recorded
  <2> QED
    BY <2>0, <2>1, <2>4, <2>5, <2>6, <2>7, <2>8, WorkerKeeps
<1>14. ASSUME NEW w \in Worker, FailUnregistered(w) \/ RecordFailure(w)
       PROVE  OutcomeInv'
  <2>0. /\ pc[w] \in {"execute", "record"} /\ pc[w] \in ForwardPC /\ Others(w)
    BY <1>o, <1>14 DEF FailUnregistered, RecordFailure, ForwardPC, WorkerStep
  <2>1. /\ SetStep(job[w], at[w], "failed") /\ Goto(w, "step_failed")
        /\ UNCHANGED <<status, cursor, leasedBy, approval, effects, policy, job, at>>
    BY <1>14 DEF FailUnregistered, RecordFailure
  <2>2. step[job[w]][at[w]] \in {"dispatched", "unknown"}
    BY <1>0, <1>w, <2>0 DEF CallInv, InFlight
  <2>3. /\ step'[job[w]][at[w]] = "failed"
        /\ \A j \in Step \ {at[w]} : step'[job[w]][j] = step[job[w]][j]
    BY <1>w, <2>0, <2>1 DEF TypeOK, RowTypes, SetStep
  <2>4. Below(job[w], at[w])'
    BY <1>w, <2>0, <2>1, <2>3, Indexes DEF Below, Step
  <2>5. Place(w)' /\ pc'[w] = "step_failed"
    BY <2>1, <2>3, <2>4, ForwardPlace DEF Goto, TypeOK, LocalTypes
  <2> QED
    BY <2>0, <2>1, <2>2, <2>5, ForwardRowKeeps DEF ActingPC
<1>15. ASSUME NEW w \in Worker, RecordSuccess(w)
       PROVE  OutcomeInv'
  <2>0. /\ pc[w] = "record" /\ pc[w] \in ForwardPC /\ Others(w)
    BY <1>o, <1>15 DEF RecordSuccess, ForwardPC, WorkerStep
  <2>1. /\ SetStep(job[w], at[w], "succeeded") /\ Advance(w, at[w] + 1)
        /\ UNCHANGED <<status, cursor, leasedBy, approval, effects, policy, job, tried>>
    BY <1>15 DEF RecordSuccess
  <2>2. step[job[w]][at[w]] \in {"dispatched", "unknown"}
    BY <1>0, <1>w, <2>0 DEF CallInv, InFlight
  <2>3. PICK i \in ActionStep : i = at[w]
    BY <1>w, <2>0
  <2>4. /\ step'[job[w]][i] = "succeeded"
        /\ \A j \in Step \ {i} : step'[job[w]][j] = step[job[w]][j]
    BY <1>w, <2>0, <2>1, <2>3 DEF TypeOK, RowTypes, SetStep
  <2>5. Below(job[w], i + 1)'
    BY <1>w, <2>0, <2>1, <2>3, <2>4, Indexes DEF Below, Step
  <2>6. Place(w)' /\ pc'[w] \notin ActingPC
    BY <1>w, <2>0, <2>1, <2>3, <2>5, AdvancePlace, AdvanceLeaves DEF Leaves
  <2> QED
    BY <2>0, <2>1, <2>2, <2>6, ForwardRowKeeps
<1>16. ASSUME NEW w \in Worker, RecordTransient(w)
       PROVE  OutcomeInv'
  <2> DEFINE r == job[w]
             i == at[w]
  <2>0. /\ pc[w] = "record" /\ pc[w] \in ForwardPC /\ Others(w) /\ Return(w)
        /\ UNCHANGED <<cursor, approval, effects, policy>>
        /\ Adapter[i] = "missing" \/ Sanctioned(r, i)
    BY <1>0, <1>o, <1>16 DEF RecordTransient, ForwardPC, WorkerStep, Place
  <2>1. CASE ~Owns(w)
    BY <1>r, <1>16, <2>0, <2>1 DEF RecordTransient
  <2>2. CASE Owns(w)
    <3>1. /\ status' = [status EXCEPT ![r] = "queued"] /\ SetStep(r, i, "retrying")
          /\ leasedBy' = [leasedBy EXCEPT ![r] = NoWorker]
      BY <1>16, <2>2 DEF RecordTransient, ReleaseLease
    <3>2. step[r][i] \in {"dispatched", "unknown"}
      BY <1>0, <1>w, <2>0 DEF CallInv, InFlight
    <3>3. RowMove(r, i) /\ approval[r][i] # "pending"
      BY <1>0, <1>w, <2>0, <3>1, <3>2 DEF TypeOK, RowTypes, SetStep, RowMove, RowsInv
    <3>4. \A q \in Run : RowsMove(q)
      BY <1>0, <1>w, <2>0, <3>1, <3>3, OneRow
    <3>5. status[r] \in {"leased", "running"}
      BY <1>0, <1>w, <2>0, <2>2, NotCompensating
    <3>6. \A q \in Run :
            /\ q = r => status'[q] = "queued"
            /\ q # r => status'[q] = status[q] /\ leasedBy'[q] = leasedBy[q]
      BY <1>w, <2>0, <3>1 DEF TypeOK, RunTypes
    <3>7. \A q \in Run : TableMove(q)
      BY <1>0, <2>0, <3>4, <3>5, <3>6 DEF TableMove, StatusMove, Undone, RowsInv
    <3>8. Place(w)' /\ job'[w] = NoRun
      BY <2>0, ReturnPlace
    <3>9. OwnerAt(w)' /\ \A q \in Run, j \in Step : ~InFlight(w, q, j)'
      BY <3>8, ConstantAssumption DEF OwnerAt, InFlight
    <3>10. Recorded
      <4>1. \A q \in Run, j \in Step : step'[q][j] = step[q][j] \/ step'[q][j] = "retrying"
        BY <1>w, <2>0, <3>1 DEF TypeOK, RowTypes, SetStep
      <4> QED
        BY <4>1 DEF Recorded
    <3> QED
      BY <2>0, <3>6, <3>7, <3>8, <3>9, <3>10, WorkerKeeps
  <2> QED
    BY <2>1, <2>2
<1>17. ASSUME NEW w \in Worker, AfterFailure(w)
       PROVE  OutcomeInv'
  <2>0. /\ pc[w] = "step_failed" /\ Others(w) /\ job[w] \in Run
        /\ step[job[w]][at[w]] = "failed"
    BY <1>0, <1>w, <1>o, <1>17 DEF AfterFailure, WorkerStep, Place
  <2>1. FailRun(w, cursor[job[w]]) /\ UNCHANGED <<step, approval, effects, policy>>
    BY <1>17 DEF AfterFailure
  <2>2. cursor[job[w]] \in 0 .. NumSteps /\ Below(job[w], cursor[job[w]])
    BY <1>0, <2>0 DEF TypeOK, RunTypes, RowsInv
  <2> QED
    BY <2>0, <2>1, <2>2, FailRunKeeps
<1>18. ASSUME NEW w \in Worker, CompensationDone(w)
       PROVE  OutcomeInv'
  <2> DEFINE s == IF clean[w] THEN "compensated" ELSE "compensation_failed"
  <2>0. /\ pc[w] = "comp_renew" /\ job[w] \in Run /\ todo[w] = {} /\ Others(w)
        /\ status[job[w]] \in Undone /\ Compensated(w, {})
    BY <1>0, <1>w, <1>o, <1>18 DEF CompensationDone, WorkerStep, Place, UndoPC
  <2>1. /\ Conclude(w, s)
        /\ UNCHANGED <<status, cursor, leasedBy, step, approval, effects, policy, job, at>>
    BY <1>18 DEF CompensationDone
  <2>2. s = "compensated" =>
          \A i \in Compensable :
            step'[job[w]][i] = "succeeded" => step'[job[w]][CompensateRef[i]] = "succeeded"
    BY <2>0, <2>1 DEF Compensated, Undo
  <2>3. Place(w)' /\ pc'[w] = "settle" /\ verdict'[w] = s
    BY <2>0, <2>1, <2>2, ConcludePlace DEF Undone
  <2>4. OwnerAt(w)'
    BY <2>3 DEF OwnerAt, Undone
  <2> QED
    BY <1>0, <1>n, <2>0, <2>1, <2>3, <2>4, SameStatus, QuietStep DEF ActingPC
<1>19. ASSUME NEW w \in Worker, CompensationRenew(w)
       PROVE  OutcomeInv'
  <2>0. /\ pc[w] = "comp_renew" /\ job[w] \in Run /\ Others(w)
        /\ UNCHANGED <<status, cursor, leasedBy, step, approval, effects, policy>>
    BY <1>w, <1>o, <1>19 DEF CompensationRenew, WorkerStep
  <2>1. CASE Return(w)
    BY <1>r, <2>0, <2>1
  <2>2. CASE ~Return(w)
    <3>1. PICK i \in Step :
            /\ NextToCompensate(w, i) /\ at' = [at EXCEPT ![w] = i] /\ Goto(w, "comp_gate")
            /\ UNCHANGED <<job, todo, clean>>
      BY <1>19, <2>2 DEF CompensationRenew
    <3>2. at'[w] = i /\ pc'[w] = "comp_gate"
      BY <3>1 DEF TypeOK, LocalTypes, Goto
    <3>3. /\ status[job[w]] \in Undone
          /\ \A j \in todo[w] : step[job[w]][j] = "succeeded"
          /\ Compensated(w, todo[w])
      BY <1>0, <2>0 DEF Place, UndoPC
    <3>4. NextToCompensate(w, at[w])'
      BY <3>1, <3>2 DEF NextToCompensate
    <3>5. Compensated(w, todo[w])'
      BY <2>0, <3>1, <3>3 DEF Compensated, Undo
    <3>6. Place(w)'
      BY <2>0, <3>1, <3>2, <3>3, <3>4, <3>5 DEF Place, ForwardPC, CompensationPC, UndoPC
    <3>7. OwnerAt(w)'
      BY <3>2 DEF OwnerAt, UndoPC, CompensationPC
    <3> QED
      BY <1>0, <1>n, <2>0, <3>2, <3>6, <3>7, SameStatus, QuietStep DEF ActingPC
  <2> QED
    BY <2>1, <2>2
<1>20. ASSUME NEW w \in Worker, CompensationGate(w)
       PROVE  OutcomeInv'
  <2> DEFINE r == job[w]
             i == at[w]
             c == CompensateRef[i]
  <2>0. /\ pc[w] = "comp_gate" /\ pc[w] \in CompensationPC /\ pc[w] \in UndoPC /\ Others(w)
        /\ r \in Run /\ i \in Compensable /\ c \in Step \ ActionStep
        /\ UNCHANGED <<status, cursor, leasedBy, approval, effects, policy>>
    BY <1>w, <1>o, <1>20 DEF CompensationGate, CompensationPC, UndoPC, WorkerStep
  <2>1. /\ NextToCompensate(w, i) /\ status[r] \in Undone
        /\ \A j \in todo[w] : step[r][j] = "succeeded"
        /\ Compensated(w, todo[w])
    BY <1>0, <2>0 DEF Place
  <2>2. \A q \in Run : StatusMove(q) /\ Below(q, cursor'[q])
    BY <1>0, <2>0, SameStatus
  <2>3. CASE step[r][c] = "none"
    <3>1. /\ SetStep(r, c, "dispatched") /\ Goto(w, "comp_execute")
          /\ UNCHANGED <<job, at, todo, clean>>
      BY <1>20, <2>3 DEF CompensationGate
    <3>2. step'[r][c] = "dispatched" /\ pc'[w] = "comp_execute"
      BY <2>0, <3>1 DEF TypeOK, RowTypes, LocalTypes, SetStep, Goto
    <3>3. ASSUME NEW k \in Compensable, i < k, step[r][k] = "succeeded"
          PROVE  Undo(r, k) \notin {"none", "dispatched"}
      <4>1. i \in Nat /\ k \in Nat
        BY <2>0, Indexes DEF Step
      <4>2. k \notin todo[w]
        BY <2>1, <3>3, <4>1 DEF NextToCompensate
      <4> QED
        BY <2>1, <3>3, <4>2 DEF Compensated
    <3>4. RowMove(r, c) /\ approval[r][c] # "pending"
      <4>1. step[r][i] = "succeeded"
        BY <2>1 DEF NextToCompensate
      <4>2. RowMove(r, c)
        BY <2>0, <2>1, <2>3, <3>2, <3>3, <4>1 DEF RowMove
      <4> QED
        BY <1>0, <2>0, <4>2 DEF RowsInv
    <3>5. RowsMove(r)
      BY <1>0, <2>0, <3>1, <3>4, OneRow
    <3>6. Onward(r)
      BY <1>0, <2>0, <2>2, <3>5, TableOnward DEF TableMove
    <3>7. /\ status'[job'[w]] \in Undone
          /\ \A j \in todo'[w] : step'[job'[w]][j] = "succeeded"
          /\ Compensated(w, todo[w])'
      BY <1>0, <2>0, <2>1, <3>1, <3>6, UndoPlace
    <3>8. NextToCompensate(w, at[w])'
      BY <2>1, <3>1 DEF NextToCompensate
    <3>9. Place(w)'
      BY <3>2, <3>7, <3>8 DEF Place, ForwardPC, CompensationPC, UndoPC
    <3>10. OwnerAt(w)'
      BY <3>2 DEF OwnerAt, UndoPC, CompensationPC
    <3>11. \A q \in Run, j \in Step : InFlight(w, q, j)' => q = r /\ j = c
      BY <3>1, <3>2 DEF InFlight
    <3> QED
      BY <2>0, <2>2, <3>1, <3>2, <3>4, <3>9, <3>10, <3>11, RowStep
  <2>4. CASE step[r][c] = "dispatched"
    <3>1. SetStep(r, c, "unknown") /\ CompensationOutcome(w, FALSE)
      BY <1>20, <2>4 DEF CompensationGate
    <3> QED
      BY <2>0, <2>4, <3>1, CompensationRowKeeps
  <2>5. CASE step[r][c] \notin {"none", "dispatched"}
    <3>1. UNCHANGED step /\ CompensationOutcome(w, step[r][c] = "succeeded")
      BY <1>20, <2>5 DEF CompensationGate
    <3>2. \A q \in Run : PolicyOf(q)'.mode = PolicyOf(q).mode
      BY <2>0 DEF PolicyOf
    <3>3. \A q \in Run : RowsMove(q)
      BY <1>0, <2>0, <3>1, <3>2, QuietRows
    <3>4. Onward(r)
      BY <1>0, <2>0, <2>2, <3>3, TableOnward DEF TableMove
    <3>5. Place(w)' /\ pc'[w] = "comp_renew"
      BY <2>0, <2>5, <3>1, <3>4, OutcomePlace
    <3>6. OwnerAt(w)'
      BY <3>5 DEF OwnerAt, UndoPC
    <3> QED
      BY <1>n, <2>0, <2>2, <3>1, <3>5, <3>6, QuietStep DEF ActingPC
  <2> QED
    BY <2>3, <2>4, <2>5
<1>21. ASSUME NEW w \in Worker, CompensationRefused(w) \/ CompensationRecord(w)
       PROVE  OutcomeInv'
  <2>0. /\ pc[w] \in {"comp_execute", "comp_record"} /\ pc[w] \in CompensationPC /\ Others(w)
        /\ UNCHANGED <<status, cursor, leasedBy, approval, effects, policy>>
    BY <1>o, <1>21 DEF CompensationRefused, CompensationRecord, CompensationPC, WorkerStep
  <2>1. step[job[w]][CompensateRef[at[w]]] \in {"dispatched", "unknown"}
    BY <1>0, <1>w, <2>0 DEF CallInv, InFlight
  <2>2. PICK s \in {"succeeded", "failed"} :
          /\ SetStep(job[w], CompensateRef[at[w]], s)
          /\ CompensationOutcome(w, s = "succeeded")
    BY <1>21 DEF CompensationRefused, CompensationRecord
  <2> QED
    BY <2>0, <2>1, <2>2, CompensationRowKeeps
<1>22. ASSUME NEW w \in Worker, CompensationExecute(w)
       PROVE  OutcomeInv'
  <2> DEFINE r == job[w]
             c == CompensateRef[at[w]]
  <2>0. /\ pc[w] = "comp_execute" /\ pc[w] \in CompensationPC /\ pc[w] \in UndoPC /\ Others(w)
        /\ r \in Run /\ at[w] \in Compensable /\ c \in Step
    BY <1>w, <1>o, <1>22 DEF CompensationExecute, CompensationPC, UndoPC, WorkerStep
  <2>1. /\ effects' = [effects EXCEPT ![r][c] = @ + 1] /\ Goto(w, "comp_record")
        /\ UNCHANGED <<status, cursor, leasedBy, step, approval, policy, job, at, todo, clean>>
    BY <1>22 DEF CompensationExecute, CountEffect
  <2>2. pc'[w] = "comp_record"
    BY <2>1 DEF Goto, TypeOK, LocalTypes
  <2>3. \A q \in Run, j \in Step : q # r \/ j # c => effects'[q][j] = effects[q][j]
    BY <2>0, <2>1 DEF TypeOK, RowTypes
  <2>4. \A q \in Run : RowsMove(q)
    BY <1>0, <2>0, <2>1, <2>3 DEF RowsMove, RowMove, RowsInv, PolicyOf
  <2>5. \A q \in Run : TableMove(q)
    BY <1>0, <2>1, <2>4, SameStatus DEF TableMove
  <2>6. Place(w)'
    <3>1. Place(w)
      BY <1>0
    <3>2. Compensated(w, todo[w]) => Compensated(w, todo[w])'
      BY <2>1 DEF Compensated, Undo
    <3>3. NextToCompensate(w, at[w]) => NextToCompensate(w, at[w])'
      BY <2>1 DEF NextToCompensate
    <3> QED
      BY <2>0, <2>1, <2>2, <3>1, <3>2, <3>3 DEF Place, ForwardPC, CompensationPC, UndoPC
  <2>7. OwnerAt(w)' /\ \A q \in Run, j \in Step : InFlight(w, q, j)' => InFlight(w, q, j)
    BY <2>0, <2>1, <2>2 DEF OwnerAt, UndoPC, CompensationPC, InFlight
  <2>8. Recorded
    BY <2>1 DEF Recorded
  <2> QED
    BY <2>0, <2>1, <2>5, <2>6, <2>7, <2>8, WorkerKeeps
<1>23. ASSUME NEW w \in Worker, Crash(w)
       PROVE  OutcomeInv'
  BY <1>o, <1>r, <1>23 DEF Crash
<1>24. ASSUME NEW w \in Worker, NEW r \in Run, Claim(w, r)
       PROVE  OutcomeInv'
  <2>1. /\ status' = [status EXCEPT ![r] = "leased"]
        /\ leasedBy' = [leasedBy EXCEPT ![r] = w]
        /\ Goto(w, "mark") /\ job' = [job EXCEPT ![w] = r]
        /\ UNCHANGED <<cursor, step, approval, effects, policy>>
        /\ status[r] \in {"queued", "leased", "running"}
    BY <1>24 DEF Claim, Claimable
  <2>2. /\ status'[r] = "leased" /\ leasedBy'[r] = w
        /\ \A q \in Run \ {r} : status'[q] = status[q] /\ leasedBy'[q] = leasedBy[q]
        /\ pc'[w] = "mark" /\ job'[w] = r
    BY <2>1 DEF TypeOK, RunTypes, LocalTypes, Goto
  <2>3. \A q \in Run : StatusMove(q) /\ Below(q, cursor'[q])
    BY <1>0, <2>1, <2>2 DEF StatusMove, Undone, RowsInv
  <2>4. Place(w)' /\ OwnerAt(w)'
    BY <2>2 DEF Place, OwnerAt, ForwardPC, CompensationPC, UndoPC
  <2> QED
    BY <1>n, <1>o, <1>24, <2>1, <2>2, <2>3, <2>4, QuietStep DEF ActingPC
<1>25. ASSUME NEW r \in Run, LeaseLapses(r) \/ BackoffElapses(r)
       PROVE  OutcomeInv'
  BY <1>q, <1>25 DEF LeaseLapses, BackoffElapses, StatusMove
<1>26. ASSUME NEW r \in Run, Enqueue(r) \/ Cancel(r) \/ Pause(r)
       PROVE  OutcomeInv'
  <2>1. \A q \in Run :
          \/ status'[q] = status[q]
          \/ status[q] \notin Undone /\ status'[q] \in {"queued", "cancelled", "paused"}
    BY <1>26 DEF Enqueue, Cancel, CancelNow, Pause, Cancellable, Undone, TypeOK, RunTypes
  <2>2. \A q \in Run : StatusMove(q)
    BY <2>1 DEF StatusMove, Undone
  <2> QED
    BY <1>q, <1>26, <2>1, <2>2 DEF Enqueue, Cancel, Pause, OnlyRuns
<1>27. ASSUME NEW r \in Run, Resume(r)
       PROVE  OutcomeInv'
  <2>1. \A q \in Run :
          \/ status'[q] = status[q] /\ leasedBy'[q] = leasedBy[q]
          \/ status[q] = "paused" /\ status'[q] = "queued"
    BY <1>27 DEF Resume, ReleaseLease, TypeOK, RunTypes
  <2>2. \A q \in Run : StatusMove(q)
    BY <2>1 DEF StatusMove, Undone
  <2> QED
    BY <1>q, <1>27, <2>1, <2>2 DEF Resume, OnlyRuns
<1>28. ASSUME NEW scope \in Workflow \cup {Everything}, ActivateKillSwitch(scope)
       PROVE  OutcomeInv'
  <2>1. \A q \in Run :
          \/ status'[q] = status[q] /\ leasedBy'[q] = leasedBy[q]
          \/ status[q] = "queued" /\ status'[q] = "needs_review"
    BY <1>28 DEF ActivateKillSwitch
  <2>2. \A q \in Run : StatusMove(q)
    BY <2>1 DEF StatusMove, Undone
  <2> QED
    BY <1>q, <1>28, <2>1, <2>2 DEF ActivateKillSwitch
<1>29. ASSUME NEW scope \in Workflow \cup {Everything}, DeactivateKillSwitch(scope)
       PROVE  OutcomeInv'
  BY <1>q, <1>29 DEF DeactivateKillSwitch, StatusMove
<1>30. ASSUME NEW f \in Workflow, PolicyLapses(f)
       PROVE  OutcomeInv'
  <2>1. /\ policy' = [policy EXCEPT ![f].usable = FALSE]
        /\ UNCHANGED <<runVars, stepVars, approval, localVars, auxVars>>
    BY <1>30 DEF PolicyLapses
  <2>2. \A q \in Run : PolicyOf(q)'.mode = PolicyOf(q).mode
    BY <2>1, ConstantAssumption DEF PolicyOf, TypeOK, RowTypes, Policy
  <2>3. \A q \in Run : TableMove(q)
    BY <1>0, <2>1, <2>2, QuietRows, SameStatus DEF TableMove
  <2>4. Recorded
    BY <2>1 DEF Recorded
  <2> QED
    BY <2>1, <2>3, <2>4, WorldKeeps
<1>31. ASSUME NEW r \in Run, NEW i \in Step, Approve(r, i) \/ Reject(r, i) \/ ApprovalExpires(r, i)
       PROVE  OutcomeInv'
  <2>0. /\ approval[r][i] = "pending" /\ i \in ActionStep /\ step[r][i] = "none"
        /\ UNCHANGED <<cursor, effects, policy, pc, job, at, verdict, todo, clean>>
    BY <1>0, <1>31 DEF Approve, Reject, ApprovalExpires, DecisionUnchanged, RowsInv
  <2>1. PICK s \in {"approved", "rejected", "lapsed"} : approval' = [approval EXCEPT ![r][i] = s]
    BY <1>31 DEF Approve, Reject, ApprovalExpires
  <2>2. /\ approval'[r][i] \notin {"pending"}
        /\ \A q \in Run, j \in Step : q # r \/ j # i => approval'[q][j] = approval[q][j]
    BY <2>1 DEF TypeOK, RowTypes
  <2>3. \A q \in Run :
          \/ status'[q] = status[q] /\ leasedBy'[q] = leasedBy[q]
          \/ status[q] = "waiting_approval" /\ status'[q] = "queued"
    BY <1>31 DEF Approve, Reject, ApprovalExpires, Requeue, DecisionApplies, ReleaseLease, TypeOK, RunTypes
  <2>4. /\ \A q \in Run, j \in Step : q # r \/ j # i => step'[q][j] = step[q][j]
        /\ step'[r][i] = "none" \/ (step'[r][i] = "failed" /\ cursor[r] = i)
    BY <1>31, <2>0 DEF Approve, Reject, ApprovalExpires, DecisionApplies, SetStep, TypeOK, RowTypes
  <2>5. \A j \in Step : RowMove(r, j)
    BY <1>0, <2>0, <2>4 DEF RowMove, RowsInv
  <2>6. \A q \in Run : RowsMove(q)
    BY <1>0, <2>0, <2>2, <2>4, <2>5 DEF RowsMove, RowMove, RowsInv, PolicyOf
  <2>7. \A q \in Run : TableMove(q)
    BY <1>0, <2>0, <2>3, <2>6 DEF TableMove, StatusMove, Undone, RowsInv
  <2>8. Recorded
    BY <2>0, <2>4 DEF Recorded
  <2> QED
    BY <2>0, <2>3, <2>7, <2>8, WorldKeeps
<1>32. ASSUME UNCHANGED vars
       PROVE  OutcomeInv'
  BY <1>q, <1>32 DEF vars, StatusMove
<1> QED
  BY <1>1, <1>2, <1>3, <1>4, <1>5, <1>6, <1>7, <1>8, <1>9, <1>10, <1>11, <1>12, <1>13, <1>14,
     <1>15, <1>16, <1>17, <1>18, <1>19, <1>20, <1>21, <1>22, <1>23, <1>24, <1>25, <1>26, <1>27,
     <1>28, <1>29, <1>30, <1>31, <1>32
  DEF Next, WorkerStep, OperatorStep, TimeStep

\* What rows, statuses and workers say of each other is so in every reachable
\* state of any number of runs, workers and crashes.
THEOREM OutcomeHolds == Spec => []OutcomeInv
<1>1. Init => OutcomeInv
  <2> SUFFICES ASSUME Init PROVE OutcomeInv
    OBVIOUS
  <2>1. RowsInv
    BY GraphAssumption DEF Init, RowsInv, Below, Step
  <2>2. StatusInv /\ CallInv /\ OwnerInv
    BY ConstantAssumption DEF Init, StatusInv, CallInv, OwnerInv, OwnerAt, InFlight, Undone
  <2>3. \A w \in Worker : Place(w)
    BY DEF Init, Place, ForwardPC, CompensationPC, UndoPC
  <2>4. EffectsAuthorized /\ CompensationSound /\ CompensationDescends /\ OutcomeTruthful
    BY Indexes DEF Init, EffectsAuthorized, CompensationSound, CompensationDescends, OutcomeTruthful
  <2> QED
    BY <2>1, <2>2, <2>3, <2>4 DEF OutcomeInv
<1>2. /\ TypeOK /\ TypeOK' /\ LeaseShape /\ EffectInv /\ EffectInv' /\ OutcomeInv /\ [Next]_vars
      => OutcomeInv'
  BY OutcomeStep
<1> QED
  BY <1>1, <1>2, TypeCorrect, LeaseShapeHolds, EffectsAccounted, PTL DEF Spec

\* A high-impact step and any step of a per_run policy calls its adapter only
\* after a request for it was approved, and under preview_only none is called
\* (run_step, evaluate_approval_requirement), retries and crashes included.
THEOREM EffectsAuthorizedHolds == Spec => []EffectsAuthorized
<1>1. OutcomeInv => EffectsAuthorized
  BY DEF OutcomeInv
<1> QED
  BY <1>1, OutcomeHolds, PTL

\* Only what succeeded is compensated, and only in a run that failed
\* (_qualifying_compensations, _run_compensation_sequence).
THEOREM CompensationSoundHolds == Spec => []CompensationSound
<1>1. OutcomeInv => CompensationSound
  BY DEF OutcomeInv
<1> QED
  BY <1>1, OutcomeHolds, PTL

\* No compensation is dispatched before those of all later steps have been tried
\* (the descending order of _run_compensation_sequence).
THEOREM CompensationDescendsHolds == Spec => []CompensationDescends
<1>1. OutcomeInv => CompensationDescends
  BY DEF OutcomeInv
<1> QED
  BY <1>1, OutcomeHolds, PTL

\* A run that ended says truly how: succeeded, compensated, failed or blocked as
\* a preview, whatever displaced workers recorded late.
THEOREM OutcomeTruthfulHolds == Spec => []OutcomeTruthful
<1>1. OutcomeInv => OutcomeTruthful
  BY DEF OutcomeInv
<1> QED
  BY <1>1, OutcomeHolds, PTL

\* A row whose step is ambiguous is written only by the worker whose call it was,
\* with the answer of that call (run_step, _dispatch_compensation_step).
THEOREM UnknownStep ==
  ASSUME TypeOK, RowsInv, Next, NEW r \in Run, NEW i \in Step,
         step[r][i] = "unknown", step'[r][i] # "unknown"
  PROVE  /\ step'[r][i] \notin {"none", "dispatched"}
         /\ \E w \in Worker : InFlight(w, r, i)
<1> USE DEF runVars, leaseVars, flagVars, stepVars, humanVars, localVars, auxVars, GateUnchanged
<1>0. ASSUME NEW q, NEW j, NEW s, SetStep(q, j, s)
      PROVE  q = r /\ j = i /\ step'[r][i] = s
  BY <1>0 DEF TypeOK, RowTypes, SetStep
<1>1. CASE UNCHANGED step
  BY <1>1
<1>2. ASSUME NEW w \in Worker, pc[w] = "gate", step[job[w]][at[w]] # "unknown",
             NEW s, SetStep(job[w], at[w], s)
      PROVE  FALSE
  BY <1>0, <1>2
<1>3. ASSUME NEW w \in Worker, pc[w] \in {"execute", "record"}, NEW s \in {"succeeded", "failed", "retrying"},
             SetStep(job[w], at[w], s)
      PROVE  step'[r][i] \notin {"none", "dispatched"} /\ InFlight(w, r, i)
  BY <1>0, <1>3 DEF InFlight
<1>4. ASSUME NEW w \in Worker, pc[w] \in {"comp_execute", "comp_record"}, NEW s \in {"succeeded", "failed"},
             SetStep(job[w], CompensateRef[at[w]], s)
      PROVE  step'[r][i] \notin {"none", "dispatched"} /\ InFlight(w, r, i)
  BY <1>0, <1>4 DEF InFlight
<1>5. ASSUME NEW w \in Worker,
             \/ MarkRunning(w) \/ RenewLease(w) \/ CheckKillSwitch(w) \/ Settle(w) \/ SkipSucceeded(w)
             \/ SkipFailed(w) \/ SkipUnknown(w) \/ BlockedByPolicy(w) \/ RequestApproval(w)
             \/ AwaitApproval(w) \/ Execute(w) \/ AfterFailure(w) \/ CompensationDone(w)
             \/ CompensationRenew(w) \/ CompensationExecute(w) \/ Crash(w) \/ \E q \in Run : Claim(w, q)
      PROVE  UNCHANGED step
  BY <1>5 DEF MarkRunning, RenewLease, CheckKillSwitch, Settle, SkipSucceeded, SkipFailed, SkipUnknown,
     BlockedByPolicy, RequestApproval, AwaitApproval, StopAtGate, Execute, AfterFailure,
     CompensationDone, CompensationRenew, CompensationExecute, Crash, Claim
<1>6. ASSUME NEW w \in Worker, MarkUnknown(w) \/ Redispatch(w) \/ GateUndispatchable(w) \/ FirstDispatch(w)
      PROVE  UNCHANGED step
  <2>1. pc[w] = "gate" /\ step[job[w]][at[w]] # "unknown"
    BY <1>6 DEF MarkUnknown, Redispatch, GateUndispatchable, FirstDispatch, AtGate
  <2>2. UNCHANGED step \/ \E s : SetStep(job[w], at[w], s)
    BY <1>6 DEF MarkUnknown, Redispatch, GateUndispatchable, FirstDispatch, StopAtGate, Dispatch
  <2> QED
    BY <1>2, <2>1, <2>2
<1>7. ASSUME NEW w \in Worker,
             \/ FailUnregistered(w) \/ RecordSuccess(w) \/ RecordTransient(w) \/ RecordFailure(w)
      PROVE  UNCHANGED step \/ (step'[r][i] \notin {"none", "dispatched"} /\ InFlight(w, r, i))
  <2>1. /\ pc[w] \in {"execute", "record"}
        /\ UNCHANGED step \/ \E s \in {"succeeded", "failed", "retrying"} : SetStep(job[w], at[w], s)
    BY <1>7 DEF FailUnregistered, RecordSuccess, RecordTransient, RecordFailure
  <2> QED
    BY <1>3, <2>1
<1>8. ASSUME NEW w \in Worker, CompensationGate(w)
      PROVE  UNCHANGED step
  <2> DEFINE c == CompensateRef[at[w]]
  <2>1. \/ UNCHANGED step
        \/ step[job[w]][c] \in {"none", "dispatched"} /\ \E s : SetStep(job[w], c, s)
    BY <1>8 DEF CompensationGate
  <2> QED
    BY <1>0, <2>1
<1>9. ASSUME NEW w \in Worker, CompensationRefused(w) \/ CompensationRecord(w)
      PROVE  step'[r][i] \notin {"none", "dispatched"} /\ InFlight(w, r, i)
  <2>1. /\ pc[w] \in {"comp_execute", "comp_record"}
        /\ \E s \in {"succeeded", "failed"} : SetStep(job[w], CompensateRef[at[w]], s)
    BY <1>9 DEF CompensationRefused, CompensationRecord
  <2> QED
    BY <1>4, <2>1
<1>10. ASSUME OperatorStep \/ TimeStep
       PROVE  UNCHANGED step
  <2>1. ASSUME NEW q \in Run, NEW j \in Step, Reject(q, j)
        PROVE  UNCHANGED step
    <3>1. step[q][j] = "none"
      BY <2>1 DEF Reject, RowsInv
    <3> QED
      BY <1>0, <2>1, <3>1 DEF Reject
  <2> QED
    BY <1>10, <2>1 DEF OperatorStep, TimeStep, Enqueue, Cancel, Pause, Resume, OnlyRuns, Approve,
       ActivateKillSwitch, DeactivateKillSwitch, PolicyLapses, LeaseLapses, BackoffElapses, ApprovalExpires
<1> QED
  BY <1>1, <1>5, <1>6, <1>7, <1>8, <1>9, <1>10 DEF Next, WorkerStep

\* An ambiguous step is never dispatched again on a guess.
THEOREM UnknownNotRetriedHolds == Spec => UnknownNotRetried
<1>1. /\ TypeOK /\ OutcomeInv /\ [Next]_vars
      => [\A r \in Run, i \in Step :
            step[r][i] = "unknown" /\ step'[r][i] # "unknown" =>
              /\ step'[r][i] \notin {"none", "dispatched"}
              /\ \E w \in Worker : InFlight(w, r, i)]_vars
  BY UnknownStep DEF OutcomeInv
<1> QED
  BY <1>1, TypeCorrect, OutcomeHolds, PTL DEF Spec, UnknownNotRetried
=============================================================================
