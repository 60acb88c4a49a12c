------------------------- MODULE AutomationSchedule -------------------------
(***************************************************************************)
(* How runs of one workflow family come to exist: scheduler replicas that  *)
(* evaluate its schedule triggers (scheduler.py, triggers.py) and users    *)
(* who start a run by hand (runs.py), both through worker.enqueue_run,     *)
(* while members are removed or demoted (identity/membership_removal.py),  *)
(* versions are published and disabled (workflows.py), access to them is   *)
(* changed (platform/authz_grants.py) and kill switches are thrown.        *)
(*                                                                         *)
(* One action is one statement of a transaction that another transaction   *)
(* can come between; a transaction nothing can come between is one action. *)
(* The locks a transaction holds follow from its pc, and its writes become *)
(* visible when it commits.  What becomes of a run once it is queued is    *)
(* AutomationRun's subject; here it is only claimed, and ends.             *)
(***************************************************************************)
EXTENDS Integers, FiniteSets

CONSTANTS
  Scheduler,   \* scheduler replicas
  Caller,      \* POST /automations/runs requests, each made once
  Trigger,     \* the family's schedule triggers, created at time 0
  Member,      \* members of the workspace
  Version,     \* the family's versions
  Run,         \* bound: ids of workflow_runs rows, 1 .. n
  Creator,     \* triggers.created_by
  Occurs,      \* what croniter computes from each trigger's expression and zone
  SkipMissed,  \* triggers.skip_missed
  RateLimit,   \* runs_per_workflow_per_hour; the horizon is within one hour
  MaxTime,     \* bound: the horizon
  Skew,        \* how far a replica's clock, or its tick, may lag
  MaxFault,    \* bound: database errors and process deaths
  MaxChange,   \* bound: what operators change
  NoTrigger, NoMember, NoVersion

Process == Scheduler \cup Caller

ASSUME FamilyAssumption ==
  /\ MaxTime \in Nat
  /\ Skew \in Nat
  /\ RateLimit \in Nat
  /\ MaxFault \in Nat
  /\ MaxChange \in Nat
  /\ Run \subseteq Nat
  /\ Creator \in [Trigger -> Member]
  /\ Occurs \in [Trigger -> SUBSET (1 .. MaxTime)]
  /\ SkipMissed \in [Trigger -> BOOLEAN]
  /\ Scheduler \cap Caller = {}
  /\ NoTrigger \notin Trigger
  /\ NoMember \notin Member
  /\ NoVersion \notin Version

VARIABLES
  now,
  \* triggers.last_fired_at (0: NULL), workflow_versions.status
  lastFired, version,
  \* workspace_memberships, what authorize() allows, automation_kill_switches
  role, allowed, killed,
  \* workflow_runs: status, cancel_requested_at, what the insert recorded
  runState, cancelRequested, start,
  \* the local state of each process
  pc, moment, seen, todo, trig, me, snap,
  \* history: transactions whose member's grant ran out under them after it was
  \* checked, and what the bounds count
  lapsed, faults, changes

authorityVars == <<version, role, allowed>>
runVars       == <<runState, cancelRequested, start>>
tickVars      == <<moment, seen>>
txVars        == <<trig, me, snap, lapsed>>
localVars     == <<pc, moment, seen, todo, trig, me, snap, lapsed>>
vars == <<now, lastFired, authorityVars, killed, runVars, localVars, faults, changes>>

-----------------------------------------------------------------------------
Time == 0 .. MaxTime
VersionStatus == {"draft", "active", "retired"}
Role == {"writer", "viewer", "removed"}
\* parked: cancellable at once; held: lease-bearing, or in a human's hands.
RunState == {"absent", "queued", "parked", "held", "ended"}
\* What the insert recorded, with the interval of occurrences it resolves.
Start == [by : Member \cup {NoMember}, version : Version \cup {NoVersion},
          trigger : Trigger \cup {NoTrigger}, from : Time, to : Time]
NoStart == [by |-> NoMember, version |-> NoVersion, trigger |-> NoTrigger,
            from |-> 0, to |-> 0]
PC == {"idle", "tick", "version", "reread", "admit", "insert", "done"}

RowTypes ==
  /\ now \in Time
  /\ lastFired \in [Trigger -> Time]
  /\ version \in [Version -> VersionStatus]
  /\ role \in [Member -> Role]
  /\ allowed \in SUBSET (Member \X Version)
  /\ killed \in BOOLEAN
  /\ runState \in [Run -> RunState]
  /\ cancelRequested \in [Run -> BOOLEAN]
  /\ start \in [Run -> Start]
  /\ faults \in Nat
  /\ changes \in Nat

LocalTypes ==
  /\ pc \in [Process -> PC]
  /\ moment \in [Process -> Time]
  /\ seen \in [Process -> [Trigger -> Time]]
  /\ todo \in [Process -> SUBSET Trigger]
  /\ trig \in [Process -> Trigger \cup {NoTrigger}]
  /\ me \in [Process -> Member \cup {NoMember}]
  /\ snap \in [Process -> Version \cup {NoVersion}]
  /\ lapsed \in SUBSET Process

\* The transaction holds the shared side of the membership lock.
InTransaction(p) == pc[p] \in {"version", "reread", "admit", "insert"}

\* A transaction acts for a member, a fire's for a trigger too.
ControlShape ==
  \A p \in Process :
    /\ p \in Caller => trig[p] = NoTrigger
    /\ InTransaction(p) => me[p] \in Member /\ (p \in Scheduler => trig[p] \in Trigger)

TypeOK == RowTypes /\ LocalTypes /\ ControlShape

Unresolved == [t \in Trigger |-> 0]

\* One version is active, some are drafts; everyone may run all of them.
Init ==
  /\ now = 0
  /\ lastFired = Unresolved
  /\ version \in [Version -> {"draft", "active"}]
  /\ \E v \in Version : version[v] = "active" /\ \A u \in Version \ {v} : version[u] = "draft"
  /\ role = [m \in Member |-> "writer"]
  /\ allowed = Member \X Version
  /\ killed = FALSE
  /\ runState = [r \in Run |-> "absent"]
  /\ cancelRequested = [r \in Run |-> FALSE]
  /\ start = [r \in Run |-> NoStart]
  /\ pc = [p \in Process |-> "idle"]
  /\ moment = [p \in Process |-> 0]
  /\ seen = [p \in Process |-> Unresolved]
  /\ todo = [p \in Process |-> {}]
  /\ trig = [p \in Process |-> NoTrigger]
  /\ me = [p \in Process |-> NoMember]
  /\ snap = [p \in Process |-> NoVersion]
  /\ lapsed = {}
  /\ faults = 0
  /\ changes = 0

-----------------------------------------------------------------------------
(* Locks.                                                                  *)

\* Mutant: a fire takes no membership lock.
MembershipFreeOfCallers == \A p \in Caller : ~InTransaction(p)

\* The exclusive side of the membership lock can be had.
MembershipFree == \A p \in Process : ~InTransaction(p)

\* The trigger's row is locked by the uncommitted update of another replica.
TriggerFree(p, t) == \A q \in Process \ {p} : InTransaction(q) => trig[q] # t

\* Mutant: the version's row is read without FOR SHARE.
VersionAlwaysFree(v) == \A p \in Process : pc[p] = "reread" => snap[p] # v

\* Nobody holds the version's row FOR SHARE.
VersionFree(v) ==
  \A p \in Process : pc[p] \in {"admit", "insert"} => snap[p] # v

-----------------------------------------------------------------------------
(* What the transactions read and write.                                   *)

\* Mutant: an occurrence at this very moment is not due yet.
PendingStrictly(t, from, to) == {o \in Occurs[t] : from < o /\ o < to}

\* The occurrences in (from, to], the ones a tick at `to` finds due.
Pending(t, from, to) == {o \in Occurs[t] : from < o /\ o <= to}

\* _evaluate_schedule, on the anchor the tick has read.
Due(p, t) == Pending(t, seen[p][t], moment[p])
Misfire(p, t) == SkipMissed[t] /\ \E o, q \in Due(p, t) : o # q

\* get_active_workflow_version, as one statement sees it.
ActiveVersion ==
  IF \E v \in Version : version[v] = "active"
    THEN CHOOSE v \in Version : version[v] = "active" ELSE NoVersion

\* Mutant: the anchor is overwritten whoever moved it since the tick read it.
AnchorUnchecked(p, t) == seen[p][t] <= lastFired[t]

\* The condition of mark_trigger_fired's compare-and-swap.
AnchorUnmoved(p, t) == lastFired[t] = seen[p][t]

\* Where a process goes when its transaction is over: a replica to the next
\* trigger of its tick, a request to its answer.
Leave(p) ==
  /\ pc' = [pc EXCEPT ![p] = IF p \in Scheduler THEN "tick" ELSE "done"]
  /\ todo' = [todo EXCEPT ![p] = @ \ {trig[p]}]
  /\ trig' = [trig EXCEPT ![p] = NoTrigger]
  /\ me' = [me EXCEPT ![p] = NoMember]
  /\ snap' = [snap EXCEPT ![p] = NoVersion]
  /\ lapsed' = lapsed \ {p}
  /\ UNCHANGED tickVars

\* Mutant: the anchor is committed apart from the run.
CommitAnchorLater(p) == UNCHANGED lastFired

\* Mutant: the anchor is put after the moment.
CommitAnchorPast(p) ==
  lastFired' = IF p \in Scheduler
                 THEN [lastFired EXCEPT ![trig[p]] = moment[p] + 1] ELSE lastFired

CommitAnchor(p) ==
  lastFired' = IF p \in Scheduler
                 THEN [lastFired EXCEPT ![trig[p]] = moment[p]] ELSE lastFired

\* No run: a fire still commits its anchor, a request is answered and rolls back.
Decline(p) == CommitAnchor(p) /\ Leave(p)

-----------------------------------------------------------------------------
(* run_scheduler_once.                                                     *)

\* The tick takes its moment from its own clock, then reads every trigger.
BeginTick(p) ==
  /\ pc[p] = "idle"
  /\ p \in Scheduler
  /\ \E m \in Time : now - Skew <= m /\ m <= now /\ moment' = [moment EXCEPT ![p] = m]
  /\ seen' = [seen EXCEPT ![p] = lastFired]
  /\ todo' = [todo EXCEPT ![p] = Trigger]
  /\ pc' = [pc EXCEPT ![p] = "tick"]
  /\ UNCHANGED <<now, lastFired, authorityVars, killed, runVars, txVars, faults, changes>>

EndOfTick(p) ==
  /\ pc' = [pc EXCEPT ![p] = "idle"]
  /\ moment' = [moment EXCEPT ![p] = 0]
  /\ seen' = [seen EXCEPT ![p] = Unresolved]
  /\ todo' = [todo EXCEPT ![p] = {}]
  /\ trig' = [trig EXCEPT ![p] = NoTrigger]
  /\ me' = [me EXCEPT ![p] = NoMember]
  /\ snap' = [snap EXCEPT ![p] = NoVersion]
  /\ lapsed' = lapsed \ {p}

EndTick(p) ==
  /\ pc[p] = "tick"
  /\ todo[p] = {}
  /\ EndOfTick(p)
  /\ UNCHANGED <<now, lastFired, authorityVars, killed, runVars, faults, changes>>

NotDue(p, t) ==
  /\ pc[p] = "tick"
  /\ t \in todo[p]
  /\ Due(p, t) = {}
  /\ todo' = [todo EXCEPT ![p] = @ \ {t}]
  /\ UNCHANGED <<now, lastFired, authorityVars, killed, runVars, pc, tickVars, txVars, faults, changes>>

\* A missed window of a trigger that skips them: the anchor moves, no run.
SkipMisfire(p, t) ==
  /\ pc[p] = "tick"
  /\ t \in todo[p]
  /\ Misfire(p, t)
  /\ TriggerFree(p, t)
  /\ lastFired' = IF AnchorUnmoved(p, t)
                    THEN [lastFired EXCEPT ![t] = moment[p]] ELSE lastFired
  /\ todo' = [todo EXCEPT ![p] = @ \ {t}]
  /\ UNCHANGED <<now, authorityVars, killed, runVars, pc, tickVars, txVars, faults, changes>>

\* The fire begins: membership lock, then the compare-and-swap, which waits for a
\* replica that has updated the row and not committed.
Fire(p, t) ==
  /\ pc[p] = "tick"
  /\ t \in todo[p]
  /\ Due(p, t) # {}
  /\ ~Misfire(p, t)
  /\ TriggerFree(p, t)
  /\ IF AnchorUnmoved(p, t)
       THEN /\ pc' = [pc EXCEPT ![p] = "version"]
            /\ trig' = [trig EXCEPT ![p] = t]
            /\ me' = [me EXCEPT ![p] = Creator[t]]
            /\ snap' = [snap EXCEPT ![p] = ActiveVersion]
            /\ UNCHANGED <<todo, lapsed>>
       ELSE /\ todo' = [todo EXCEPT ![p] = @ \ {t}]
            /\ UNCHANGED <<pc, txVars>>
  /\ UNCHANGED <<now, lastFired, authorityVars, killed, runVars, tickVars, faults, changes>>

\* create_run_endpoint begins: membership lock, and the role under it.
StartManually(p, m) ==
  /\ pc[p] = "idle"
  /\ p \in Caller
  /\ role[m] = "writer"
  /\ pc' = [pc EXCEPT ![p] = "version"]
  /\ me' = [me EXCEPT ![p] = m]
  /\ snap' = [snap EXCEPT ![p] = ActiveVersion]
  /\ UNCHANGED <<now, lastFired, authorityVars, killed, runVars, tickVars, todo, trig, lapsed, faults, changes>>

-----------------------------------------------------------------------------
(* From the version's lock to the commit, for a fire and a request alike.  *)

\* The row the statement saw is still the active one when its lock is granted.
StillActive(p) == snap[p] # NoVersion /\ version[snap[p]] = "active"

\* A removed creator is left to enqueue_run.
Denied(p) ==
  \/ role[me[p]] = "viewer"
  \/ role[me[p]] = "writer" /\ <<me[p], snap[p]>> \notin allowed

\* FOR SHARE on the active version, then the creator's authority on it.
LockVersion(p) ==
  /\ pc[p] \in {"version", "reread"}
  /\ StillActive(p)
  /\ IF Denied(p)
       THEN Decline(p)
       ELSE /\ pc' = [pc EXCEPT ![p] = "admit"]
            /\ UNCHANGED <<lastFired, tickVars, todo, txVars>>
  /\ UNCHANGED <<now, authorityVars, killed, runVars, faults, changes>>

\* A publish or disable overtook the select.  A fire selects once more; a request
\* until there is no active version.
MissVersion(p) ==
  /\ pc[p] \in {"version", "reread"}
  /\ ~StillActive(p)
  /\ \/ /\ \/ p \in Scheduler /\ pc[p] = "version"
           \/ p \in Caller /\ ActiveVersion # NoVersion
        /\ pc' = [pc EXCEPT ![p] = IF p \in Scheduler THEN "reread" ELSE "version"]
        /\ snap' = [snap EXCEPT ![p] = ActiveVersion]
        /\ UNCHANGED <<lastFired, tickVars, todo, trig, me, lapsed>>
     \/ /\ \/ p \in Scheduler /\ pc[p] = "reread"
           \/ p \in Caller /\ ActiveVersion = NoVersion
        /\ Decline(p)
  /\ UNCHANGED <<now, authorityVars, killed, runVars, faults, changes>>

Started == {r \in Run : runState[r] # "absent"}

\* enqueue_run's checks: kill switches, the actor's membership, the runs of the
\* trailing hour.
Admit(p) ==
  /\ pc[p] = "admit"
  /\ IF killed \/ role[me[p]] = "removed" \/ Cardinality(Started) >= RateLimit
       THEN Decline(p)
       ELSE /\ pc' = [pc EXCEPT ![p] = "insert"]
            /\ UNCHANGED <<lastFired, tickVars, todo, txVars>>
  /\ UNCHANGED <<now, authorityVars, killed, runVars, faults, changes>>

NextId(r) == runState[r] = "absent" /\ \A q \in Run : q < r => runState[q] # "absent"

\* The insert, and the commit of run and anchor together.
Insert(p, r) ==
  /\ pc[p] = "insert"
  /\ NextId(r)
  /\ runState' = [runState EXCEPT ![r] = "queued"]
  /\ start' = [start EXCEPT ![r] =
       [by |-> me[p], version |-> snap[p], trigger |-> trig[p],
        from |-> IF p \in Scheduler THEN seen[p][trig[p]] ELSE 0,
        to |-> moment[p]]]
  /\ CommitAnchor(p)
  /\ Leave(p)
  /\ UNCHANGED <<now, authorityVars, killed, cancelRequested, faults, changes>>

\* OperationalError in the transaction: rolled back; a replica goes on with its
\* other triggers and finds this one due again at its next tick.
Defer(p) ==
  /\ InTransaction(p)
  /\ faults < MaxFault
  /\ faults' = faults + 1
  /\ Leave(p)
  /\ UNCHANGED <<now, lastFired, authorityVars, killed, runVars, changes>>

\* The process dies, or an exception leaves the tick.
Crash(p) ==
  /\ p \in Scheduler
  /\ pc[p] # "idle"
  /\ faults < MaxFault
  /\ faults' = faults + 1
  /\ EndOfTick(p)
  /\ UNCHANGED <<now, lastFired, authorityVars, killed, runVars, changes>>

-----------------------------------------------------------------------------
(* Everybody else.                                                         *)

CountChange == changes < MaxChange /\ changes' = changes + 1

\* cancel_runs_for_removed_member, with cancel_run for each run.
CancelRunsOf(m) ==
  LET live == {r \in Run : start[r].by = m /\ runState[r] \notin {"absent", "ended"}} IN
  /\ cancelRequested' = [r \in Run |-> cancelRequested[r] \/ r \in live]
  /\ runState' = [r \in Run |->
       IF r \in live /\ runState[r] \in {"queued", "parked"} THEN "ended" ELSE runState[r]]

\* remove_member_endpoint, once what the member owned has been transferred (a
\* run's owner_id moves with a transfer, its created_by does not).
RemoveMember(m) ==
  /\ CountChange
  /\ role[m] # "removed"
  /\ MembershipFree
  /\ role' = [role EXCEPT ![m] = "removed"]
  /\ CancelRunsOf(m)
  /\ UNCHANGED <<now, lastFired, version, allowed, killed, start, localVars, faults>>

\* update_member_role_endpoint.
ChangeRole(m, to) ==
  /\ CountChange
  /\ role[m] \notin {"removed", to}
  /\ MembershipFree
  /\ role' = [role EXCEPT ![m] = to]
  /\ UNCHANGED <<now, lastFired, version, allowed, killed, runVars, localVars, faults>>

\* activate_workflow_version: the version it retires is locked FOR UPDATE.
Publish(v) ==
  /\ CountChange
  /\ version[v] = "draft"
  /\ \A u \in Version : version[u] = "active" => VersionFree(u)
  /\ version' = [u \in Version |->
       IF u = v THEN "active" ELSE IF version[u] = "active" THEN "retired" ELSE version[u]]
  /\ UNCHANGED <<now, lastFired, role, allowed, killed, runVars, localVars, faults>>

\* disable_workflow_version.
Disable(v) ==
  /\ CountChange
  /\ version[v] = "active"
  /\ VersionFree(v)
  /\ version' = [version EXCEPT ![v] = "retired"]
  /\ UNCHANGED <<now, lastFired, role, allowed, killed, runVars, localVars, faults>>

\* A grant made or revoked, an ownership transfer, a change of visibility: the
\* resource row is locked FOR UPDATE first.
ChangeAccess(m, v) ==
  /\ CountChange
  /\ VersionFree(v)
  /\ allowed' = IF <<m, v>> \in allowed THEN allowed \ {<<m, v>>} ELSE allowed \cup {<<m, v>>}
  /\ UNCHANGED <<now, lastFired, version, role, killed, runVars, localVars, faults>>

\* Access that rests on a grant ends without the resource's row: its expires_at
\* passes, or the delegation that made it is completed or revoked.
LapseAccess(m, v) ==
  /\ CountChange
  /\ <<m, v>> \in allowed
  /\ allowed' = allowed \ {<<m, v>>}
  /\ lapsed' = lapsed \cup
       {p \in Process : pc[p] \in {"admit", "insert"} /\ me[p] = m /\ snap[p] = v}
  /\ UNCHANGED <<now, lastFired, version, role, killed, runVars, pc, tickVars, todo, trig, me, snap, faults>>

\* activate_kill_switch parks the queued runs it can see.
ActivateKillSwitch ==
  /\ CountChange
  /\ ~killed
  /\ killed' = TRUE
  /\ runState' = [r \in Run |-> IF runState[r] = "queued" THEN "parked" ELSE runState[r]]
  /\ UNCHANGED <<now, lastFired, authorityVars, cancelRequested, start, localVars, faults>>

DeactivateKillSwitch ==
  /\ CountChange
  /\ killed
  /\ killed' = FALSE
  /\ UNCHANGED <<now, lastFired, authorityVars, runVars, localVars, faults>>

\* A worker claims a run, and the run ends.
ClaimRun(r) ==
  /\ runState[r] = "queued"
  /\ ~killed
  /\ runState' = [runState EXCEPT ![r] = "held"]
  /\ UNCHANGED <<now, lastFired, authorityVars, killed, cancelRequested, start, localVars, faults, changes>>

EndRun(r) ==
  /\ runState[r] = "held"
  /\ runState' = [runState EXCEPT ![r] = "ended"]
  /\ UNCHANGED <<now, lastFired, authorityVars, killed, cancelRequested, start, localVars, faults, changes>>

TimePasses ==
  /\ now < MaxTime
  /\ now' = now + 1
  /\ UNCHANGED <<lastFired, authorityVars, killed, runVars, localVars, faults, changes>>

-----------------------------------------------------------------------------
Enqueue(p) ==
  \/ LockVersion(p) \/ MissVersion(p) \/ Admit(p)
  \/ \E r \in Run : Insert(p, r)

SchedulerStep(p) ==
  \/ BeginTick(p) \/ EndTick(p)
  \/ \E t \in Trigger : NotDue(p, t) \/ SkipMisfire(p, t) \/ Fire(p, t)
  \/ Enqueue(p)

CallerStep(p) == (\E m \in Member : StartManually(p, m)) \/ Enqueue(p)

OperatorStep ==
  \/ \E m \in Member : RemoveMember(m) \/ \E to \in {"writer", "viewer"} : ChangeRole(m, to)
  \/ \E v \in Version : Publish(v) \/ Disable(v)
  \/ \E v \in Version, m \in Member : ChangeAccess(m, v) \/ LapseAccess(m, v)
  \/ ActivateKillSwitch \/ DeactivateKillSwitch

Next ==
  \/ \E p \in Scheduler : SchedulerStep(p)
  \/ \E p \in Caller : CallerStep(p)
  \/ \E p \in Process : Defer(p) \/ Crash(p)
  \/ OperatorStep
  \/ \E r \in Run : ClaimRun(r) \/ EndRun(r)
  \/ TimePasses

Spec == Init /\ [][Next]_vars

\* The scheduler loop keeps ticking.
LiveSpec == Spec /\ \A p \in Scheduler : WF_vars(SchedulerStep(p))

-----------------------------------------------------------------------------
(* The scheduler implements catch-up once.                                 *)

Fired == [t \in Trigger |->
  {[run |-> r, from |-> start[r].from, to |-> start[r].to] :
     r \in {q \in Started : start[q].trigger = t}}]

Catch == INSTANCE CatchUpOnce WITH anchor <- lastFired, fired <- Fired

\* Whatever the replicas, their clocks and their deaths do, what can be seen of
\* the triggers and of the runs they start is catch-up once: every move of an
\* anchor resolves due occurrences, and starts at most one run, in one step.
CatchesUpOnce == Catch!Spec

\* No occurrence starts two runs.
OncePerOccurrence == Catch!OncePerOccurrence

\* A run appears only while its creator is a member who may write, on the version
\* that is active at that instant and that they may read and write: everything
\* checked earlier in the transaction is still so when it commits.  Only access
\* that rests on a grant may have run out since its check, which waits for no
\* lock the transaction holds.
StartedWithAuthority ==
  [][\A r \in Run : runState[r] = "absent" /\ runState'[r] # "absent" =>
       LET s == start'[r] IN
       /\ role[s.by] = "writer"
       /\ version[s.version] = "active"
       /\ \/ <<s.by, s.version>> \in allowed
          \/ \E p \in lapsed : pc[p] = "insert" /\ me[p] = s.by /\ snap[p] = s.version]_vars

\* A removed member has no run that nobody told to stop.
RemovedMemberStopped ==
  \A r \in Started :
    role[start[r].by] = "removed" => runState[r] = "ended" \/ cancelRequested[r]

\* Every occurrence is resolved by some tick, finitely many faults notwithstanding.
OccurrenceResolved ==
  \A t \in Trigger : \A o \in 1 .. MaxTime :
    (o \in Occurs[t] /\ now >= o + Skew) ~> lastFired[t] >= o
====
