---------------------- MODULE AutomationScheduleProofs ----------------------
(***************************************************************************)
(* Runs start with authority and stop with their member, the scheduler     *)
(* implements catch-up once, and so starts at most one run for an          *)
(* occurrence -- for any replicas, clocks, requests, triggers, members and *)
(* versions.                                                               *)
(*                                                                         *)
(* What the locks of an open transaction keep true until it commits is the *)
(* strengthening all need: AnchorInv, of the anchor its compare-and-swap   *)
(* found (the trigger's row), and AuthorityInv, of the version it          *)
(* authorized (FOR SHARE) and its member's role (membership lock); no lock *)
(* keeps a grant from running out, and AuthorityInv says which did.  For   *)
(* the refinement: when a fire commits, the anchor is still where the tick *)
(* read it, so that the interval the run records begins where the abstract *)
(* anchor stands, and something in it is due.                              *)
(***************************************************************************)
EXTENDS AutomationSchedule, TLAPS

-----------------------------------------------------------------------------
(* Type correctness.                                                       *)

LEMMA ZeroIsTime == 0 \in Time /\ Unresolved \in [Trigger -> Time]
BY FamilyAssumption DEF Time, Unresolved

LEMMA ActiveVersionType == ActiveVersion \in Version \cup {NoVersion}
BY DEF ActiveVersion

\* A process that leaves its transaction keeps its types and its control shape.
LEMMA LeaveType ==
  ASSUME LocalTypes, ControlShape, NEW p \in Process, Leave(p)
  PROVE  LocalTypes' /\ ControlShape'
<1>1. LocalTypes'
  BY DEF LocalTypes, Leave, PC, tickVars
<1>2. ASSUME NEW q \in Process
      PROVE  /\ q \in Caller => trig'[q] = NoTrigger
             /\ InTransaction(q)' => me'[q] \in Member /\ (q \in Scheduler => trig'[q] \in Trigger)
  <2>1. CASE q = p
    BY <2>1 DEF LocalTypes, Leave, InTransaction
  <2>2. CASE q # p
    BY <2>2 DEF LocalTypes, ControlShape, Leave, InTransaction
  <2> QED
    BY <2>1, <2>2
<1> QED
  BY <1>1, <1>2 DEF ControlShape

LEMMA EndOfTickType ==
  ASSUME LocalTypes, ControlShape, NEW p \in Process, EndOfTick(p)
  PROVE  LocalTypes' /\ ControlShape'
<1>1. LocalTypes'
  BY ZeroIsTime DEF LocalTypes, EndOfTick, PC
<1>2. ASSUME NEW q \in Process
      PROVE  /\ q \in Caller => trig'[q] = NoTrigger
             /\ InTransaction(q)' => me'[q] \in Member /\ (q \in Scheduler => trig'[q] \in Trigger)
  <2>1. CASE q = p
    BY <2>1 DEF LocalTypes, EndOfTick, InTransaction
  <2>2. CASE q # p
    BY <2>2 DEF LocalTypes, ControlShape, EndOfTick, InTransaction
  <2> QED
    BY <2>1, <2>2
<1> QED
  BY <1>1, <1>2 DEF ControlShape

LEMMA CommitAnchorType ==
  ASSUME RowTypes, LocalTypes, NEW p \in Process, CommitAnchor(p)
  PROVE  lastFired' \in [Trigger -> Time]
BY DEF RowTypes, LocalTypes, CommitAnchor

LEMMA InitType == Init => TypeOK
<1> SUFFICES ASSUME Init PROVE TypeOK
  OBVIOUS
<1>1. NoStart \in Start
  BY ZeroIsTime DEF NoStart, Start
<1>2. RowTypes
  BY <1>1, ZeroIsTime DEF Init, RowTypes, VersionStatus, Role, RunState
<1>3. LocalTypes
  BY ZeroIsTime DEF Init, LocalTypes, PC
<1>4. ControlShape
  BY DEF Init, ControlShape, InTransaction
<1> QED
  BY <1>2, <1>3, <1>4 DEF TypeOK

\* A transaction that goes on to its next statement: same trigger, same member.
LEMMA GoOnType ==
  ASSUME LocalTypes, ControlShape, NEW p \in Process, InTransaction(p),
         NEW label \in {"reread", "version", "admit", "insert"},
         NEW v \in Version \cup {NoVersion},
         pc' = [pc EXCEPT ![p] = label], snap' = [snap EXCEPT ![p] = v],
         UNCHANGED <<moment, seen, todo, trig, me, lapsed>>
  PROVE  LocalTypes' /\ ControlShape'
<1>1. LocalTypes'
  BY DEF LocalTypes, PC
<1>2. ASSUME NEW q \in Process PROVE InTransaction(q)' => InTransaction(q)
  BY DEF LocalTypes, InTransaction
<1> QED
  BY <1>1, <1>2 DEF ControlShape

LEMMA EnqueueType ==
  ASSUME TypeOK, NEW p \in Process, Enqueue(p)
  PROVE  TypeOK'
<1> USE DEF authorityVars, runVars, txVars, tickVars, TypeOK
<1>1. CASE LockVersion(p)
  <2>1. CASE Denied(p)
    BY <1>1, <2>1, LeaveType, CommitAnchorType DEF LockVersion, Decline, RowTypes
  <2>2. CASE ~Denied(p)
    <3>1. InTransaction(p) /\ snap[p] \in Version \cup {NoVersion}
      BY <1>1 DEF LockVersion, InTransaction, LocalTypes
    <3>2. snap' = [snap EXCEPT ![p] = snap[p]]
      BY <1>1, <2>2 DEF LockVersion, LocalTypes
    <3>3. LocalTypes' /\ ControlShape'
      BY <1>1, <2>2, <3>1, <3>2, GoOnType DEF LockVersion
    <3> QED
      BY <1>1, <2>2, <3>3 DEF LockVersion, RowTypes
  <2> QED
    BY <2>1, <2>2
<1>2. CASE MissVersion(p)
  <2>1. CASE Decline(p)
    BY <1>2, <2>1, LeaveType, CommitAnchorType DEF MissVersion, Decline, RowTypes
  <2>2. CASE ~Decline(p)
    <3>1. InTransaction(p)
      BY <1>2 DEF MissVersion, InTransaction
    <3>2. LocalTypes' /\ ControlShape'
      BY <1>2, <2>2, <3>1, ActiveVersionType, GoOnType DEF MissVersion
    <3> QED
      BY <1>2, <2>2, <3>2 DEF MissVersion, RowTypes
  <2> QED
    BY <2>1, <2>2
<1>3. CASE Admit(p)
  <2> DEFINE refused == killed \/ role[me[p]] = "removed" \/ Cardinality(Started) >= RateLimit
  <2>1. CASE refused
    BY <1>3, <2>1, LeaveType, CommitAnchorType DEF Admit, Decline, RowTypes
  <2>2. CASE ~refused
    <3>1. InTransaction(p) /\ snap[p] \in Version \cup {NoVersion}
      BY <1>3 DEF Admit, InTransaction, LocalTypes
    <3>2. snap' = [snap EXCEPT ![p] = snap[p]]
      BY <1>3, <2>2 DEF Admit, LocalTypes
    <3>3. LocalTypes' /\ ControlShape'
      BY <1>3, <2>2, <3>1, <3>2, GoOnType DEF Admit
    <3> QED
      BY <1>3, <2>2, <3>3 DEF Admit, RowTypes
  <2> QED
    BY <2>1, <2>2
<1>4. ASSUME NEW r \in Run, Insert(p, r) PROVE TypeOK'
  <2>1. InTransaction(p)
    BY <1>4 DEF Insert, InTransaction
  <2>2. start' \in [Run -> Start]
    <3> DEFINE row == [by |-> me[p], version |-> snap[p], trigger |-> trig[p],
                       from |-> IF p \in Scheduler THEN seen[p][trig[p]] ELSE 0,
                       to |-> moment[p]]
    <3>1. p \in Scheduler => seen[p][trig[p]] \in Time
      BY <2>1 DEF ControlShape, LocalTypes
    <3>2. row \in Start
      BY <3>1, ZeroIsTime DEF LocalTypes, Start
    <3> HIDE DEF row
    <3>3. start' = [start EXCEPT ![r] = row]
      BY <1>4 DEF Insert, row
    <3> QED
      BY <3>2, <3>3 DEF RowTypes
  <2>3. runState' \in [Run -> RunState]
    BY <1>4 DEF Insert, RowTypes, RunState
  <2> QED
    BY <1>4, <2>2, <2>3, LeaveType, CommitAnchorType DEF Insert, RowTypes
<1> QED
  BY <1>1, <1>2, <1>3, <1>4 DEF Enqueue

LEMMA SchedulerType ==
  ASSUME TypeOK, NEW p \in Scheduler, SchedulerStep(p)
  PROVE  TypeOK'
<1> USE DEF authorityVars, runVars, txVars, tickVars, TypeOK
<1>p. p \in Process
  BY DEF Process
<1>1. CASE BeginTick(p)
  <2>1. LocalTypes'
    BY <1>1 DEF BeginTick, LocalTypes, RowTypes, PC
  <2>2. ControlShape'
    BY <1>1 DEF BeginTick, LocalTypes, ControlShape, InTransaction
  <2> QED
    BY <1>1, <2>1, <2>2 DEF BeginTick, RowTypes
<1>2. CASE EndTick(p)
  BY <1>2, <1>p, EndOfTickType DEF EndTick, RowTypes
<1>3. ASSUME NEW t \in Trigger, NotDue(p, t) PROVE TypeOK'
  BY <1>3, <1>p DEF NotDue, RowTypes, LocalTypes, ControlShape, InTransaction
<1>4. ASSUME NEW t \in Trigger, SkipMisfire(p, t) PROVE TypeOK'
  BY <1>4, <1>p DEF SkipMisfire, RowTypes, LocalTypes, ControlShape, InTransaction
<1>5. ASSUME NEW t \in Trigger, Fire(p, t) PROVE TypeOK'
  <2>1. CASE AnchorUnmoved(p, t)
    <3>1. Creator[t] \in Member
      BY FamilyAssumption
    <3>2. LocalTypes'
      <4>a. pc' = [pc EXCEPT ![p] = "version"] /\ trig' = [trig EXCEPT ![p] = t]
        BY <1>5, <2>1 DEF Fire
      <4>1. pc' \in [Process -> PC] /\ trig' \in [Process -> Trigger \cup {NoTrigger}]
        BY <4>a DEF LocalTypes, PC
      <4>2. me' \in [Process -> Member \cup {NoMember}]
        BY <1>5, <2>1, <3>1 DEF Fire, LocalTypes
      <4>3. snap' \in [Process -> Version \cup {NoVersion}]
        BY <1>5, <2>1, ActiveVersionType DEF Fire, LocalTypes
      <4> QED
        BY <1>5, <2>1, <4>1, <4>2, <4>3 DEF Fire, LocalTypes
    <3>3. ControlShape'
      <4>1. p \notin Caller
        BY FamilyAssumption
      <4>2. ASSUME NEW q \in Process, q # p
            PROVE  trig'[q] = trig[q] /\ me'[q] = me[q] /\ pc'[q] = pc[q]
        BY <1>5, <2>1, <4>2 DEF Fire, LocalTypes
      <4>3. trig'[p] = t /\ me'[p] = Creator[t]
        BY <1>5, <1>p, <2>1 DEF Fire, LocalTypes
      <4> QED
        BY <3>1, <4>1, <4>2, <4>3 DEF ControlShape, InTransaction
    <3> QED
      BY <1>5, <3>2, <3>3 DEF Fire, RowTypes
  <2>2. CASE ~AnchorUnmoved(p, t)
    <3>1. /\ UNCHANGED <<pc, txVars, now, lastFired, authorityVars, killed, runVars, faults, changes>>
          /\ todo' = [todo EXCEPT ![p] = @ \ {t}]
          /\ UNCHANGED tickVars
      BY <1>5, <2>2 DEF Fire
    <3>2. todo' \in [Process -> SUBSET Trigger]
      BY <3>1 DEF LocalTypes
    <3> QED
      BY <3>1, <3>2 DEF RowTypes, LocalTypes, ControlShape, InTransaction
  <2> QED
    BY <2>1, <2>2
<1> QED
  BY <1>1, <1>2, <1>3, <1>4, <1>5, <1>p, EnqueueType DEF SchedulerStep

LEMMA CallerType ==
  ASSUME TypeOK, NEW p \in Caller, CallerStep(p)
  PROVE  TypeOK'
<1> USE DEF authorityVars, runVars, txVars, tickVars, TypeOK
<1>p. p \in Process /\ p \notin Scheduler
  BY FamilyAssumption DEF Process
<1>1. ASSUME NEW m \in Member, StartManually(p, m) PROVE TypeOK'
  <2>1. LocalTypes'
    BY <1>1, <1>p, ActiveVersionType DEF StartManually, LocalTypes, PC
  <2>2. ControlShape'
    <3>1. ASSUME NEW q \in Process, q # p
          PROVE  me'[q] = me[q] /\ pc'[q] = pc[q]
      BY <1>1, <3>1 DEF StartManually, LocalTypes
    <3>2. me'[p] = m /\ trig' = trig
      BY <1>1, <1>p DEF StartManually, LocalTypes
    <3> QED
      BY <1>p, <3>1, <3>2 DEF ControlShape, InTransaction
  <2> QED
    BY <1>1, <2>1, <2>2 DEF StartManually, RowTypes
<1> QED
  BY <1>1, <1>p, EnqueueType DEF CallerStep

LEMMA OtherType ==
  ASSUME TypeOK, OperatorStep \/ (\E r \in Run : ClaimRun(r) \/ EndRun(r)) \/ TimePasses
  PROVE  TypeOK'
<1> USE DEF authorityVars, runVars, localVars, TypeOK
<1>local. UNCHANGED localVars => LocalTypes' /\ ControlShape'
  BY DEF LocalTypes, ControlShape, InTransaction
<1>1. ASSUME NEW m \in Member, RemoveMember(m) PROVE TypeOK'
  <2>1. cancelRequested' \in [Run -> BOOLEAN]
    BY <1>1 DEF RemoveMember, CancelRunsOf, RowTypes
  <2>2. runState' \in [Run -> RunState]
    BY <1>1 DEF RemoveMember, CancelRunsOf, RowTypes, RunState
  <2>3. role' \in [Member -> Role] /\ changes' \in Nat
    BY <1>1 DEF RemoveMember, CountChange, RowTypes, Role
  <2> QED
    BY <1>1, <1>local, <2>1, <2>2, <2>3 DEF RemoveMember, RowTypes
<1>2. ASSUME NEW m \in Member, NEW to \in {"writer", "viewer"}, ChangeRole(m, to) PROVE TypeOK'
  BY <1>2, <1>local DEF ChangeRole, CountChange, RowTypes, Role
<1>3. ASSUME NEW v \in Version, Publish(v) PROVE TypeOK'
  BY <1>3, <1>local DEF Publish, CountChange, RowTypes, VersionStatus
<1>4. ASSUME NEW v \in Version, Disable(v) PROVE TypeOK'
  BY <1>4, <1>local DEF Disable, CountChange, RowTypes, VersionStatus
<1>5. ASSUME NEW v \in Version, NEW m \in Member, ChangeAccess(m, v) PROVE TypeOK'
  BY <1>5, <1>local DEF ChangeAccess, CountChange, RowTypes
<1>10. ASSUME NEW v \in Version, NEW m \in Member, LapseAccess(m, v) PROVE TypeOK'
  <2>1. allowed' \in SUBSET (Member \X Version) /\ changes' \in Nat
    BY <1>10 DEF LapseAccess, CountChange, RowTypes
  <2>2. lapsed' \in SUBSET Process
    BY <1>10 DEF LapseAccess, LocalTypes
  <2> QED
    BY <1>10, <2>1, <2>2 DEF LapseAccess, RowTypes, LocalTypes, ControlShape, InTransaction, tickVars
<1>6. CASE ActivateKillSwitch
  BY <1>6, <1>local DEF ActivateKillSwitch, CountChange, RowTypes, RunState
<1>7. CASE DeactivateKillSwitch
  <2>1. changes' \in Nat
    BY <1>7 DEF DeactivateKillSwitch, CountChange, RowTypes
  <2>2. killed' \in BOOLEAN
    BY <1>7 DEF DeactivateKillSwitch
  <2> QED
    BY <1>7, <1>local, <2>1, <2>2 DEF DeactivateKillSwitch, RowTypes
<1>8. ASSUME NEW r \in Run, ClaimRun(r) \/ EndRun(r) PROVE TypeOK'
  BY <1>8, <1>local DEF ClaimRun, EndRun, RowTypes, RunState
<1>9. CASE TimePasses
  <2>1. now + 1 \in Time \/ ~(now < MaxTime)
    BY FamilyAssumption DEF RowTypes, Time
  <2> QED
    BY <1>9, <1>local, <2>1 DEF TimePasses, RowTypes
<1> QED
  BY <1>1, <1>2, <1>3, <1>4, <1>5, <1>6, <1>7, <1>8, <1>9, <1>10 DEF OperatorStep

LEMMA NextType == TypeOK /\ [Next]_vars => TypeOK'
<1> SUFFICES ASSUME TypeOK, [Next]_vars PROVE TypeOK'
  OBVIOUS
<1>1. ASSUME NEW p \in Process, Defer(p) PROVE TypeOK'
  BY <1>1, LeaveType DEF Defer, TypeOK, RowTypes, authorityVars, runVars
<1>2. ASSUME NEW p \in Process, Crash(p) PROVE TypeOK'
  BY <1>2, EndOfTickType DEF Crash, TypeOK, RowTypes, authorityVars, runVars
<1>3. CASE UNCHANGED vars
  BY <1>3 DEF vars, TypeOK, RowTypes, LocalTypes, ControlShape, InTransaction,
              authorityVars, runVars, localVars
<1> QED
  BY <1>1, <1>2, <1>3, SchedulerType, CallerType, OtherType DEF Next

\* Type correctness: every row and every process keeps its type, and an open
\* transaction always acts for a member.
THEOREM TypeCorrect == Spec => []TypeOK
<1> QED
  BY InitType, NextType, PTL DEF Spec

-----------------------------------------------------------------------------
(* Frames: who is in a transaction after a step was in it before.          *)

\* No transaction begins, or changes what its anchor depends on.
AnchorQuiet ==
  \A q \in Process : InTransaction(q)' =>
    /\ InTransaction(q)
    /\ trig'[q] = trig[q] /\ seen'[q] = seen[q] /\ moment'[q] = moment[q]

\* The transaction has authorized its member on its version.
Authorized(p) == pc[p] \in {"admit", "insert"}

\* No transaction gets past an authorization or an admission.
AuthorityQuiet ==
  \A q \in Process : Authorized(q)' =>
    /\ pc'[q] = pc[q] /\ me'[q] = me[q] /\ snap'[q] = snap[q]
    /\ q \in lapsed => q \in lapsed'

LEMMA LeaveQuiet ==
  ASSUME LocalTypes, NEW p \in Process, Leave(p)
  PROVE  AnchorQuiet /\ AuthorityQuiet /\ ~InTransaction(p)'
<1>1. ~InTransaction(p)' /\ ~Authorized(p)'
  BY DEF LocalTypes, Leave, InTransaction, Authorized
<1>2. ASSUME NEW q \in Process, q # p
      PROVE  /\ pc'[q] = pc[q] /\ trig'[q] = trig[q] /\ me'[q] = me[q] /\ snap'[q] = snap[q]
             /\ seen'[q] = seen[q] /\ moment'[q] = moment[q]
             /\ q \in lapsed => q \in lapsed'
  BY <1>2 DEF LocalTypes, Leave, tickVars
<1> QED
  BY <1>1, <1>2 DEF AnchorQuiet, AuthorityQuiet, InTransaction, Authorized

LEMMA EndOfTickQuiet ==
  ASSUME LocalTypes, NEW p \in Process, EndOfTick(p)
  PROVE  AnchorQuiet /\ AuthorityQuiet
<1>1. ~InTransaction(p)' /\ ~Authorized(p)'
  BY DEF LocalTypes, EndOfTick, InTransaction, Authorized
<1>2. ASSUME NEW q \in Process, q # p
      PROVE  /\ pc'[q] = pc[q] /\ trig'[q] = trig[q] /\ me'[q] = me[q] /\ snap'[q] = snap[q]
             /\ seen'[q] = seen[q] /\ moment'[q] = moment[q]
             /\ q \in lapsed => q \in lapsed'
  BY <1>2 DEF LocalTypes, EndOfTick
<1> QED
  BY <1>1, <1>2 DEF AnchorQuiet, AuthorityQuiet, InTransaction, Authorized

LEMMA StillQuiet ==
  ASSUME UNCHANGED <<pc, trig, me, snap, seen, moment>>, lapsed \subseteq lapsed'
  PROVE  AnchorQuiet /\ AuthorityQuiet
BY DEF AnchorQuiet, AuthorityQuiet, InTransaction, Authorized

\* The bookkeeping of a tick between two transactions.
LEMMA TickQuiet ==
  ASSUME TypeOK, NEW p \in Scheduler,
         \/ BeginTick(p) \/ EndTick(p)
         \/ \E t \in Trigger : NotDue(p, t) \/ SkipMisfire(p, t)
                               \/ (Fire(p, t) /\ ~AnchorUnmoved(p, t))
  PROVE  AnchorQuiet /\ AuthorityQuiet
<1>p. p \in Process /\ LocalTypes
  BY DEF Process, TypeOK
<1>1. CASE BeginTick(p)
  <2>1. ~InTransaction(p)' /\ ~Authorized(p)'
    BY <1>1, <1>p DEF BeginTick, LocalTypes, InTransaction, Authorized
  <2>2. ASSUME NEW q \in Process, q # p
        PROVE  /\ pc'[q] = pc[q] /\ trig'[q] = trig[q] /\ me'[q] = me[q] /\ snap'[q] = snap[q]
               /\ seen'[q] = seen[q] /\ moment'[q] = moment[q]
               /\ q \in lapsed => q \in lapsed'
    BY <1>1, <1>p, <2>2 DEF BeginTick, LocalTypes, txVars
  <2> QED
    BY <2>1, <2>2 DEF AnchorQuiet, AuthorityQuiet, InTransaction, Authorized
<1>2. CASE EndTick(p)
  BY <1>2, <1>p, EndOfTickQuiet DEF EndTick
<1>3. ASSUME NEW t \in Trigger,
             NotDue(p, t) \/ SkipMisfire(p, t) \/ (Fire(p, t) /\ ~AnchorUnmoved(p, t))
      PROVE  AnchorQuiet /\ AuthorityQuiet
  BY <1>3 DEF NotDue, SkipMisfire, Fire, txVars, tickVars, AnchorQuiet, AuthorityQuiet,
              InTransaction, Authorized
<1> QED
  BY <1>1, <1>2, <1>3

\* A transaction that goes on to its next statement keeps its anchor.
LEMMA GoOnQuiet ==
  ASSUME LocalTypes, NEW p \in Process, InTransaction(p),
         NEW label \in PC, pc' = [pc EXCEPT ![p] = label],
         UNCHANGED <<moment, seen, trig>>
  PROVE  AnchorQuiet
BY DEF LocalTypes, AnchorQuiet, InTransaction

-----------------------------------------------------------------------------
(* The anchor a fire has won is its own until it commits.                  *)

AnchorHeld(p) ==
  /\ lastFired[trig[p]] = seen[p][trig[p]]
  /\ Due(p, trig[p]) # {}
  /\ ~Misfire(p, trig[p])
  /\ \A q \in Process \ {p} : InTransaction(q) => trig[q] # trig[p]

AnchorInv == \A p \in Scheduler : InTransaction(p) => AnchorHeld(p)

\* lastFired may move only where no transaction has won it.
LEMMA AnchorFrame ==
  ASSUME AnchorInv, AnchorQuiet,
         \A p \in Scheduler : InTransaction(p)' => lastFired'[trig[p]] = lastFired[trig[p]]
  PROVE  AnchorInv'
<1> SUFFICES ASSUME NEW p \in Scheduler, InTransaction(p)' PROVE AnchorHeld(p)'
  BY DEF AnchorInv
<1>1. p \in Process
  BY DEF Process
<1>2. AnchorHeld(p)
  BY <1>1 DEF AnchorInv, AnchorQuiet
<1>3. trig'[p] = trig[p] /\ seen'[p] = seen[p] /\ moment'[p] = moment[p]
  BY <1>1 DEF AnchorQuiet
<1>4. Due(p, trig[p])' = Due(p, trig[p])
  BY <1>3 DEF Due, Pending
<1>5. lastFired'[trig'[p]] = seen'[p][trig'[p]]
  BY <1>2, <1>3 DEF AnchorHeld
<1>6. \A q \in Process \ {p} : InTransaction(q)' => trig'[q] # trig'[p]
  BY <1>2, <1>3 DEF AnchorHeld, AnchorQuiet
<1>7. Due(p, trig[p])' # {} /\ ~Misfire(p, trig[p])'
  BY <1>2, <1>3 DEF AnchorHeld, Due, Pending, Misfire
<1> QED
  BY <1>5, <1>6, <1>7 DEF AnchorHeld

LEMMA CommitKeepsAnchors ==
  ASSUME TypeOK, AnchorInv, NEW p \in Process, InTransaction(p), CommitAnchor(p), Leave(p)
  PROVE  AnchorInv'
<1>1. AnchorQuiet /\ ~InTransaction(p)'
  BY LeaveQuiet DEF TypeOK
<1>2. ASSUME NEW q \in Scheduler, InTransaction(q)'
      PROVE  lastFired'[trig[q]] = lastFired[trig[q]]
  <2>1. q \in Process /\ q # p /\ InTransaction(q)
    BY <1>1, <1>2 DEF AnchorQuiet, Process
  <2>2. p \in Scheduler => trig[p] # trig[q]
    BY <2>1 DEF AnchorInv, AnchorHeld
  <2> QED
    BY <2>2 DEF CommitAnchor, TypeOK, RowTypes
<1> QED
  BY <1>1, <1>2, AnchorFrame

LEMMA EnqueueKeepsAnchors ==
  ASSUME TypeOK, AnchorInv, NEW p \in Process, Enqueue(p)
  PROVE  AnchorInv'
<1>1. InTransaction(p)
  BY DEF Enqueue, LockVersion, MissVersion, Admit, Insert, InTransaction
<1>2. \/ CommitAnchor(p) /\ Leave(p)
      \/ /\ UNCHANGED <<lastFired, moment, seen, trig>>
         /\ \E label \in PC : pc' = [pc EXCEPT ![p] = label]
  <2> USE DEF tickVars, txVars, PC
  <2>1. CASE LockVersion(p)
    BY <2>1 DEF LockVersion, Decline
  <2>2. CASE MissVersion(p)
    BY <2>2 DEF MissVersion, Decline
  <2>3. CASE Admit(p)
    BY <2>3 DEF Admit, Decline
  <2>4. ASSUME NEW r \in Run, Insert(p, r) PROVE CommitAnchor(p) /\ Leave(p)
    BY <2>4 DEF Insert
  <2> QED
    BY <2>1, <2>2, <2>3, <2>4 DEF Enqueue
<1>3. CASE CommitAnchor(p) /\ Leave(p)
  BY <1>1, <1>3, CommitKeepsAnchors
<1>4. ASSUME UNCHANGED <<lastFired, moment, seen, trig>>,
             NEW label \in PC, pc' = [pc EXCEPT ![p] = label]
      PROVE  AnchorInv'
  BY <1>1, <1>4, GoOnQuiet, AnchorFrame DEF TypeOK
<1> QED
  BY <1>2, <1>3, <1>4

LEMMA FireWinsAnchor ==
  ASSUME TypeOK, AnchorInv, NEW p \in Scheduler, NEW t \in Trigger,
         Fire(p, t), AnchorUnmoved(p, t)
  PROVE  AnchorInv'
<1>p. p \in Process
  BY DEF Process
<1>1. /\ trig'[p] = t /\ seen' = seen /\ moment' = moment /\ lastFired' = lastFired
      /\ \A q \in Process : q # p => pc'[q] = pc[q] /\ trig'[q] = trig[q]
  BY <1>p DEF Fire, TypeOK, LocalTypes, tickVars
<1>2. ASSUME NEW q \in Scheduler, InTransaction(q)' PROVE AnchorHeld(q)'
  <2>q. q \in Process
    BY DEF Process
  <2>1. CASE q = p
    <3>1. lastFired'[trig'[p]] = seen'[p][trig'[p]]
      BY <1>1 DEF AnchorUnmoved
    <3>2. Due(p, trig[p])' # {} /\ ~Misfire(p, trig[p])'
      BY <1>1 DEF Fire, Due, Misfire, Pending
    <3>3. \A v \in Process \ {p} : InTransaction(v)' => trig'[v] # trig'[p]
      BY <1>1 DEF Fire, TriggerFree, InTransaction
    <3> QED
      BY <2>1, <3>1, <3>2, <3>3 DEF AnchorHeld
  <2>2. CASE q # p
    <3>1. InTransaction(q) /\ trig'[q] = trig[q]
      BY <1>1, <1>2, <2>2, <2>q DEF InTransaction
    <3>2. AnchorHeld(q)
      BY <3>1 DEF AnchorInv
    <3>3. Due(q, trig[q])' # {} /\ ~Misfire(q, trig[q])'
      BY <1>1, <3>1, <3>2 DEF AnchorHeld, Due, Misfire, Pending
    <3>4. trig[q] # t
      BY <2>2, <2>q, <3>1 DEF Fire, TriggerFree
    <3>5. \A v \in Process \ {q} : InTransaction(v)' => trig'[v] # trig'[q]
      BY <1>1, <3>1, <3>2, <3>4 DEF AnchorHeld, InTransaction
    <3> QED
      BY <1>1, <3>1, <3>2, <3>3, <3>5 DEF AnchorHeld
  <2> QED
    BY <2>1, <2>2
<1> QED
  BY <1>2 DEF AnchorInv

LEMMA SkipKeepsAnchors ==
  ASSUME TypeOK, AnchorInv, NEW p \in Scheduler, NEW t \in Trigger, SkipMisfire(p, t)
  PROVE  AnchorInv'
<1>1. AnchorQuiet
  BY TickQuiet
<1>2. ASSUME NEW q \in Scheduler, InTransaction(q)'
      PROVE  lastFired'[trig[q]] = lastFired[trig[q]]
  <2>1. q \in Process /\ InTransaction(q) /\ q # p
    BY <1>1, <1>2 DEF AnchorQuiet, Process, SkipMisfire, InTransaction
  <2>2. trig[q] # t
    BY <2>1 DEF SkipMisfire, TriggerFree
  <2> QED
    BY <2>2 DEF SkipMisfire, TypeOK, RowTypes
<1> QED
  BY <1>1, <1>2, AnchorFrame

LEMMA NextAnchor == TypeOK /\ AnchorInv /\ [Next]_vars => AnchorInv'
<1> SUFFICES ASSUME TypeOK, AnchorInv, [Next]_vars PROVE AnchorInv'
  OBVIOUS
<1>1. ASSUME NEW p \in Scheduler, SchedulerStep(p) PROVE AnchorInv'
  <2>1. CASE BeginTick(p) \/ EndTick(p)
    BY <2>1, TickQuiet, AnchorFrame DEF BeginTick, EndTick
  <2>2. ASSUME NEW t \in Trigger, NotDue(p, t) PROVE AnchorInv'
    BY <2>2, TickQuiet, AnchorFrame DEF NotDue
  <2>3. ASSUME NEW t \in Trigger, Fire(p, t), ~AnchorUnmoved(p, t) PROVE AnchorInv'
    BY <2>3, TickQuiet, AnchorFrame DEF Fire
  <2> QED
    BY <1>1, <2>1, <2>2, <2>3, FireWinsAnchor, SkipKeepsAnchors, EnqueueKeepsAnchors
       DEF SchedulerStep, Process
<1>2. ASSUME NEW p \in Caller, NEW m \in Member, StartManually(p, m) PROVE AnchorInv'
  <2>1. p \in Process /\ p \notin Scheduler
    BY FamilyAssumption DEF Process
  <2>2. ASSUME NEW q \in Scheduler, InTransaction(q)' PROVE AnchorHeld(q)'
    <3>1. q \in Process /\ q # p
      BY <2>1 DEF Process
    <3>2. /\ InTransaction(q) /\ trig' = trig /\ seen' = seen /\ moment' = moment
          /\ lastFired' = lastFired
      BY <1>2, <2>2, <3>1 DEF StartManually, TypeOK, LocalTypes, InTransaction, tickVars
    <3>3. AnchorHeld(q) /\ trig[q] \in Trigger
      BY <3>1, <3>2 DEF AnchorInv, TypeOK, ControlShape
    <3>4. trig[p] # trig[q]
      BY <2>1, <3>3, FamilyAssumption DEF TypeOK, ControlShape
    <3>5. \A v \in Process \ {q} : InTransaction(v)' => trig'[v] # trig'[q]
      <4>1. \A v \in Process : v # p => pc'[v] = pc[v]
        BY <1>2 DEF StartManually, TypeOK, LocalTypes
      <4> QED
        BY <3>2, <3>3, <3>4, <4>1 DEF AnchorHeld, InTransaction
    <3>6. Due(q, trig[q])' # {} /\ ~Misfire(q, trig[q])'
      BY <3>2, <3>3 DEF AnchorHeld, Due, Misfire, Pending
    <3> QED
      BY <3>2, <3>3, <3>5, <3>6 DEF AnchorHeld
  <2> QED
    BY <2>2 DEF AnchorInv
<1>3. ASSUME NEW p \in Process, Defer(p) PROVE AnchorInv'
  BY <1>3, LeaveQuiet, AnchorFrame DEF Defer, TypeOK
<1>4. ASSUME NEW p \in Process, Crash(p) PROVE AnchorInv'
  BY <1>4, EndOfTickQuiet, AnchorFrame DEF Crash, TypeOK
<1>5. CASE OperatorStep
  <2>1. UNCHANGED <<lastFired, pc, trig, me, snap, seen, moment>> /\ lapsed \subseteq lapsed'
    BY <1>5 DEF OperatorStep, RemoveMember, ChangeRole, Publish, Disable, ChangeAccess,
                LapseAccess, ActivateKillSwitch, DeactivateKillSwitch, localVars, tickVars
  <2> QED
    BY <2>1, StillQuiet, AnchorFrame
<1>6. CASE (\E r \in Run : ClaimRun(r) \/ EndRun(r)) \/ TimePasses \/ UNCHANGED vars
  BY <1>6, StillQuiet, AnchorFrame DEF ClaimRun, EndRun, TimePasses, vars, localVars
<1> QED
  BY <1>1, <1>2, <1>3, <1>4, <1>5, <1>6, EnqueueKeepsAnchors DEF Next, CallerStep, Process

LEMMA AnchorHolds == Spec => [](TypeOK /\ AnchorInv)
<1>1. Init => AnchorInv
  BY DEF Init, AnchorInv, InTransaction, Process
<1> QED
  BY <1>1, InitType, NextType, NextAnchor, PTL DEF Spec

-----------------------------------------------------------------------------
(* What a transaction has authorized stays authorized until it commits,     *)
(* but for access by a grant that runs out.                                *)

AuthorityHeld(p) ==
  /\ snap[p] \in Version /\ version[snap[p]] = "active"
  /\ role[me[p]] \in {"writer", "removed"}
  /\ role[me[p]] = "writer" => <<me[p], snap[p]>> \in allowed \/ p \in lapsed
  /\ pc[p] = "insert" => role[me[p]] = "writer"

AuthorityInv == \A p \in Process : Authorized(p) => AuthorityHeld(p)

LEMMA AuthorityFrame ==
  ASSUME AuthorityInv, AuthorityQuiet,
         \A p \in Process : Authorized(p)' =>
           /\ version'[snap[p]] = version[snap[p]]
           /\ role'[me[p]] = role[me[p]]
           /\ <<me[p], snap[p]>> \in allowed => <<me[p], snap[p]>> \in allowed' \/ p \in lapsed'
  PROVE  AuthorityInv'
<1> SUFFICES ASSUME NEW p \in Process, Authorized(p)' PROVE AuthorityHeld(p)'
  BY DEF AuthorityInv
<1>1. pc'[p] = pc[p] /\ me'[p] = me[p] /\ snap'[p] = snap[p]
  BY DEF AuthorityQuiet
<1>2. AuthorityHeld(p)
  BY <1>1 DEF AuthorityInv, Authorized
<1>3. role[me[p]] = "writer" => <<me[p], snap[p]>> \in allowed' \/ p \in lapsed'
  BY <1>2 DEF AuthorityHeld, AuthorityQuiet
<1> QED
  BY <1>1, <1>2, <1>3 DEF AuthorityHeld

\* Nothing changes but the process's own control and version.
LEMMA AuthorityStep ==
  ASSUME TypeOK, AuthorityInv, NEW p \in Process, UNCHANGED <<authorityVars, me, lapsed>>,
         NEW label \in PC, pc' = [pc EXCEPT ![p] = label],
         \A q \in Process : q # p => snap'[q] = snap[q],
         Authorized(p)' => AuthorityHeld(p)'
  PROVE  AuthorityInv'
<1> SUFFICES ASSUME NEW q \in Process, Authorized(q)', q # p PROVE AuthorityHeld(q)'
  BY DEF AuthorityInv
<1>1. pc'[q] = pc[q] /\ snap'[q] = snap[q]
  BY DEF TypeOK, LocalTypes
<1>2. AuthorityHeld(q)
  BY <1>1 DEF AuthorityInv, Authorized
<1> QED
  BY <1>1, <1>2 DEF AuthorityHeld, authorityVars

LEMMA EnqueueKeepsAuthority ==
  ASSUME TypeOK, AuthorityInv, NEW p \in Process, Enqueue(p)
  PROVE  AuthorityInv'
<1> USE DEF TypeOK
<1>1. CASE Leave(p)
  <2>1. UNCHANGED authorityVars
    BY DEF Enqueue, LockVersion, MissVersion, Admit, Insert
  <2> QED
    BY <1>1, <2>1, LeaveQuiet, AuthorityFrame DEF authorityVars
<1>2. CASE LockVersion(p) /\ ~Denied(p)
  <2>1. /\ pc' = [pc EXCEPT ![p] = "admit"]
        /\ UNCHANGED <<authorityVars, me, snap, lapsed>>
    BY <1>2 DEF LockVersion, txVars
  <2>2. pc'[p] = "admit"
    BY <2>1 DEF LocalTypes
  <2>3. snap[p] \in Version /\ version[snap[p]] = "active"
    BY <1>2 DEF LockVersion, StillActive, LocalTypes
  <2>4. role[me[p]] \in Role
    BY <1>2 DEF LockVersion, InTransaction, ControlShape, RowTypes
  <2>5. AuthorityHeld(p)'
    BY <1>2, <2>1, <2>2, <2>3, <2>4 DEF Denied, AuthorityHeld, Role, authorityVars
  <2> QED
    BY <2>1, <2>5, AuthorityStep DEF PC
<1>3. CASE Admit(p) /\ ~(killed \/ role[me[p]] = "removed" \/ Cardinality(Started) >= RateLimit)
  <2>1. /\ pc' = [pc EXCEPT ![p] = "insert"]
        /\ UNCHANGED <<authorityVars, me, snap, lapsed>>
    BY <1>3 DEF Admit, txVars
  <2>2. AuthorityHeld(p)
    BY <1>3 DEF Admit, AuthorityInv, Authorized
  <2>3. AuthorityHeld(p)'
    BY <1>3, <2>1, <2>2 DEF AuthorityHeld, authorityVars
  <2> QED
    BY <2>1, <2>3, AuthorityStep DEF PC
<1>4. CASE MissVersion(p) /\ ~Leave(p)
  <2>1. PICK label \in {"reread", "version"} :
          /\ pc' = [pc EXCEPT ![p] = label]
          /\ snap' = [snap EXCEPT ![p] = ActiveVersion]
          /\ UNCHANGED <<authorityVars, me, lapsed>>
    BY <1>4 DEF MissVersion, Decline
  <2>2. ~Authorized(p)'
    BY <2>1 DEF Authorized, LocalTypes
  <2> QED
    BY <2>1, <2>2, AuthorityStep DEF PC, LocalTypes
<1> QED
  BY <1>1, <1>2, <1>3, <1>4 DEF Enqueue, LockVersion, Admit, Insert, Decline

LEMMA BeginKeepsAuthority ==
  ASSUME TypeOK, AuthorityInv, NEW p \in Process,
         \/ \E m \in Member : StartManually(p, m)
         \/ \E t \in Trigger : Fire(p, t) /\ AnchorUnmoved(p, t)
  PROVE  AuthorityInv'
<1>1. /\ \A q \in Process : q # p => pc'[q] = pc[q] /\ me'[q] = me[q] /\ snap'[q] = snap[q]
      /\ pc'[p] = "version"
      /\ UNCHANGED <<authorityVars, lapsed>>
  BY DEF StartManually, Fire, TypeOK, LocalTypes
<1>2. AuthorityQuiet
  BY <1>1 DEF AuthorityQuiet, Authorized
<1> QED
  BY <1>1, <1>2, AuthorityFrame DEF authorityVars

\* Operators wait for the locks that open transactions hold.
LEMMA OperatorKeepsAuthority ==
  ASSUME TypeOK, AuthorityInv, OperatorStep
  PROVE  AuthorityInv'
<1>1. AuthorityQuiet
  <2>1. UNCHANGED <<pc, trig, me, snap, seen, moment>> /\ lapsed \subseteq lapsed'
    BY DEF OperatorStep, RemoveMember, ChangeRole, Publish, Disable, ChangeAccess,
           LapseAccess, ActivateKillSwitch, DeactivateKillSwitch, localVars, tickVars
  <2> QED
    BY <2>1, StillQuiet
<1>q. ASSUME NEW q \in Process, Authorized(q)'
      PROVE  Authorized(q) /\ AuthorityHeld(q) /\ InTransaction(q)
  BY <1>1, <1>q DEF AuthorityQuiet, AuthorityInv, Authorized, InTransaction
<1>2. ASSUME NEW m \in Member, RemoveMember(m) \/ \E to \in {"writer", "viewer"} : ChangeRole(m, to)
      PROVE  AuthorityInv'
  <2>1. \A q \in Process : ~Authorized(q)'
    BY <1>2, <1>q DEF RemoveMember, ChangeRole, MembershipFree
  <2> QED
    BY <2>1 DEF AuthorityInv
<1>3. ASSUME NEW v \in Version, Publish(v) PROVE AuthorityInv'
  <2>1. ASSUME NEW q \in Process, Authorized(q)' PROVE version'[snap[q]] = version[snap[q]]
    <3>1. snap[q] \in Version /\ version[snap[q]] = "active"
      BY <1>q, <2>1 DEF AuthorityHeld
    <3> QED
      BY <1>3, <1>q, <2>1, <3>1 DEF Publish, VersionFree, Authorized
  <2> QED
    BY <1>1, <1>3, <2>1, AuthorityFrame DEF Publish, localVars
<1>4. ASSUME NEW v \in Version, Disable(v) PROVE AuthorityInv'
  <2>1. ASSUME NEW q \in Process, Authorized(q)' PROVE version'[snap[q]] = version[snap[q]]
    <3>1. snap[q] # v
      BY <1>4, <1>q, <2>1 DEF Disable, VersionFree, Authorized
    <3> QED
      BY <1>4, <3>1 DEF Disable, TypeOK, RowTypes
  <2> QED
    BY <1>1, <1>4, <2>1, AuthorityFrame DEF Disable, localVars
<1>5. ASSUME NEW v \in Version, NEW m \in Member, ChangeAccess(m, v) PROVE AuthorityInv'
  <2>1. ASSUME NEW q \in Process, Authorized(q)', <<me[q], snap[q]>> \in allowed
        PROVE  <<me[q], snap[q]>> \in allowed'
    <3>1. snap[q] # v
      BY <1>5, <1>q, <2>1 DEF ChangeAccess, VersionFree, Authorized
    <3> QED
      BY <1>5, <2>1, <3>1 DEF ChangeAccess
  <2> QED
    BY <1>1, <1>5, <2>1, AuthorityFrame DEF ChangeAccess, localVars
<1>6. ASSUME NEW v \in Version, NEW m \in Member, LapseAccess(m, v) PROVE AuthorityInv'
  <2>1. ASSUME NEW q \in Process, Authorized(q)', <<me[q], snap[q]>> \in allowed
        PROVE  <<me[q], snap[q]>> \in allowed' \/ q \in lapsed'
    BY <1>6, <1>q, <2>1 DEF LapseAccess, Authorized
  <2> QED
    BY <1>1, <1>6, <2>1, AuthorityFrame DEF LapseAccess
<1>7. CASE ActivateKillSwitch \/ DeactivateKillSwitch
  BY <1>1, <1>7, AuthorityFrame DEF ActivateKillSwitch, DeactivateKillSwitch, authorityVars, localVars
<1> QED
  BY <1>2, <1>3, <1>4, <1>5, <1>6, <1>7 DEF OperatorStep

LEMMA NextAuthority == TypeOK /\ AuthorityInv /\ [Next]_vars => AuthorityInv'
<1> SUFFICES ASSUME TypeOK, AuthorityInv, [Next]_vars PROVE AuthorityInv'
  OBVIOUS
<1> USE DEF authorityVars
<1>1. ASSUME NEW p \in Scheduler, SchedulerStep(p) PROVE AuthorityInv'
  <2>1. CASE BeginTick(p) \/ EndTick(p)
    BY <2>1, TickQuiet, AuthorityFrame DEF BeginTick, EndTick
  <2>2. ASSUME NEW t \in Trigger, NotDue(p, t) \/ SkipMisfire(p, t) PROVE AuthorityInv'
    BY <2>2, TickQuiet, AuthorityFrame DEF NotDue, SkipMisfire
  <2>3. ASSUME NEW t \in Trigger, Fire(p, t), ~AnchorUnmoved(p, t) PROVE AuthorityInv'
    BY <2>3, TickQuiet, AuthorityFrame DEF Fire
  <2> QED
    BY <1>1, <2>1, <2>2, <2>3, BeginKeepsAuthority, EnqueueKeepsAuthority
       DEF SchedulerStep, Process
<1>2. ASSUME NEW p \in Caller, CallerStep(p) PROVE AuthorityInv'
  BY <1>2, BeginKeepsAuthority, EnqueueKeepsAuthority DEF CallerStep, Process
<1>3. ASSUME NEW p \in Process, Defer(p) PROVE AuthorityInv'
  BY <1>3, LeaveQuiet, AuthorityFrame DEF Defer, TypeOK
<1>4. ASSUME NEW p \in Process, Crash(p) PROVE AuthorityInv'
  BY <1>4, EndOfTickQuiet, AuthorityFrame DEF Crash, TypeOK
<1>5. CASE (\E r \in Run : ClaimRun(r) \/ EndRun(r)) \/ TimePasses \/ UNCHANGED vars
  BY <1>5, StillQuiet, AuthorityFrame DEF ClaimRun, EndRun, TimePasses, vars, localVars
<1> QED
  BY <1>1, <1>2, <1>3, <1>4, <1>5, OperatorKeepsAuthority DEF Next

LEMMA AuthorityHolds == Spec => [](TypeOK /\ AuthorityInv)
<1>1. Init => AuthorityInv
  BY DEF Init, AuthorityInv, Authorized
<1> QED
  BY <1>1, InitType, NextType, NextAuthority, PTL DEF Spec

\* Only an insert makes a run appear.
LEMMA OnlyInsertStarts ==
  ASSUME TypeOK, [Next]_vars, NEW r \in Run, runState[r] = "absent", runState'[r] # "absent"
  PROVE  \E p \in Process : Insert(p, r)
<1>1. CASE UNCHANGED vars
  BY <1>1 DEF vars, runVars
<1>2. ASSUME NEW p \in Process, Enqueue(p) PROVE \E q \in Process : Insert(q, r)
  BY <1>2 DEF Enqueue, LockVersion, MissVersion, Admit, Insert, runVars, TypeOK, RowTypes
<1>3. ASSUME NEW p \in Scheduler, SchedulerStep(p), ~Enqueue(p) PROVE FALSE
  BY <1>3 DEF SchedulerStep, BeginTick, EndTick, NotDue, SkipMisfire, Fire, runVars
<1>4. ASSUME NEW p \in Caller, CallerStep(p), ~Enqueue(p) PROVE FALSE
  BY <1>4 DEF CallerStep, StartManually, runVars
<1>5. ASSUME NEW p \in Process, Defer(p) \/ Crash(p) PROVE FALSE
  BY <1>5 DEF Defer, Crash, runVars
<1>6. CASE OperatorStep
  <2>1. ASSUME NEW m \in Member, RemoveMember(m) PROVE FALSE
    BY <2>1 DEF RemoveMember, CancelRunsOf
  <2>2. CASE ActivateKillSwitch
    BY <2>2 DEF ActivateKillSwitch
  <2> QED
    BY <1>6, <2>1, <2>2 DEF OperatorStep, ChangeRole, Publish, Disable, ChangeAccess,
                            LapseAccess, DeactivateKillSwitch, runVars
<1>7. CASE (\E q \in Run : ClaimRun(q) \/ EndRun(q)) \/ TimePasses
  BY <1>7 DEF ClaimRun, EndRun, TimePasses, runVars, TypeOK, RowTypes
<1> QED
  BY <1>1, <1>2, <1>3, <1>4, <1>5, <1>6, <1>7 DEF Next, Process

\* A run appears only while its creator is a member who may write, on the version
\* active at that instant, to which they have access, or had it when the starting
\* transaction checked, by a grant that has run out since.
THEOREM StartedWithAuthorityHolds == Spec => StartedWithAuthority
<1> DEFINE A == \A r \in Run : runState[r] = "absent" /\ runState'[r] # "absent" =>
                  LET s == start'[r] IN
                  /\ role[s.by] = "writer"
                  /\ version[s.version] = "active"
                  /\ \/ <<s.by, s.version>> \in allowed
                     \/ \E p \in lapsed : pc[p] = "insert" /\ me[p] = s.by /\ snap[p] = s.version
<1>1. TypeOK /\ AuthorityInv /\ [Next]_vars => [A]_vars
  <2> SUFFICES ASSUME TypeOK, AuthorityInv, [Next]_vars, NEW r \in Run,
                      runState[r] = "absent", runState'[r] # "absent"
               PROVE  /\ role[start'[r].by] = "writer"
                      /\ version[start'[r].version] = "active"
                      /\ \/ <<start'[r].by, start'[r].version>> \in allowed
                         \/ \E p \in lapsed : /\ pc[p] = "insert" /\ me[p] = start'[r].by
                                              /\ snap[p] = start'[r].version
    OBVIOUS
  <2>1. PICK p \in Process : Insert(p, r)
    BY OnlyInsertStarts
  <2>2. start'[r].by = me[p] /\ start'[r].version = snap[p]
    BY <2>1 DEF Insert, TypeOK, RowTypes
  <2>3. AuthorityHeld(p) /\ pc[p] = "insert"
    BY <2>1 DEF Insert, AuthorityInv, Authorized
  <2> QED
    BY <2>2, <2>3 DEF AuthorityHeld
<1> QED
  BY <1>1, AuthorityHolds, PTL DEF Spec, StartedWithAuthority

-----------------------------------------------------------------------------
(* A removed member's runs are told to stop.                               *)

StoppedInv ==
  \A r \in Started :
    /\ start[r].by \in Member
    /\ role[start[r].by] = "removed" => runState[r] = "ended" \/ cancelRequested[r]

\* Runs that were told to stop stay so, and nobody is removed.
LEMMA StoppedFrame ==
  ASSUME StoppedInv, UNCHANGED start,
         \A m \in Member : role'[m] = "removed" => role[m] = "removed",
         \A r \in Run : /\ runState'[r] # "absent" => runState[r] # "absent"
                        /\ runState[r] = "ended" => runState'[r] = "ended"
                        /\ cancelRequested'[r] = cancelRequested[r]
  PROVE  StoppedInv'
BY DEF StoppedInv, Started

LEMMA InsertKeepsStopped ==
  ASSUME TypeOK, AuthorityInv, StoppedInv, NEW p \in Process, NEW r \in Run, Insert(p, r)
  PROVE  StoppedInv'
<1> SUFFICES ASSUME NEW q \in Started'
             PROVE  /\ start'[q].by \in Member
                    /\ role'[start'[q].by] = "removed" =>
                         runState'[q] = "ended" \/ cancelRequested'[q]
  BY DEF StoppedInv
<1>1. q \in Run
  BY DEF Started
<1>2. CASE q = r
  <2>1. start'[q].by = me[p]
    BY <1>2 DEF Insert, TypeOK, RowTypes
  <2>2. me[p] \in Member /\ role[me[p]] = "writer"
    BY DEF Insert, AuthorityInv, Authorized, AuthorityHeld, InTransaction, TypeOK, ControlShape
  <2> QED
    BY <2>1, <2>2 DEF Insert, authorityVars
<1>3. CASE q # r
  <2>1. start'[q] = start[q] /\ runState'[q] = runState[q]
    BY <1>1, <1>3 DEF Insert, TypeOK, RowTypes
  <2>2. q \in Started
    BY <1>1, <2>1 DEF Started
  <2> QED
    BY <2>1, <2>2 DEF StoppedInv, Insert, authorityVars
<1> QED
  BY <1>2, <1>3

LEMMA RemovalStops ==
  ASSUME TypeOK, StoppedInv, NEW m \in Member, RemoveMember(m)
  PROVE  StoppedInv'
<1> SUFFICES ASSUME NEW r \in Started', role'[start'[r].by] = "removed"
             PROVE  runState'[r] = "ended" \/ cancelRequested'[r]
  BY DEF StoppedInv, RemoveMember, CancelRunsOf, Started
<1>1. /\ r \in Run /\ r \in Started /\ start'[r] = start[r]
      /\ runState[r] = "ended" => runState'[r] = "ended"
      /\ cancelRequested[r] => cancelRequested'[r]
  BY DEF RemoveMember, CancelRunsOf, Started
<1>2. CASE start[r].by = m
  BY <1>1, <1>2 DEF RemoveMember, CancelRunsOf, Started
<1>3. CASE start[r].by # m
  <2>1. role[start[r].by] = "removed"
    BY <1>1, <1>3 DEF RemoveMember, StoppedInv, TypeOK, RowTypes
  <2> QED
    BY <1>1, <2>1 DEF StoppedInv
<1> QED
  BY <1>2, <1>3

LEMMA NextStopped == TypeOK /\ AuthorityInv /\ StoppedInv /\ [Next]_vars => StoppedInv'
<1> SUFFICES ASSUME TypeOK, AuthorityInv, StoppedInv, [Next]_vars PROVE StoppedInv'
  OBVIOUS
<1>1. CASE UNCHANGED <<role, runVars>>
  BY <1>1, StoppedFrame DEF runVars
<1>2. ASSUME NEW p \in Process, Enqueue(p) PROVE StoppedInv'
  BY <1>1, <1>2, InsertKeepsStopped
     DEF Enqueue, LockVersion, MissVersion, Admit, authorityVars
<1>3. ASSUME NEW p \in Scheduler, SchedulerStep(p) PROVE StoppedInv'
  BY <1>1, <1>2, <1>3 DEF SchedulerStep, BeginTick, EndTick, NotDue, SkipMisfire, Fire,
                          authorityVars, Process
<1>4. ASSUME NEW p \in Caller, CallerStep(p) PROVE StoppedInv'
  BY <1>1, <1>2, <1>4 DEF CallerStep, StartManually, authorityVars, Process
<1>5. ASSUME NEW p \in Process, Defer(p) \/ Crash(p) PROVE StoppedInv'
  BY <1>1, <1>5 DEF Defer, Crash, authorityVars
<1>6. ASSUME NEW m \in Member, NEW to \in {"writer", "viewer"}, ChangeRole(m, to)
      PROVE  StoppedInv'
  <2>1. \A n \in Member : role'[n] = "removed" => role[n] = "removed"
    BY <1>6 DEF ChangeRole, TypeOK, RowTypes
  <2> QED
    BY <1>6, <2>1, StoppedFrame DEF ChangeRole, runVars
<1>7. ASSUME NEW v \in Version,
             \/ Publish(v) \/ Disable(v)
             \/ \E m \in Member : ChangeAccess(m, v) \/ LapseAccess(m, v)
      PROVE  StoppedInv'
  BY <1>1, <1>7 DEF Publish, Disable, ChangeAccess, LapseAccess
<1>8. CASE ActivateKillSwitch \/ DeactivateKillSwitch
  BY <1>8, StoppedFrame DEF ActivateKillSwitch, DeactivateKillSwitch, authorityVars, runVars
<1>9. ASSUME NEW r \in Run, ClaimRun(r) \/ EndRun(r) PROVE StoppedInv'
  <2>1. /\ UNCHANGED <<role, start, cancelRequested>>
        /\ \A q \in Run : /\ runState'[q] # "absent" => runState[q] # "absent"
                          /\ runState[q] = "ended" => runState'[q] = "ended"
    BY <1>9 DEF ClaimRun, EndRun, authorityVars, TypeOK, RowTypes
  <2> QED
    BY <2>1, StoppedFrame
<1>10. CASE TimePasses \/ UNCHANGED vars
  BY <1>1, <1>10 DEF TimePasses, vars, authorityVars
<1> QED
  BY <1>3, <1>4, <1>5, <1>6, <1>7, <1>8, <1>9, <1>10, RemovalStops DEF Next, OperatorStep

\* A removed member has no run that nobody told to stop: no fire and no request
\* slips a run past the removal that cancels them.
THEOREM RemovedMemberStoppedHolds == Spec => []RemovedMemberStopped
<1>1. Init => StoppedInv
  BY DEF Init, StoppedInv, Started
<1>2. StoppedInv => RemovedMemberStopped
  BY DEF StoppedInv, RemovedMemberStopped
<1> QED
  BY <1>1, <1>2, NextStopped, AuthorityHolds, PTL DEF Spec

-----------------------------------------------------------------------------
(* The refinement of catch-up once.                                        *)

CatchProofs == INSTANCE CatchUpOnceProofs WITH anchor <- lastFired, fired <- Fired

\* What the abstract specification can see.
abstractVars == <<lastFired, Fired>>

LEMMA FiredFrame ==
  ASSUME Started' = Started, UNCHANGED start
  PROVE  Fired' = Fired
BY DEF Fired

\* A fire resolves what was due since the anchor, up to the tick's moment.
LEMMA WonOccurrences ==
  ASSUME TypeOK, AnchorInv, NEW p \in Scheduler, InTransaction(p)
  PROVE  /\ trig[p] \in Trigger /\ moment[p] \in 1 .. MaxTime
         /\ lastFired[trig[p]] = seen[p][trig[p]]
         /\ Catch!Pending(trig[p], lastFired[trig[p]], moment[p]) # {}
         /\ Catch!MayFire(trig[p], lastFired[trig[p]], moment[p])
<1>1. trig[p] \in Trigger /\ moment[p] \in Time
  BY DEF TypeOK, ControlShape, LocalTypes, Process
<1>2. AnchorHeld(p)
  BY DEF AnchorInv
<1>3. lastFired[trig[p]] = seen[p][trig[p]]
  BY <1>2 DEF AnchorHeld
<1>4. Catch!Pending(trig[p], lastFired[trig[p]], moment[p]) = Due(p, trig[p])
  BY <1>3 DEF Catch!Pending, Due, Pending
<1>5. PICK o \in Occurs[trig[p]] : o <= moment[p]
  BY <1>2 DEF AnchorHeld, Due, Pending
<1>6. o \in 1 .. MaxTime
  BY <1>1, FamilyAssumption
<1>7. moment[p] \in 1 .. MaxTime
  BY <1>1, <1>5, <1>6, FamilyAssumption DEF Time
<1>8. Catch!MayFire(trig[p], lastFired[trig[p]], moment[p])
  BY <1>2, <1>4 DEF AnchorHeld, Misfire, Catch!MayFire
<1> QED
  BY <1>1, <1>2, <1>3, <1>4, <1>7, <1>8 DEF AnchorHeld

\* A fire without a run resolves its occurrences all the same.
LEMMA DeclineResolves ==
  ASSUME TypeOK, AnchorInv, NEW p \in Process, InTransaction(p), Decline(p), UNCHANGED runVars
  PROVE  [Catch!Next]_abstractVars
<1>1. Fired' = Fired
  BY FiredFrame DEF runVars, Started
<1>2. CASE p \in Scheduler
  <2>1. Catch!Resolve(trig[p], moment[p])
    BY <1>1, <1>2, WonOccurrences DEF Decline, CommitAnchor, Catch!Resolve
  <2> QED
    BY <1>2, <2>1, WonOccurrences DEF Catch!Next
<1>3. CASE p \notin Scheduler
  BY <1>1, <1>3 DEF Decline, CommitAnchor, abstractVars
<1> QED
  BY <1>2, <1>3

\* The runs of each trigger once one more run has started.
LEMMA InsertFires ==
  ASSUME TypeOK, NEW p \in Process, NEW r \in Run, Insert(p, r)
  PROVE  /\ Catch!Unused(r)
         /\ Fired = [t \in Trigger |-> Fired[t]]
         /\ Fired' = [t \in Trigger |->
              IF t = trig[p]
                THEN Fired[t] \cup {[run |-> r, from |-> start'[r].from, to |-> start'[r].to]}
                ELSE Fired[t]]
<1>1. r \notin Started /\ Started' = Started \cup {r}
  BY DEF Insert, NextId, Started, TypeOK, RowTypes
<1>2. start'[r].trigger = trig[p] /\ \A q \in Started : start'[q] = start[q]
  BY <1>1 DEF Insert, TypeOK, RowTypes, Started
<1>3. Catch!Unused(r)
  BY <1>1 DEF Catch!Unused, Fired
<1>4. ASSUME NEW t \in Trigger
      PROVE  Fired'[t] = IF t = trig[p]
               THEN Fired[t] \cup {[run |-> r, from |-> start'[r].from, to |-> start'[r].to]}
               ELSE Fired[t]
  <2> DEFINE row(q) == [run |-> q, from |-> start[q].from, to |-> start[q].to]
             row1(q) == [run |-> q, from |-> start'[q].from, to |-> start'[q].to]
  <2>1. Fired[t] = {row(q) : q \in {u \in Started : start[u].trigger = t}}
    BY DEF Fired
  <2>2. Fired'[t] = {row1(q) : q \in {u \in Started' : start'[u].trigger = t}}
    BY DEF Fired
  <2>3. \A q \in Started : row1(q) = row(q)
    BY <1>2
  <2> HIDE DEF row, row1
  <2>4. Fired'[t] = IF t = trig[p] THEN Fired[t] \cup {row1(r)} ELSE Fired[t]
    BY <1>1, <1>2, <2>1, <2>2, <2>3
  <2> QED
    BY <2>4 DEF row1
<1> QED
  BY <1>3, <1>4 DEF Fired

\* A commit that starts a run resolves its trigger's occurrences in the same step.
LEMMA InsertResolves ==
  ASSUME TypeOK, AnchorInv, NEW p \in Process, NEW r \in Run, Insert(p, r)
  PROVE  [Catch!Next]_abstractVars
<1>1. InTransaction(p)
  BY DEF Insert, InTransaction
<1>2. CASE p \in Scheduler
  <2>1. start'[r].from = lastFired[trig[p]] /\ start'[r].to = moment[p]
    BY <1>1, <1>2, WonOccurrences DEF Insert, TypeOK, RowTypes
  <2>2. Fired' = [Fired EXCEPT ![trig[p]] =
                    @ \cup {[run |-> r, from |-> lastFired[trig[p]], to |-> moment[p]]}]
    BY <2>1, InsertFires
  <2>3. Catch!Resolve(trig[p], moment[p])
    BY <1>1, <1>2, <2>2, WonOccurrences, InsertFires
       DEF Insert, CommitAnchor, Catch!Resolve
  <2> QED
    BY <1>1, <1>2, <2>3, WonOccurrences DEF Catch!Next
<1>3. CASE p \notin Scheduler
  <2>1. trig[p] \notin Trigger
    BY <1>3, FamilyAssumption DEF TypeOK, ControlShape, Process
  <2>2. Fired' = Fired
    BY <2>1, InsertFires
  <2> QED
    BY <1>3, <2>2 DEF Insert, CommitAnchor, abstractVars
<1> QED
  BY <1>2, <1>3

LEMMA EnqueueMaps ==
  ASSUME TypeOK, AnchorInv, NEW p \in Process, Enqueue(p)
  PROVE  [Catch!Next]_abstractVars
<1>1. InTransaction(p)
  BY DEF Enqueue, LockVersion, MissVersion, Admit, Insert, InTransaction
<1>2. CASE Decline(p) /\ UNCHANGED runVars
  BY <1>1, <1>2, DeclineResolves
<1>3. CASE UNCHANGED <<lastFired, runVars>>
  BY <1>3, FiredFrame DEF runVars, Started, abstractVars
<1>4. ASSUME NEW r \in Run, Insert(p, r) PROVE [Catch!Next]_abstractVars
  BY <1>4, InsertResolves
<1> QED
  BY <1>2, <1>3, <1>4 DEF Enqueue, LockVersion, MissVersion, Admit

LEMMA SkipResolves ==
  ASSUME TypeOK, NEW p \in Scheduler, NEW t \in Trigger, SkipMisfire(p, t)
  PROVE  [Catch!Next]_abstractVars
<1>1. Fired' = Fired
  BY FiredFrame DEF SkipMisfire, runVars, Started
<1>2. CASE AnchorUnmoved(p, t)
  <2>1. Catch!Pending(t, lastFired[t], moment[p]) = Due(p, t)
    BY <1>2 DEF AnchorUnmoved, Catch!Pending, Due, Pending
  <2>2. PICK o \in Due(p, t) : TRUE
    BY DEF SkipMisfire, Misfire
  <2>3. o \in 1 .. MaxTime /\ o <= moment[p] /\ moment[p] \in Time
    BY FamilyAssumption DEF Due, Pending, TypeOK, LocalTypes, Process
  <2>4. moment[p] \in 1 .. MaxTime
    BY <2>3, FamilyAssumption DEF Time
  <2>5. Catch!Resolve(t, moment[p])
    BY <1>1, <1>2, <2>1, <2>2 DEF SkipMisfire, Catch!Resolve
  <2> QED
    BY <2>4, <2>5 DEF Catch!Next
<1>3. CASE ~AnchorUnmoved(p, t)
  BY <1>1, <1>3 DEF SkipMisfire, abstractVars
<1> QED
  BY <1>2, <1>3

LEMMA NextMaps == TypeOK /\ AnchorInv /\ [Next]_vars => [Catch!Next]_abstractVars
<1> SUFFICES ASSUME TypeOK, AnchorInv, [Next]_vars PROVE [Catch!Next]_abstractVars
  OBVIOUS
<1>1. CASE UNCHANGED <<lastFired, start>> /\ Started' = Started
  BY <1>1, FiredFrame DEF abstractVars
<1>2. ASSUME NEW p \in Scheduler, SchedulerStep(p) PROVE [Catch!Next]_abstractVars
  <2>1. CASE BeginTick(p) \/ EndTick(p)
    BY <1>1, <2>1 DEF BeginTick, EndTick, runVars, Started
  <2>2. ASSUME NEW t \in Trigger, NotDue(p, t) \/ Fire(p, t) PROVE [Catch!Next]_abstractVars
    BY <1>1, <2>2 DEF NotDue, Fire, runVars, Started
  <2> QED
    BY <1>2, <2>1, <2>2, SkipResolves, EnqueueMaps DEF SchedulerStep, Process
<1>3. ASSUME NEW p \in Caller, CallerStep(p) PROVE [Catch!Next]_abstractVars
  <2>1. ASSUME NEW m \in Member, StartManually(p, m) PROVE [Catch!Next]_abstractVars
    BY <1>1, <2>1 DEF StartManually, runVars, Started
  <2> QED
    BY <1>3, <2>1, EnqueueMaps DEF CallerStep, Process
<1>4. ASSUME NEW p \in Process, Defer(p) \/ Crash(p) PROVE [Catch!Next]_abstractVars
  BY <1>1, <1>4 DEF Defer, Crash, runVars, Started
<1>5. CASE OperatorStep
  <2>1. ASSUME NEW m \in Member, RemoveMember(m) PROVE Started' = Started
    BY <2>1 DEF RemoveMember, CancelRunsOf, Started
  <2>2. CASE ActivateKillSwitch
    <3>1. Started' = Started
      BY <2>2 DEF ActivateKillSwitch, Started
    <3> QED
      BY <1>1, <2>2, <3>1 DEF ActivateKillSwitch
  <2>3. ASSUME NEW m \in Member, RemoveMember(m) PROVE [Catch!Next]_abstractVars
    BY <1>1, <2>1, <2>3 DEF RemoveMember
  <2>4. CASE UNCHANGED <<lastFired, runVars>>
    BY <1>1, <2>4 DEF runVars, Started
  <2> QED
    BY <1>5, <2>2, <2>3, <2>4
       DEF OperatorStep, ChangeRole, Publish, Disable, ChangeAccess, LapseAccess,
           DeactivateKillSwitch
<1>6. ASSUME NEW r \in Run, ClaimRun(r) \/ EndRun(r) PROVE [Catch!Next]_abstractVars
  <2>1. Started' = Started
    BY <1>6 DEF ClaimRun, EndRun, Started, TypeOK, RowTypes
  <2> QED
    BY <1>1, <1>6, <2>1 DEF ClaimRun, EndRun
<1>7. CASE TimePasses \/ UNCHANGED vars
  BY <1>1, <1>7 DEF TimePasses, vars, runVars, Started
<1> QED
  BY <1>2, <1>3, <1>4, <1>5, <1>6, <1>7 DEF Next

\* The scheduler implements catch-up once: every move of an anchor resolves due
\* occurrences up to the tick's moment and starts at most one run, in one step,
\* whatever the replicas, their clocks, their faults and the requests do.
THEOREM CatchesUpOnceHolds == Spec => CatchesUpOnce
<1>1. Init => Catch!Init
  BY DEF Init, Catch!Init, Fired, Started, Unresolved
<1> QED
  BY <1>1, NextMaps, AnchorHolds, PTL DEF Spec, CatchesUpOnce, Catch!Spec, abstractVars

\* No occurrence starts two runs, since none does under catch-up once.
THEOREM OncePerOccurrenceHolds == Spec => []OncePerOccurrence
<1>1. CatchProofs!Spec => []CatchProofs!OncePerOccurrence
  BY CatchProofs!OnceHolds, FamilyAssumption DEF CatchProofs!Schedule
<1>2. Catch!Init => CatchProofs!Init
  BY DEF Catch!Init, CatchProofs!Init
<1>3. [Catch!Next]_<<lastFired, Fired>> => [CatchProofs!Next]_<<lastFired, Fired>>
  BY DEF Catch!Next, Catch!Resolve, Catch!Pending, Catch!MayFire, Catch!Unused,
         CatchProofs!Next, CatchProofs!Resolve, CatchProofs!Pending, CatchProofs!MayFire,
         CatchProofs!Unused
<1>4. CatchProofs!OncePerOccurrence => OncePerOccurrence
  BY DEF OncePerOccurrence, Catch!OncePerOccurrence, Catch!Pending,
         CatchProofs!OncePerOccurrence, CatchProofs!Pending
<1> QED
  BY <1>1, <1>2, <1>3, <1>4, CatchesUpOnceHolds, PTL
     DEF CatchesUpOnce, Catch!Spec, CatchProofs!Spec
====
