# TLA+ for the Executive Command Center

The Executive Command Center is a multi-user web backend (FastAPI, SQLAlchemy,
PostgreSQL) with one long-running process beside it, the automation worker. Most of
its code is guarded edits of single rows. What is specified here is the part whose
correctness depends on the order in which requests, processes, operators, providers
and crashes meet: the run engine and its scheduler, the protocol every write follows,
members and what they share, connector syncs, Gmail consent, and entity merges.

1. [The system](#1-the-system) - inventory
2. [Modules](#2-modules) - what is specified where, and what is left
3. [AutomationRun](#3-automationrun) - the run engine
4. [AutomationSchedule and CatchUpOnce](#4-automationschedule-and-catchuponce) - how runs come to exist
5. [WriteProtocol](#5-writeprotocol) - locks, roles and idempotency keys
6. [Membership and Delegation](#6-membership-and-delegation) - who is in, and what they share
7. [ConnectorSync, GmailConsent and EntityOperations](#7-connectorsync-gmailconsent-and-entityoperations) - what is kept of the outside, and of the graph
8. [Runs, bounds and fairness](#8-runs-bounds-and-fairness)
9. [Proofs](#9-proofs)
10. [Findings](#10-findings)
11. [Not modelled](#11-not-modelled)

To check one run or one proof:

    tlc -workers 2 -config MCAutomationRun.cfg MCAutomationRun.tla
    tlapm AutomationRunProofs.tla

`PROJECT.json` lists components, runs, mutants, hazards, theorems, and for every
definition the source lines it models.

## 1. The system

Paths are relative to `backend/ecc/`.

### Automation (`domains/automation/`)

| part | state | operations | what is hard |
|---|---|---|---|
| durable run worker (`worker.py`, `scripts/run_automation_worker.py`) | `workflow_runs` (status, cursor, lease, flags, backoff), `workflow_run_steps` (status, attempts), `compensation_steps` | claim, renew, run a step, retry, fail, compensate, finish; enqueue, cancel, pause, resume | several workers; a lease that lapses during an adapter call; a crash between the dispatch row and the outcome; writes of a displaced worker |
| approvals (`approvals.py`) | `approval_requests` | request, approve, reject, expire, advance the run | a decision that meets a run which has moved on |
| kill switches (`kill_switches.py`) | `automation_kill_switches` | activate (parks queued runs), deactivate | activation against claims, retries and enqueues in progress |
| policies (`policy.py`) | `automation_policies` | create, revoke, expire | authority that lapses between a gate and a decision |
| workflow versions (`workflows.py`) | `workflow_versions` | draft, publish, disable | a run starting on the version that is being retired |
| scheduler and triggers (`scheduler.py`, `triggers.py`) | `triggers.last_fired_at` | tick: skip or fire what is due | several replicas; lagging clocks; one commit for anchor and run |
| run endpoints (`runs.py`, `run_visibility.py`) | - | start, list, cancel, pause, resume | the checks of a start and its insert are separate statements |
| adapters (`adapters.py`, `local_adapters.py`) | outside | execute, compensate, simulate | I/O; only their contract matters here |

They interact through rows alone. The worker reads requests, switches and policies
at its gate; a decision or an activation writes run rows; the scheduler and the
start endpoint share `worker.enqueue_run`; member removal cancels runs through
`worker.cancel_runs_for_removed_member`. What makes them correct: a step acts at
most once per attempt and never on a guess; nothing acts without the authority its
policy asks for; what is undone is what was done, latest first; a terminal status
is final and true; a killed workflow gains no lease; every run ends or reaches a
human; an occurrence of a schedule starts at most one run and is never lost; a run
starts only with authority that still holds at its commit (a grant may run out just
before it), and a removed member leaves none behind.

### Everything else

| part | state and operations | hard behaviour and correctness property |
|---|---|---|
| identity (`domains/identity/`) | accounts, invitations, memberships: invite, accept, change role, remove | removal and demotion race under the exclusive membership lock; a workspace never loses its last owner; one acceptance per invitation |
| platform authorization (`platform/authz*.py`, `connector_security.py`) | roles, `resource_grants`, ownership; the membership lock | lock order across endpoints; no action on access withdrawn before its commit, except by the lapse of a grant |
| platform idempotency (`platform/idempotency.py`) | advisory locks, `idempotency_records` | a retried call acts once and answers the same, and is not served to someone no longer allowed |
| collaboration (`domains/collaboration/delegations.py`) | delegations and the grants of their evidence | lazy expiry against accept, revoke and removal; no grant outlives the delegation that made it |
| AI runtime (`domains/ai_runtime/`) | runs, budgets, an in-memory circuit breaker per model | cancellation against execution and persistence; a late answer after the breaker moved on |
| engineering connectors (`domains/engineering/`) | accounts, repositories, watermark and resume cursor of a page walk | items that move between pages; the watermark never passes something not fetched |
| personal and Gmail (`domains/personal/`) | consents, OAuth credentials, mirrored mail, export and deletion | two enrolments at once, enrolment against revocation; the provider is told after the commit |
| knowledge (`domains/knowledge/`) | entities, merges and splits with their inverses, notes, claims | reversing a merge after what it moved has been edited |
| attention (`domains/attention/`) | waiting links, plans, reviews | no cycle of links, under an advisory lock and a depth cap |
| governance, planning, communication, scheduling, calendar | versioned rows behind the idempotency layer | optimistic version checks |
| platform audit, notifications, events, pagination, dashboard | rows in the caller's transaction | none of their own |
| application shell, frontend, migrations, scripts | wiring | - |

## 2. Modules

| module | component | state space checked in | proofs |
|---|---|---|---|
| `AutomationRun` | durable run worker, approvals, kill switches, policies | `core`, `gate`, `live` | `AutomationRunProofs` |
| `CatchUpOnce` | the abstract promise of a schedule trigger | `schedule` (as a property) | `CatchUpOnceProofs` |
| `AutomationSchedule` | scheduler, start path, what removal and publication do to it | `schedule`, `start` | `AutomationScheduleProofs` |
| `WriteProtocol` | membership lock, idempotency lock and record, role check, requests that call a model | `writes` | `WriteProtocolProofs` |
| `Membership` | role changes, removals, invitations, ownership | `collaboration` | `MembershipProofs` |
| `Delegation` | delegations, explicit grants, `authorize`; extends `Membership` | `collaboration` | `DelegationProofs` |
| `GmailConsent` | enrolment, mirrored mail, withdrawal, the calls to Google | `collaboration` | `GmailConsentProofs` |
| `ConnectorSync` | sync runs, page walk, cursors, upsert | `records` | `RecordsProofs` |
| `EntityOperations` | merge, reversal, split, relationships | `records` | `RecordsProofs` |

`Delegation` is the composition of members, their resources and what is shared:
`RemoveAndCancel` is the removal of `Membership` together with what it does to
delegations, and transfers of ownership meet delegations at the resource's row.
`MCRecords` and `MCCollaboration` put modules that share no state into one run and
check them one at a time.

Left, most important first: Jira's token cursor beside the page numbers; refresh of OAuth
tokens, with a reconnection in between; the breaker of the AI runtime, once a document
says what a late answer should do; the cycle check of waiting links.

## 3. AutomationRun

One action is one database transaction, or one call of an adapter. Between two of
them anything else may happen. The graph of a run is a constant because the version
a run is pinned to is immutable; `GraphAssumption` is what
`workflows.validate_graph_shape` enforces.

State: the columns of `workflow_runs` the control depends on (`status`, `cursor` for
`current_step_index`, `leasedBy`, `lapsed` for `leased_until < now()`,
`cancelRequested`, `pauseRequested`, `backingOff` for a future `next_attempt_at`),
of `workflow_run_steps` (`step`, `attempts`), the requests, switches and policies,
the local variables of each worker (`pc`, `job`, `at`, `verdict`, `tried`, `todo`,
`clean`), and two histories (`effects` counts adapter calls, `crashes` deaths).

| actions | code |
|---|---|
| `Claim` | `claim_next_run`: select, then compare-and-swap on `_CLAIMABLE_PREDICATE` |
| `MarkRunning`, `RenewLease`, `CheckKillSwitch`, `Settle` | the loop of `process_claimed_run` |
| `SkipSucceeded`, `SkipFailed`, `SkipUnknown`, `MarkUnknown`, `Redispatch` | `run_step` on a row that exists |
| `BlockedByPolicy`, `GateUndispatchable`, `RequestApproval`, `AwaitApproval`, `FirstDispatch` | `run_step` on no row: the dispatch gate and the dispatched row |
| `Execute`, `FailUnregistered`, `RecordSuccess`, `RecordTransient`, `RecordFailure`, `AfterFailure` | the adapter call and its outcome |
| `CompensationRenew`, `CompensationGate`, `CompensationRefused`, `CompensationExecute`, `CompensationRecord`, `CompensationDone` | `_run_compensation_sequence` and `_dispatch_compensation_step` |
| `Enqueue`, `Cancel`, `Pause`, `Resume` | the functions of those names |
| `Approve`, `Reject`, `ApprovalExpires` | `decide_approval` with `_advance_run_after_decision`; expiry is computed, never stored |
| `ActivateKillSwitch`, `DeactivateKillSwitch`, `PolicyLapses` | with the parking of queued runs; revocation and expiry of a policy |
| `LeaseLapses`, `BackoffElapses`, `Crash` | time, and the death of a worker |

Choices a reader should know:

- Ownership guards are where the code has them and nowhere else. Run-state writes
  are guarded (`OwnedWrite`); the step rows' outcomes and `current_step_index` are
  not, and in the model a displaced worker makes those writes too.
- The reads of the gate and the insert of the dispatched row are one action: the
  insert commits with the reads in one transaction, and what may come between
  (revocation of a policy, a switch) is as if it came just after the commit.
- Which claimable run is taken is nondeterministic; the code takes the oldest.
- A worker that dies forgets everything and its name may be used again. This is
  more than the code allows (it names workers at random) and so is sound for safety.
- `Enqueue` is one action here. Its interleavings are the subject of section 4.
- The `compensation_steps` ledger mirrors the step rows of compensation steps and
  is not kept apart.

## 4. AutomationSchedule and CatchUpOnce

`AutomationSchedule` is one workflow family: its schedule triggers, its versions,
and the two ways a run of it starts. Here one action is one *statement* that another
transaction can come between; a transaction nothing can come between is one action.
A transaction's writes appear at its commit, and the locks it holds follow from
where it stands:

| lock | held | waits |
|---|---|---|
| membership, shared | `InTransaction(p)` | `RemoveMember`, `ChangeRole` (`MembershipFree`) |
| the trigger's row | a fire from its compare-and-swap on | another replica's compare-and-swap (`TriggerFree`) |
| the version's row, `FOR SHARE` | from `LockVersion` on | `Publish`, `Disable`, `ChangeAccess` (`VersionFree`) |
| none | - | `LapseAccess`: a grant's `expires_at` passes, or the delegation that made it ends |

| actions | code |
|---|---|
| `BeginTick`, `NotDue`, `SkipMisfire`, `Fire`, `EndTick` | `run_scheduler_once` with `_evaluate_schedule` and `mark_trigger_fired` |
| `StartManually` | the head of `create_run_endpoint` |
| `LockVersion`, `MissVersion` | `_creator_denied_action`; `lock_active_version` and the two `authorize` calls of the endpoint |
| `Admit`, `Insert` | `enqueue_run`: switches, membership, rate limit; the insert with the commit |
| `Defer`, `Crash` | `OperationalError` in a fire (or a failing request); a dead process, or an exception that leaves the tick |
| `RemoveMember`, `ChangeRole`, `Publish`, `Disable`, `ChangeAccess`, `ActivateKillSwitch`, `DeactivateKillSwitch` | the endpoints of those names, as a starting run sees them |
| `LapseAccess` | `expires_at` in `authz._active_grant_exists`; `_revoke_evidence_grants` in `delegations.py`, under the shared membership lock only |
| `ClaimRun`, `EndRun` | what `AutomationRun` does with the run, reduced to what removal and switches tell apart |

Choices: a locking `SELECT` takes its snapshot first and gets its lock later, so
`snap` is chosen from the snapshot and `StillActive` re-checks it when the lock is
granted (PostgreSQL's behaviour at read committed). A fire re-reads once after such
a miss, a request as long as there is an active version. The three checks of
`enqueue_run` are one action; the insert is another, a gap that section 10 comes back to.
`enqueue_run` reads the active version again, but the one it reads is
the one held `FOR SHARE`, which is what `AuthorityInv` proves. Access that rests on a
grant may run out after its check, and the run starts all the same: the history `lapsed`
collects the transactions this happened to, and `StartedWithAuthority` excepts them, for
their access only. The cron expression is
a constant: `Occurs[t]` is what `croniter` yields in the trigger's zone. A trigger is
created at time 0, so a `NULL` `last_fired_at` and its creation time are both 0.
`Skew` lets a tick take a moment in the past: its clock lags, or it waited.
`RateLimit` counts every run because the whole horizon lies within one hour. Transfer
of what a removed member owned is a precondition of the removal and changes nothing
that is modelled (a run's `owner_id` moves, its `created_by` does not). Rejoining,
idempotent replays and cancellation of queued runs by users are left out.

`CatchUpOnce` is what remains visible: an anchor per trigger and the set of runs it
started, each with the interval of occurrences it resolved. One step moves one
anchor over at least one occurrence and starts at most one run. The refinement maps
`anchor <- lastFired` and `fired <- Fired`, where `Fired` is read off the rows'
history. Checked as `CatchesUpOnce` and proved as `CatchesUpOnceHolds`.

## 5. WriteProtocol

Every endpoint that changes something takes an `Idempotency-Key`. `WriteProtocol`
follows a request from lock to lock; a step is what happens between two waits.

| kind | where | shape |
|---|---|---|
| `plain` | almost every endpoint | one transaction: membership lock shared, key lock, lookup, role, write and stored answer |
| `insight` | `ai_insights.generate_insight_endpoint` | the key lock on a connection of its own; three transactions under the membership lock around a model call; the answer stored in a fourth |
| `prep` | `meeting_prep.create_prep` | the key lock around; the membership lock only in the transaction that writes and stores |
| `run` | `runtime.create_run` | the key lock around; no membership lock at all |

State: the role each caller has (`allowed`), the slot of each caller and key
(`record`, `expired`), where each request and removal stands (`at`), which removals
queue for the lock before a request (`ahead`: PostgreSQL grants an advisory lock in
order, so a shared request waits behind a waiting exclusive one), and the history
`performed`.

| actions | code |
|---|---|
| `AskPlain`, `LockPlain`, `LookUpPlain`, `CommitPlain` | `lock_membership_for_write`, `lock_idempotency`, `load_cached`, `store_idempotency` |
| `AskHeld`, `HoldKey`, `LookUpInsight`, `LookUpPrep` | `held_idempotency_lock`, and the lookup inside it |
| `AskRun`, `LookUpRun`, `PersistRun` | `create_run` |
| `ModelReturns`, `PersistInsightRun`, `InsertInsight`, `InsertPrep`, `StoreAnswer` | what follows the model call, a transaction each |
| `Abort` | an error, a statement timeout, a dead process: locks go with the connection |
| `ExpireRecord` | `expires_at` passes: lookups find nothing, but the row stays: a plain request or meeting pack fails on its primary key, `StoreAnswer` stores nothing |
| `AskExclusive`, `TakeRole`, `GiveUp` | a removal or demotion, with its `lock_timeout` |

What makes it correct: one key has one effect, except where effect and answer commit
apart and the answer is lost; nothing takes effect behind a recorded answer; an effect
or a replayed answer goes only to a caller who has the role (`run` is excepted, it
checks its caller before the model call and not after); and every wait ends, though
waits do close a cycle: a plain request with the membership lock waits for a key, an
insight with that key queues behind a removal, the removal waits for the plain
request. Only the removal's timeout opens it.

## 6. Membership and Delegation

One workspace. A request that changes something checks under the locks it took and
commits in a later step; locks are held in between and follow from what a place is
serving (`holds` for the membership lock, row locks from `doing` and `acting`).

| actions | code |
|---|---|
| `AskChange`, `CheckChange`, `CommitChange` | `update_member_role_endpoint`: the caller's role is read before the wait for the exclusive lock |
| `AskRemove`, `CheckRemove`, `CommitRemove`; `RemoveAndCancel` | `remove_member_endpoint`, with the transfer of what was owned and the end of delegations |
| `AskInvite`, `CheckInvite`, `CommitInvite`, `CheckAccept`, `CommitAccept`, `RejectInvitation`, `RevokeInvitation` | `invitations.py`, `accounts.accept_invitation_endpoint` |
| `CheckCreate`, `CheckTransfer`, `CommitOwner`; `OwnAndShow` | create endpoints, `create_ownership_transfer_endpoint` |
| `CheckPropose`, `CommitPropose`, `CheckAcceptDelegation`, `CommitAcceptDelegation`, `CheckEnd`, `CommitReject`, `CommitEnd`, `Expire` | `delegations.py`; expiry happens when the delegation is next looked at |
| `CreateGrant`, `RevokeGrant`, `RevokeEvidence` | `authz_grants.py` |
| `ExpireGrant` | `expires_at` in `authz._active_grant_exists`: waits for no lock, and marks the proposals under way it was read for (`lapsed`) |
| `Abandon`, `Refuse` | a check that fails, a timeout, an error |

`Authorize` is `authz.authorize` with its three outcomes: yes, no, and the exception
of finding 3. A resource starts private; `Assignable` bounds the roles that requests
name. Whose email an invitation is for is its account. Sessions, logins and what a
workspace is besides its members are left out.

What makes it correct: a workspace keeps an owner; nothing is owned by someone removed;
one open invitation per address; an open delegation has two members for parties and
only an accepted one grants; an end is final; what is delegated is delegated by someone
who may write it when the delegation commits, or might when the request checked and lost it
only by a grant that expired since.

## 7. ConnectorSync, GmailConsent and EntityOperations

### ConnectorSync

A provider that lists its items latest update first, one to a page; items are created,
updated and deleted while walks go through the pages. A sync run has the three phases of
`_run_connector_sync`: begin under the account's row lock (`BeginFirst`,
`BeginAfterReaping`: a stale run is reaped, whatever became of its process), the walk
(`FetchPage`, `Upsert`, and its ends `WalkEnds`, `PageBudgetSpent`, `RateLimited`,
`WalkFails`: `walk_paginated_resource` and the adapters), the outcome (`RecordOutcome`,
which records nothing if the run was reaped, `SkipOutcome`). `ProcessDies`, `Disable` and
`Reconnect` come at any time. `PartialCursor`, `NextCursor` and `ResumeCursor` are what a
finished walk hands to phase 3.

`Covered` says what the watermark and the resume cursor promise together: what is not
newer than the one and not on a page from the other on is synchronised as it is. The
exceptions are steps of the model: `exposed` collects the items that the code may pass
over, and each is added by the step that loses it, until its next update:

- one that changes in the very second up to which the watermark stands, or the running walk
  may move it, since `updated_at` has no finer grain and the filter is strict (`Update`);
- one that a walk has left behind and that changed since, in the same second as an item the
  walk comes to later (`PassedOver` in `FetchPage`; section 10);
- one that a deletion moves to a page already fetched (`Delete`);
- one whose newer row a reaped run overwrites with what it had fetched before (`Upsert`).

The listing is the function `onPage`, the page that shows each item; its pages are dense
and latest first, which is proved of `Update` and `Delete` and not assumed (`Provider`).

### GmailConsent

The mailboxes of one Google account: its row in each of several workspaces, each with
the member who owns it. `consent` is the email domain with its consent row, `connector`
and `credential` are the `connector_accounts` row, `mail` is what is kept (message, body,
evidence, and what the model made of it), `sync` is a sync with the write it makes next,
`minted` and `accepted` are Google's side, `call` is what a request that has committed
still has to tell Google.

| actions | code |
|---|---|
| `Exchange`, `Enrol`, `GiveUpEnrolment` | `gmail_oauth_callback_endpoint`: the code exchange, the transaction, the refusals |
| `CheckSafe`, `Revoke`, `LeaveGrant` | `revoke_if_safe`: `revoke_is_safe` in its own session, then the call to Google; a check or call that fails |
| `Enable`, `Withdraw`, `DisableConnector`, `RemoveMember` | `_enable_domain`; `_disable_domain` and `delete_domain_endpoint` with `cascade_email_revocation`; `disable_connector_endpoint`; `_disconnect_personal_connectors` |
| `StartSync`, `LockForWrite`, `CommitMessage`, `CommitBody`, `CommitEvidence`, `CommitInsight`, `AbandonSync`, `SyncFails` | `_sync_messages`, `require_email_consent_locked`, `_process_message`, `fetch_and_store_body`, `_detect_action_for_message` |
| `ForgetThread` | `forget_thread_endpoint` |

The scope of a revocation is the default, `global`: Google ends every credential of the
account, so a call is skipped while another row is in use. Check and call are not atomic,
which the code accepts; `SpareConnected` says that this is the only way a row in use
loses its grant. What a call does to rows that came into use after its check is counted
in `harm`, with lost calls, and bounds what `GrantsEnd` speaks of. A member's two Google
accounts, Google's refresh of a token, and messages one by one are not distinguished: a
mailbox stands for one message of it. What evidence a purge leaves (commitments, claims and
aliases rest on it, or the message id is also another owner's) is any choice; evidence without
its message is found by no purge.

### EntityOperations

| actions | code |
|---|---|
| `CheckMerge`, `CommitMerge` | `merge_entities`, with the aliases, `_rehome_edges` and the record of what was moved |
| `CheckReverse`, `CommitReverse` | `reverse_operation` with `_has_post_merge_dependent_activity` and `_rehomed_state_still_matches` |
| `CheckSplit`, `CommitSplit` | `split_operation` |
| `CreateRelationship`, `InvalidateRelationship` | `relationships.py`, `relationships_mutations.py` |
| `GiveUpCuration` | an error, a timeout |

The rows of both entities are locked from check to commit, the relationships a merge
reads are not. All relationships are of one type, every pair of entities may be merged;
claims about an entity are left out, a later one is one more reason to refuse a reversal.
Events and merges are dated when their requests arrive, before the locks, so what a
relationship's event is dated after is a choice among the merges made (`Dates`).
`NothingLost` and `AliasesSurvive` say what chains of merges, reversals and splits, in any
order, leave behind.

## 8. Runs, bounds and fairness

| run | instance | states | what it shows |
|---|---|---|---|
| `core` | 2 workers, 1 run, graph of 3 (compensable, high-impact, compensation), 1 retry, 1 crash | 1,463,384 | types, leases, at most one call per attempt, ambiguity, final statuses, kill switches |
| `gate` | graph of 5, the three approval modes, no retry, 1 crash | 1,505,832 | authority, compensation, truthful outcomes |
| `live` | as `core`, `LiveSpec` | 236,424 | a run settles, a compensation ends |
| `schedule` | 2 replicas, trigger `t2` (skips missed windows) due at 1 and 2, horizon 3, skew 1, 1 fault, 1 change, `LiveSpec` | 136,098 | catch-up once, and every occurrence is resolved |
| `start` | 1 replica and 1 request, trigger `t1`, 2 versions, 4 changes, 1 fault | 1,301,054 | authority at the commit, removal |
| `writes` | 1 caller and key, a plain request, 2 insights, a meeting pack and a model run, 1 removal, 1 fault, expiry | 157,472 | effects, answers and roles; every wait ends |
| `collaboration` | members: 2 accounts, 1 resource, 2 invitations, 2 member requests, 1 other request, 1 delegation; mail: 2 mailboxes, 2 callers, 2 credentials, 1 harm | 598,930 | owners, invitations, delegations; consent and grants |
| `records` | sync: 3 items, 2 runs, 2 pages a call, 2 seconds, 1 trouble; entities: 3 entities, 2 relationships, 1 alias, 2 merges, 1 curator | 1,686,347 | what walks and merges keep |
| `killed_requeue`, `inbox`, `lost_grant`, `self_relation` | small | - | section 10 |

Why these are enough.

Automation: two workers are what a displacement needs, an owner and a displaced one;
leases may lapse without bound, so each may be displaced repeatedly. The engine's actions
read and write one run, except for the scope of a switch or a policy, so one run with a
switch for its family and one for everything meets every interaction. One crash strands a
run at every control point; after it the recovering worker has the same choices as after
two. The graph of 3 has one step of each kind; the graph of 5 is the smallest in which two
steps succeed before a third fails, so that the order of undoing can be wrong. `MaxRetry`
is 1 where the code has 3: the first retry is the case, the later ones repeat it. A
replica can only lose an occurrence to another one, so two; an interval with no
occurrence, one and two of them exists within horizon 3; four changes allow a removal
after a demotion, two publishes inside one wait and a removal, or grants that lapse
under a fire and a request at once. The pool of three run
ids never binds.

Writes: two requests of one key meet in every pair of shapes that differ, and two insights
meet each other, the one shape whose waits take part in a cycle; a second removal would
queue behind the first. Locks of different callers and keys do not meet (the theorems
hold for any number of them).

Collaboration: two owners demote or remove each other, two requests race for one
invitation or resource, an accept meets a removal, a transfer or a reject. Two grants of one
account need one explicit and one delegated one. Two mailboxes are a row and another in
use; two callers a revocation that is late and whatever overtakes it; two credentials a
first one and its replacement. With three credentials TLC finds nothing
in the first 7.6 million states, and more was not searched.
`FewInvited` lets one invitation at a time be under way once something is delegated; without
it (927,806 states) nothing changes either.

Records: a walk cut short, a second that resumes it, and an item that moves between them need
three items; two pages a call are two fetches in one walk with changes between them (with one
page a call `Covered` holds without `PassedOver`); two runs are one reaped and its
successor. One trouble is a deletion, a reaped run, a dead process or a disconnection.
`FewItems` keeps a third item to the first second and an active account, and not with both a
trouble and an exposed item (the losses need two); `FewRelated` creates the
second relationship before the first merge and lets a user invalidate one. Two merges are a
chain or a repetition, of three entities; two requests on three entities always ask for one in
common, so a second curator would only wait (the proofs have any number of both).

Workers, accounts, invitations, requests, items, runs, entities and relationships are
interchangeable (symmetry, never in a run with a liveness property).

Fairness. `scripts/run_automation_worker.py` polls without end, so each worker's and each
replica's enabled step is taken (weak fairness of `WorkerStep` and `SchedulerStep`), and
some worker claims what stays claimable. Weak fairness of `BackoffElapses` and
`LeaseLapses` says time passes. Between two steps the code renews a 30-second lease and does
no slow work, only an adapter call may outlive it: under `LiveSpec` a lease lapses during a
call, or after its owner has gone (`SlowOnlyInAdapter`), else two workers could displace each
other for ever. An adapter call is assumed to return. No fairness is given to operators, to
crashes or to the scheduler's clock: `OccurrenceResolved` speaks of occurrences already past.
`RunSettles` excepts a killed workflow, `CompensationEnds` a crash: the code documents that a
worker's death during compensation strands the run, and `_CLAIMABLE_PREDICATE` takes no
`compensating` run. In `writes`, weak fairness of `WriteProgress` says only that as long as
some request or removal can go on, one of them does: a granted lock, a returned model call
or an elapsed `lock_timeout` is acted on. That a request is made, or fails, is not promised.

Every property of a passing run has a mutant, a plausible bug in a mapped definition (an
operator defined before it, commented as a mutant), under which the run's own configuration
must find it violated.

`CHECK_DEADLOCK` is off in `writes`, `collaboration`, `records`, `lost_grant` and
`self_relation`: there each request, credential, merge or second is used once, and a state in
which all are spent is an end. It stays on in the automation runs, where operators and time
keep every instance moving, or stuttering steps such as an idempotent cancel do.

## 9. Proofs

All for any values of the constants - any number of workers, runs, steps, replicas, requests,
keys, members, resources, delegations, mailboxes, items, pages, entities, merges - from the named assumptions on the constants
only: `GraphAssumption` and `ConstantAssumption` (`AutomationRun`), `FamilyAssumption`
(`AutomationSchedule`), `WriteAssumption`, `MembershipAssumption`, `DelegationAssumption`,
`GmailAssumption`, `SyncAssumption`, `EntityAssumption`, and `Schedule` (`CatchUpOnceProofs`, a hypothesis of its theorem, discharged
from `FamilyAssumption` where it is used). They say what kind of value a constant is, that a
null is no member of the set it is added to, and, for the graph, what
`validate_graph_shape` enforces.

| module | theorem | argument |
|---|---|---|
| `AutomationRunProofs` | `TypeCorrect` | `TypeOK` is inductive with `ControlShape` in it: where a worker stands determines what kind of step it stands at |
| | `LeaseShapeHolds` | inductive given `TypeOK`; a verdict a worker carries to `Settle` is never lease-bearing |
| | `TerminalFinal` | a guarded write needs a lease, `LeaseShape` says a terminal run has none; the unguarded ones do not touch the status |
| | `KilledNeverLeasedHolds` | only `Claim` gives a lease, and its predicate reads the switches |
| | `EffectsAccounted` | the strengthening `EffectInv`: `RowInv` bounds the calls made by the status of the row and the attempts, `FlightInv` says who may be in flight on a `dispatched` or `unknown` row and that it is alone. Needed because at-most-once is not inductive: a displaced worker has to be known to be inside its call for its record not to be counted twice |
| | `SoleExecutorHolds`, `AtMostOncePerAttemptHolds` | from `EffectInv` |
| | `OutcomeHolds` and, from it, `EffectsAuthorizedHolds`, `CompensationSoundHolds`, `CompensationDescendsHolds`, `OutcomeTruthfulHolds` | the strengthening `OutcomeInv`: `RowsInv` (a step has a row only when all before it succeeded; what may be dispatched again was cleared by the gate; a request is open only for a step nobody dispatched), `Place` (what a worker at each control point may rely on although others move the tables meanwhile: a compensating worker's list holds every step not yet tried), `CallInv` (a row in a call is `dispatched` or `unknown`) and `OwnerInv` (nobody but the worker that began it drives a compensating run). `TableMove` says what any step may do to a run's rows and status; what it leaves true (`Onward`) is shown once and used for every worker that stands still |
| | `UnknownNotRetriedHolds` | a row that is `unknown` is written only from inside the call whose row it is; a rejection writes the row of a step that has none, by `RowsInv` |
| `AutomationScheduleProofs` | `TypeCorrect` | `ControlShape`: an open transaction has a member, a fire a trigger |
| | `StartedWithAuthorityHolds` | `AuthorityInv`: what a transaction authorized stays so until it commits, because whoever could change it waits for one of its locks; the lapse of a grant waits for none and is recorded in `lapsed`, the theorem's one exception |
| | `RemovedMemberStoppedHolds` | `StoppedInv`, with `AuthorityInv` for the insert: no transaction is open when a member is removed |
| | `CatchesUpOnceHolds` | `AnchorInv`: the anchor a compare-and-swap has found is unmoved, due and no misfire until the commit, and no other transaction has that trigger. Every step then maps to one `Resolve` or to a stutter |
| | `OncePerOccurrenceHolds` | the refinement, with `OnceHolds` of the abstract specification |
| `CatchUpOnceProofs` | `OnceHolds` | the intervals a trigger's runs resolve lie below its anchor and never overlap |
| `WriteProtocolProofs` | `WriteTyped`, `EffectsUnique`, `EffectsLookedUp`, `EffectsAuthorizedUnderLock` | `WriteInv`: a slot's lock has one holder (`OneHolder`), so a lookup that found nothing stays true until the store (`LookedUp`); a plain request under the shared lock keeps its role (`Sharers`); what took effect has ended or is about to store (`Performed`) |
| `MembershipProofs` | `MembershipSafe` | `MemberInv`: who holds the exclusive lock holds it alone, and what a request has read under a lock is still so; with it the last owner stays and an owner cannot be removed from under a resource |
| `DelegationProofs` | `CollaborationSafe` and, from it, `CollaborationTyped`, `WorkspaceKeepsOwner`, `ResourcesHaveMembers`, `InvitationsUnique`, `DelegationsBetweenMembers`, `EndsAreFinal`, `DelegationsAuthorized` | `SharingInv` beside `MemberInv`: an act under way holds the shared lock, and its checks (parties active, rows writable) still hold at its commit, but for a proposal's right to write, which a grant that expired may have taken (`lapsed`). `MembershipProofs` shows each of its actions to keep `MemberInv` from what a step of the composition leaves alone, so nothing is proved twice |
| `GmailConsentProofs` | `GmailSafe` and, from it, `GmailTyped`, `ConsentHolds`, `GrantsEndHolds`, `RevocationsSpare` | `GmailInv`: a write transaction holds the rows that let it write (`HeldRows`); a cleared revocation saw no row but the one it excepts (`Cleared`); while nothing went wrong, rows in use and enrolments hold accepted credentials (`Kept`), and a grant without a row in use has a call coming with an accepted credential (`Owing`). `GrantsEnd` alone is not inductive: a skipped call is safe only because the row it was skipped for will make its own |
| `RecordsProofs` | `CoveredHolds`, `BackfillOnlyAdvances` | `SyncInv`: the pages are dense, hold an item each and are in the order of updates (`Provider`); the run that may record its outcome started from the cursors that stand, whoever was reaped before it (`Attached`); all it has left behind, up to the watermark it would leave, is in the rows or in its hands (`Gathered`); and what changed while in its hands is newer than that watermark (`Outdated`). `Covered` alone is not inductive: what a walk records is true of items it fetched many steps ago |
| | `NothingIsLost`, `AliasesOutliveMerges` | `EntityInv`: what a request in flight holds exists (`RequestsHold`, `Placed`); the entities of a merge between its check and its commit are not redirected, and are no other merge's (`MergesApart`, from the row locks) |
| | `RecordsTyped` | from both; a step of the composition is a step of one component and none of the other (`Composition`), so the theorems hold of what `records` checks too |

Every invariant and every action property of the passing runs is proved. Two of the invariants
the proofs rest on were checked by TLC on the run's instance first. Writing them corrected the
model twice: `SyncAssumption` allowed a clock without a second, in which the initial state has
no type, and the walk passed over an item in a way `exposed` did not name (section 10).

Only model-checked: the liveness properties (`RunSettles`, `CompensationEnds`,
`OccurrenceResolved`, `RequestsEnd`), because weak fairness needs `ENABLED`, which the prover
does not treat; and the findings of section 10, which are counterexamples of TLC.

## 10. Findings

Places where a document, or a comment, says more than the code does. The first four are
runs that must find their property violated.

1. `killed_requeue`. A worker inside an adapter call when a switch is thrown does not park
   the run if the call fails transiently: the retry branch (`worker.py:2634`) re-queues it,
   and deactivation resumes it. The recovery runbook says no run is left in such a state;
   `kill_switches.py` says the worker parks it.
2. `inbox`. The approval request is committed before the run is parked for it. A decision
   in between finds the run `running` and changes nothing, and the run then waits with
   nothing in the inbox.
3. `lost_grant`. `_active_grant_exists` asks for at most one row, and `authorize` fails with an
   exception where a member has an explicit grant and one from a delegation on the same
   resource. The comment below it says that grants may coexist.
4. `self_relation`. A split moves a relationship to the entity at its other end, after a merge
   was reversed and made again through a third entity. The data model forbids it and
   `create_relationship` refuses it.

Found with the models or while writing them, and without a run of their own:

- A cancellation committed after the renewal that reads the flag and before the dispatch does
  not stop that step; the execution contract guarantees it never dispatches (`worker.py:3373`).
- Access that rests on a grant is checked and not kept. `expires_at` (`authz.py:546`) waits for
  no lock, and the end of a delegation revokes its grants under the shared membership lock
  (`delegations.py:671`), without the row that every other loss of access locks. A run starts,
  or an obligation is delegated, by someone whose grant ended between check and commit; the two
  properties except exactly that.
- `enqueue_run` counts the runs of the hour and inserts under shared locks only, so concurrent
  starts each pass the limit; a start that has read the switches commits behind an activation
  that has parked the queued runs it could see.
- `update_member_role_endpoint` and `remove_member_endpoint` read their caller's role before
  they wait for the exclusive lock (`membership_removal.py:595`, `:691`) and not after it: an
  administrator demoted meanwhile still removes. An invitation is created for someone who
  became a member between its check and its lock.
- `merge_entities` fails with `MultipleResultsFound` where the target already has two equal
  relationships (`entity_operations.py:202`), which two relationships redirected by earlier
  merges and their reversal can be. Two merges of overlapping neighbourhoods at once write the
  ends they read: relationship rows are not locked.
- A walk of several pages can pass over a change. `walk_paginated_resource` says that pages
  beyond the first "can, by construction (...), only contain items at or older than what page 1
  of *that same walk's first call* already established as the true newest"
  (`paginated_resume_walk.py:143`). Two items updated during the walk, in one second, push each
  other to the page asked for next: the walk sees the one, takes its second for the newest and
  moves the watermark there, and the other, on a page it has left, is never newer than that.
- Mail. A detection that outlives a withdrawal, a new consent and a reconnection registers
  evidence for a message that is gone, and no later purge finds it (the cascade finds evidence
  through messages): hence the exception in `MailUnderConsent`. A withdrawal *and* a new grant
  within one model call do not stop what the call leads to, although the message is gone; the
  comment at the write guard says a withdrawal that committed during it must stop both. A row
  disconnected and reconnected before its own delayed revocation loses the new grant, because
  the check excepts the row itself: hence the exception in `SpareConnected`. An enrolment that
  finds an `active` row gives the fresh credential up as a duplicate, also when the row's own
  was ended at Google. A body that was forgotten is fetched again by the next sync.

Hazards the models contain without a property that fails: the cursor is written without an
ownership guard, so a displaced worker moves it and dispatches, alone, the next step of a run
someone else leases (the execution contract says every run-state write is guarded); a death
during compensation strands the run (the runbook discloses it); a cancel flag on a run that is
then parked is acted on only by another cancel; a fire that misses the active version twice
spends its occurrence.

## 11. Not modelled

In the automation domain: the sum behind `value_limit`; the rule that an approver differs from
the run's starter; who may see what; drafts and the checks made at publication; creation of
triggers (the family's are fixed) and policies; event triggers (never fired by this code); what
adapters do outside; audit rows, outbox, notifications, metrics and digests.

Of the AI runtime: the circuit breaker (per process, in memory; no document says what a late
answer or a second caller in `half_open` should do), evaluation, prompts and tools.
`cancel_run` meets no running run: a run's row is inserted with its terminal status.

Of the connectors: Jira's token cursor, OAuth refresh, rate-limit pauses (they delay a page),
parsing. Of the personal domain: records of the other domains, export, habits, the entities
made from addresses. Of knowledge: notes, claims, retrieval, candidates for a merge. Waiting
links: one cycle check under an advisory lock, whose interesting case, a chain longer than the
depth cap of 63, is out of TLC's reach and needs recursion over data to prove.

Governance, planning, communication, scheduling, calendar, attention apart from meeting packs,
notifications, the dashboard: versioned rows, each edit one `UPDATE` guarded by its version,
behind the protocol of section 5; a model of one would restate its guard. The application
shell, frontend, migrations and scripts hold no state that outlives a request but what the
modules above have. `PROJECT.json` names the reason for each component.
