---------------------------- MODULE ConnectorSync ----------------------------
(***************************************************************************)
(* Synchronising one resource type of one connector account: the three     *)
(* phases of a sync run (engineering/connector_accounts.py), the walk over *)
(* the provider's pages (engineering/paginated_resume_walk.py, with page   *)
(* numbers as cursors, as GitHub and GitLab have them) and the rows it     *)
(* writes (engineering/repository_sync.py), while the provider's items     *)
(* change, the account is disabled and reconnected, runs are reaped as     *)
(* stale and processes die.                                                *)
(*                                                                         *)
(* A page holds one item; the provider lists the latest update first.      *)
(***************************************************************************)
EXTENDS Naturals

CONSTANTS
  Item,
  SyncRun,     \* places for the processes that run a sync
  MaxPages,    \* pages a call fetches at most
  MaxClock,    \* bound: seconds the provider's clock shows
  MaxTrouble,  \* bound: deletions, runs reaped, processes that die, disconnections
  NoRun, Lost  \* no sync_runs row is running; one is, of a process that died

ASSUME SyncAssumption ==
  /\ MaxPages \in Nat \ {0}
  /\ MaxClock \in Nat \ {0}
  /\ MaxTrouble \in Nat
  /\ NoRun \notin SyncRun
  /\ Lost \notin SyncRun \cup {NoRun}

VARIABLES
  onPage,     \* the page of the provider's listing that shows each item, 0 if none
  updatedAt,  \* when each was updated, 0 if it does not exist
  clock,
  synced,     \* the update of each item that its row shows, 0 without a row
  account,    \* connector_accounts.status
  watermark,  \* sync_cursors.cursor_value, 0 for NULL
  resumeAt,   \* sync_cursors.backfill_resume_cursor, 0 for NULL
  running,    \* whose sync_runs row is 'running'
  walk,       \* what each process has read and fetched
  exposed,    \* history: items whose latest update a walk may pass over
  troubles

syncVars == <<onPage, updatedAt, clock, synced, account, watermark, resumeAt, running, walk, exposed, troubles>>
providerVars == <<onPage, updatedAt, clock>>

Time == 0 .. MaxClock
NoWalk == [phase |-> "none"]
NothingFetched == [item |-> "nothing"]
Walk == [phase : {"walking", "partial", "succeeded", "failed"}, backfill : BOOLEAN,
         since : Time, resumed : BOOLEAN, page : Nat, pages : 0 .. MaxPages,
         more : BOOLEAN, newest : Time,
         fetched : [item : Item, at : Time] \cup {NothingFetched}]

SyncTypeOK ==
  /\ onPage \in [Item -> Nat]
  /\ updatedAt \in [Item -> Time]
  /\ clock \in Time
  /\ synced \in [Item -> Time]
  /\ account \in {"active", "error", "disconnected"}
  /\ watermark \in Time
  /\ resumeAt \in Nat
  /\ running \in SyncRun \cup {NoRun, Lost}
  /\ walk \in [SyncRun -> Walk \cup {NoWalk}]
  /\ exposed \subseteq Item
  /\ troubles \in 0 .. MaxTrouble

\* The account is connected, and nothing synchronised yet.
SyncInit ==
  /\ onPage = [i \in Item |-> 0]
  /\ updatedAt = [i \in Item |-> 0]
  /\ clock = 1
  /\ synced = [i \in Item |-> 0]
  /\ account = "active"
  /\ watermark = 0
  /\ resumeAt = 0
  /\ running = NoRun
  /\ walk = [p \in SyncRun |-> NoWalk]
  /\ exposed = {}
  /\ troubles = 0

-----------------------------------------------------------------------------
Later(a, b) == IF a > b THEN a ELSE b
Listed(i) == onPage[i] # 0
Walking(p) == walk[p].phase = "walking"
Finished(p) == walk[p].phase \in {"partial", "succeeded", "failed"}

\* The walk, if any, whose outcome will be recorded.
Recording == {p \in SyncRun : running = p}

\* The pages it or a later backfill will ask for next.
PagesAhead == {resumeAt} \cup {walk[p].page : p \in Recording}

\* The watermarks that stand or that it may save.
Approached == {watermark} \cup {walk[p].newest : p \in {q \in Recording : ~walk[q].resumed}}

Trouble == troubles < MaxTrouble /\ troubles' = troubles + 1

Tick ==
  /\ clock < MaxClock
  /\ clock' = clock + 1
  /\ UNCHANGED <<onPage, updatedAt, synced, account, watermark, resumeAt, running, walk, exposed, troubles>>

\* Created or updated, an item moves to the front.  One that changes in a
\* second that a walk has seen meets the watermark and is taken for known.
Update(i) ==
  /\ updatedAt' = [updatedAt EXCEPT ![i] = clock]
  /\ onPage' = [j \in Item |->
       IF j = i THEN 1
       ELSE IF Listed(j) /\ (Listed(i) => onPage[j] < onPage[i]) THEN onPage[j] + 1 ELSE onPage[j]]
  /\ exposed' = IF \E t \in Approached : clock <= t THEN exposed \cup {i} ELSE exposed \ {i}
  /\ UNCHANGED <<clock, synced, account, watermark, resumeAt, running, walk, troubles>>

\* The items behind a deleted one move up a page: one may leave the page a
\* walk asks for next for the one it has seen.
Delete(i) ==
  /\ Listed(i)
  /\ Trouble
  /\ updatedAt' = [updatedAt EXCEPT ![i] = 0]
  /\ onPage' = [j \in Item |->
       IF j = i THEN 0 ELSE IF onPage[j] > onPage[i] THEN onPage[j] - 1 ELSE onPage[j]]
  /\ exposed' = exposed \cup {j \in Item : onPage[j] > onPage[i] /\ onPage[j] \in PagesAhead}
  /\ UNCHANGED <<clock, synced, account, watermark, resumeAt, running, walk>>

-----------------------------------------------------------------------------
\* Mutant: a resumed call starts over, and reports what a resumed call does.
StartCursorFirst(backfill) == 1

StartCursor(backfill) == IF backfill /\ resumeAt # 0 THEN resumeAt ELSE 1

\* Phase 1, under the account's row lock.  A running row older than the
\* threshold is reaped, whatever became of its process.
Begin(p, backfill) ==
  /\ walk[p] = NoWalk
  /\ account # "disconnected"
  /\ running' = p
  /\ walk' = [walk EXCEPT ![p] =
       [phase |-> "walking", backfill |-> backfill,
        since |-> IF backfill THEN 0 ELSE watermark,
        resumed |-> backfill /\ resumeAt # 0,
        page |-> StartCursor(backfill), pages |-> 0, more |-> TRUE, newest |-> IF backfill THEN 0 ELSE watermark,
        fetched |-> NothingFetched]]
  /\ UNCHANGED <<providerVars, synced, account, watermark, resumeAt, exposed>>
BeginFirst(p, backfill) == running = NoRun /\ Begin(p, backfill) /\ UNCHANGED troubles
BeginAfterReaping(p, backfill) ==
  /\ running # NoRun
  /\ Begin(p, backfill)
  /\ IF running = Lost THEN UNCHANGED troubles ELSE Trouble

WalkOn(p, change) ==
  /\ walk' = [walk EXCEPT ![p] = change]
  /\ UNCHANGED <<providerVars, account, watermark, resumeAt, running, troubles>>
Conclude(p, phase) ==
  /\ WalkOn(p, [walk[p] EXCEPT !.phase = phase])
  /\ UNCHANGED <<synced, exposed>>

MayFetch(p) == Walking(p) /\ walk[p].fetched = NothingFetched /\ walk[p].pages < MaxPages /\ walk[p].more
Shows(p, i) == onPage[i] = walk[p].page
Known(p, i) == ~walk[p].backfill /\ walk[p].since # 0 /\ updatedAt[i] <= walk[p].since

\* Seeing an update, the walk may pass over an item it has left behind that
\* was updated since, in the same second as the one it sees.
PassedOver(p, i) ==
  {j \in Item : /\ p \in Recording /\ ~walk[p].resumed
               /\ Listed(j) /\ onPage[j] < walk[p].page
               /\ walk[p].newest < updatedAt[j] /\ updatedAt[j] <= updatedAt[i]}
FetchPage(p) ==
  /\ MayFetch(p)
  /\ \E i \in Item :
       /\ Shows(p, i)
       /\ ~Known(p, i)
       /\ WalkOn(p, [walk[p] EXCEPT !.page = @ + 1, !.pages = @ + 1,
                       !.more = \E j \in Item : onPage[j] > walk[p].page,
                       !.newest = Later(@, updatedAt[i]), !.fetched = [item |-> i, at |-> updatedAt[i]]])
       /\ exposed' = exposed \cup PassedOver(p, i)
  /\ UNCHANGED synced
\* The upsert takes what was fetched, whatever the row holds by now.
Upsert(p) ==
  /\ Walking(p)
  /\ walk[p].fetched # NothingFetched
  /\ LET f == walk[p].fetched
     IN /\ synced' = [synced EXCEPT ![f.item] = f.at]
        /\ exposed' = IF running # p /\ synced[f.item] > f.at THEN exposed \cup {f.item} ELSE exposed
  /\ WalkOn(p, [walk[p] EXCEPT !.fetched = NothingFetched])

\* No page, no next page, or (incremental) an item that is known.
WalkEnds(p) ==
  /\ Walking(p)
  /\ walk[p].fetched = NothingFetched
  /\ \/ ~walk[p].more
     \/ MayFetch(p) /\ \A i \in Item : Shows(p, i) => Known(p, i)
  /\ Conclude(p, "succeeded")
PageBudgetSpent(p) ==
  /\ Walking(p)
  /\ walk[p].fetched = NothingFetched
  /\ walk[p].pages = MaxPages
  /\ walk[p].more
  /\ Conclude(p, "partial")
RateLimited(p) == MayFetch(p) /\ Conclude(p, "partial")
\* Another response than 200, or a failure to write.
WalkFails(p) == Walking(p) /\ Conclude(p, "failed")

-----------------------------------------------------------------------------
\* Mutant: a partial walk moves the watermark to the newest item it saw.
PartialCursorNewest(p) == walk[p].newest

\* SyncOutcome.next_cursor and .backfill_resume_cursor, 0 for None.
PartialCursor(p) ==
  IF walk[p].backfill THEN (IF walk[p].resumed THEN 0 ELSE walk[p].newest) ELSE walk[p].since
NextCursor(p) ==
  CASE walk[p].phase = "partial" -> PartialCursor(p)
    [] walk[p].phase = "succeeded" -> IF walk[p].resumed THEN 0 ELSE walk[p].newest
ResumeCursor(p) ==
  IF walk[p].phase = "succeeded" \/ (~walk[p].resumed /\ walk[p].page = 1) THEN 0 ELSE walk[p].page

WonTheRace(p) == running = p
Close(p) ==
  /\ running' = IF running = p THEN NoRun ELSE running
  /\ walk' = [walk EXCEPT ![p] = NoWalk]
  /\ UNCHANGED <<providerVars, synced, exposed, troubles>>

\* Phase 3: a run that was reaped meanwhile records nothing.
RecordOutcome(p) ==
  /\ Finished(p)
  /\ IF ~WonTheRace(p)
     THEN UNCHANGED <<account, watermark, resumeAt>>
     ELSE /\ account' = IF account = "disconnected" THEN account
                        ELSE IF walk[p].phase = "failed" THEN "error" ELSE "active"
          /\ IF walk[p].phase = "failed"
             THEN UNCHANGED <<watermark, resumeAt>>
             ELSE /\ watermark' = IF NextCursor(p) # 0 THEN NextCursor(p) ELSE watermark
                  /\ resumeAt' = IF walk[p].backfill THEN ResumeCursor(p) ELSE resumeAt
  /\ Close(p)
\* The member who asked, or the account's owner, was removed meanwhile.
SkipOutcome(p) == Finished(p) /\ Close(p) /\ UNCHANGED <<account, watermark, resumeAt>>

ProcessDies(p) ==
  /\ Trouble
  /\ walk[p] # NoWalk
  /\ walk' = [walk EXCEPT ![p] = NoWalk]
  /\ running' = IF running = p THEN Lost ELSE running
  /\ UNCHANGED <<providerVars, synced, account, watermark, resumeAt, exposed>>

\* disable_connector_account_endpoint; create_connector_account_endpoint for
\* an account that is known, which keeps its cursors.
Disable ==
  /\ account # "disconnected"
  /\ Trouble
  /\ account' = "disconnected"
  /\ UNCHANGED <<providerVars, synced, watermark, resumeAt, running, walk, exposed>>
\* Mutant: a status the table does not know.
ReconnectRenamed ==
  /\ account = "disconnected"
  /\ account' = "connected"
  /\ UNCHANGED <<providerVars, synced, watermark, resumeAt, running, walk, exposed, troubles>>

Reconnect ==
  /\ account = "disconnected"
  /\ account' = "active"
  /\ UNCHANGED <<providerVars, synced, watermark, resumeAt, running, walk, exposed, troubles>>

-----------------------------------------------------------------------------
SyncNext ==
  \/ Tick
  \/ \E i \in Item : Update(i) \/ Delete(i)
  \/ \E p \in SyncRun :
       \/ \E backfill \in BOOLEAN : BeginFirst(p, backfill) \/ BeginAfterReaping(p, backfill)
       \/ FetchPage(p) \/ Upsert(p) \/ WalkEnds(p) \/ PageBudgetSpent(p)
       \/ RateLimited(p) \/ WalkFails(p)
       \/ RecordOutcome(p) \/ SkipOutcome(p) \/ ProcessDies(p)
  \/ Disable \/ Reconnect

SyncSpec == SyncInit /\ [][SyncNext]_syncVars

-----------------------------------------------------------------------------
(* What is not newer than the watermark and not on a page of a pending     *)
(* backfill is synchronised as it is: a run cut short, failed, reaped or   *)
(* killed at any step, a change during a walk or between two calls loses   *)
(* nothing but the items in `exposed`.                                     *)
Covered ==
  \A i \in Item \ exposed :
    /\ Listed(i)
    /\ updatedAt[i] <= watermark
    /\ resumeAt = 0 \/ onPage[i] < resumeAt
    => synced[i] = updatedAt[i]

(* A pending backfill does not go back: a call resumes where the last one  *)
(* left, and the late outcome of a reaped run does not undo what its       *)
(* successors recorded.                                                    *)
BackfillAdvances ==
  [][resumeAt # 0 /\ resumeAt' # 0 => resumeAt' >= resumeAt]_syncVars
=============================================================================
