--------------------------- MODULE WriteProtocol ---------------------------
(***************************************************************************)
(* How a mutating request carrying an Idempotency-Key is carried out, and  *)
(* what it waits for: the workspace's membership advisory lock             *)
(* (platform/connector_security.py), the idempotency advisory lock and     *)
(* record of its caller and key (platform/idempotency.py), and the role    *)
(* check under them (platform/authz.py), while members are removed or      *)
(* demoted (identity/membership_removal.py).                               *)
(*                                                                         *)
(* A "plain" request is one transaction: membership lock shared, key lock, *)
(* look up, write, store the answer.  The others keep the key lock on a    *)
(* connection of its own around several transactions and a model call:     *)
(* "insight" (personal/ai_insights.py) takes the membership lock in three  *)
(* of them and stores its answer in a fourth, "prep" (attention/           *)
(* meeting_prep.py) takes it only in the one that writes and stores, and   *)
(* "run" (ai_runtime/runtime.py create_run) never takes it.                *)
(***************************************************************************)
EXTENDS Integers

CONSTANTS
  Request, Removal,  \* requests, and removals or demotions, each made once
  Caller, Key,       \* members of the workspace, Idempotency-Key values
  By, KeyOf, Body,   \* of each request: caller, key, hash of the payload
  Kind,              \* of each request: which of the four shapes it has
  Target,            \* of each removal: the member it takes the role from
  MaxWriteFault,     \* bound: errors and process deaths
  NoAnswer

WriteProcess == Request \cup Removal
Slot == Caller \X Key
SlotOf(r) == <<By[r], KeyOf[r]>>

ASSUME WriteAssumption ==
  /\ By \in [Request -> Caller]
  /\ KeyOf \in [Request -> Key]
  /\ Kind \in [Request -> {"plain", "insight", "prep", "run"}]
  /\ DOMAIN Body = Request
  /\ Target \in [Removal -> Caller]
  /\ Request \cap Removal = {}
  /\ NoAnswer \notin Request
  /\ MaxWriteFault \in Nat

VARIABLES
  allowed,    \* whether the caller's role permits the write
  record,     \* idempotency_records: whose answer a slot holds
  expired,    \* the slots whose record is past expires_at
  at,         \* where each process is
  ahead,      \* the removals queued for the membership lock before the request
  reply,      \* the request whose answer a request was given
  performed,  \* history: the requests whose effect is committed
  writeFaults

writeVars == <<allowed, record, expired, at, ahead, reply, performed, writeFaults>>

RequestEnd == {"answered", "refused", "conflict", "failed"}
MembershipWait == {"membership", "persist", "insert"}
WriteStep == {"idle", "membership", "key", "working", "model", "persist", "insert", "store"} \cup RequestEnd
RemovalStep == {"idle", "exclusive", "changed", "busy"}

WriteTypeOK ==
  /\ allowed \in [Caller -> BOOLEAN]
  /\ record \in [Slot -> Request \cup {NoAnswer}]
  /\ expired \subseteq Slot
  /\ at \in [WriteProcess -> WriteStep \cup RemovalStep]
  /\ ahead \in [Request -> SUBSET Removal]
  /\ reply \in [Request -> Request \cup {NoAnswer}]
  /\ performed \subseteq Request
  /\ writeFaults \in 0 .. MaxWriteFault

WriteInit ==
  /\ allowed = [c \in Caller |-> TRUE]
  /\ record = [k \in Slot |-> NoAnswer]
  /\ expired = {}
  /\ at = [p \in WriteProcess |-> "idle"]
  /\ ahead = [r \in Request |-> {}]
  /\ reply = [r \in Request |-> NoAnswer]
  /\ performed = {}
  /\ writeFaults = 0

-----------------------------------------------------------------------------
(* Who holds and who waits for the two locks follows from where each is.  A *)
(* request that is not plain holds the membership lock within one step.    *)
SharedHolder == {r \in Request : Kind[r] = "plain" /\ at[r] \in {"key", "working"}}
\* Mutant: the key is let go while the model is called.
SlotHolderBetweenCalls(k) ==
  {r \in Request : SlotOf(r) = k /\ Kind[r] = "plain" /\ at[r] = "working"}

SlotHolder(k) ==
  {r \in Request : /\ SlotOf(r) = k
                   /\ \/ Kind[r] = "plain" /\ at[r] = "working"
                      \/ Kind[r] # "plain" /\ at[r] \in {"membership", "model", "persist", "insert", "store"}}
Waiting == {x \in Removal : at[x] = "exclusive"}

\* A waiting exclusive request blocks the shared ones that came after it.
NotBehind(r) == ahead[r] = {}
\* Mutant: a removal does not wait for the requests in flight.
NoSharerAsked == TRUE

NoSharer == SharedHolder = {}
\* Mutant: the lock is that of the payload, not of caller and key.
KeyFreeOfPayload(r) == \A s \in SlotHolder(SlotOf(r)) : Body[s] # Body[r]

KeyFree(r) == SlotHolder(SlotOf(r)) = {}

\* p goes on to step s, leaving the queue it is in and joining that of s.
Goto(p, s) ==
  /\ at' = [at EXCEPT ![p] = s]
  /\ ahead' = [r \in Request |-> IF r # p THEN ahead[r] \ {p}
                                ELSE IF s \in MembershipWait THEN Waiting ELSE {}]

Recorded(r) == record[SlotOf(r)] # NoAnswer
Live(r) == Recorded(r) /\ SlotOf(r) \notin expired

\* Mutant: the answer given is the hash it was stored under.
ReplayHash(r) ==
  /\ Live(r)
  /\ Goto(r, "answered")
  /\ reply' = [reply EXCEPT ![r] = Body[record[SlotOf(r)]]]
  /\ UNCHANGED <<allowed, record, expired, performed, writeFaults>>

\* load_cached finds a live record: the answer stored for this payload, or a conflict.
Replay(r) ==
  /\ Live(r)
  /\ IF Body[record[SlotOf(r)]] = Body[r]
     THEN Goto(r, "answered") /\ reply' = [reply EXCEPT ![r] = record[SlotOf(r)]]
     ELSE Goto(r, "conflict") /\ UNCHANGED reply
  /\ UNCHANGED <<allowed, record, expired, performed, writeFaults>>

Proceed(r, s) == Goto(r, s) /\ UNCHANGED <<allowed, record, expired, reply, performed, writeFaults>>
Denied(r) == ~allowed[By[r]] /\ Proceed(r, "refused")

\* The write and store_idempotency commit together; a record of the slot,
\* expired or not, fails the insert on its primary key.
WriteAndStore(r) ==
  IF Recorded(r)
  THEN Proceed(r, "failed")
  ELSE /\ record' = [record EXCEPT ![SlotOf(r)] = r]
       /\ performed' = performed \cup {r}
       /\ reply' = [reply EXCEPT ![r] = r]
       /\ Goto(r, "answered")
       /\ UNCHANGED <<allowed, expired, writeFaults>>

-----------------------------------------------------------------------------
AskPlain(r) == at[r] = "idle" /\ Kind[r] = "plain" /\ Proceed(r, "membership")
AskHeld(r) == at[r] = "idle" /\ Kind[r] \in {"insight", "prep"} /\ Proceed(r, "key")
AskRun(r) ==
  /\ at[r] = "idle"
  /\ Kind[r] = "run"
  /\ Denied(r) \/ (allowed[By[r]] /\ Proceed(r, "key"))

\* lock_membership_for_write: the shared lock, then the role read under it.
LockPlain(r) ==
  /\ at[r] = "membership"
  /\ Kind[r] = "plain"
  /\ NotBehind(r)
  /\ Denied(r) \/ (allowed[By[r]] /\ Proceed(r, "key"))

\* lock_idempotency and load_cached.
LookUpPlain(r) ==
  /\ at[r] = "key"
  /\ Kind[r] = "plain"
  /\ KeyFree(r)
  /\ Replay(r) \/ (~Live(r) /\ Proceed(r, "working"))

CommitPlain(r) == at[r] = "working" /\ WriteAndStore(r)

\* held_idempotency_lock, its wait without a timeout; the first transaction
\* of an insight, which may find the feature off.
HoldKey(r) ==
  /\ at[r] = "key"
  /\ Kind[r] = "insight"
  /\ KeyFree(r)
  /\ Proceed(r, "membership")
LookUpInsight(r) ==
  /\ at[r] = "membership"
  /\ Kind[r] = "insight"
  /\ NotBehind(r)
  /\ \/ Denied(r)
     \/ allowed[By[r]] /\ Replay(r)
     \/ allowed[By[r]] /\ ~Live(r) /\ \E s \in {"model", "store"} : Proceed(r, s)

\* The first transaction of a prep authorizes before it looks up.
LookUpPrep(r) ==
  /\ at[r] = "key"
  /\ Kind[r] = "prep"
  /\ KeyFree(r)
  /\ \/ Denied(r)
     \/ allowed[By[r]] /\ (Replay(r) \/ (~Live(r) /\ Proceed(r, "model")))

\* create_run looks up without asking for the role again, and then asks only
\* for the read of its input, which a demoted caller may still have.
LookUpRun(r) ==
  /\ at[r] = "key"
  /\ Kind[r] = "run"
  /\ KeyFree(r)
  /\ \/ Replay(r)
     \/ ~Live(r) /\ (Denied(r) \/ Proceed(r, "model"))

\* execute_run returns; for an insight it persists the model run in a
\* transaction that requires its caller to be an active member.
ModelReturns(r) ==
  /\ at[r] = "model"
  /\ \/ Kind[r] = "insight" /\ Proceed(r, "persist")
     \/ Kind[r] = "prep" /\ Proceed(r, "insert")
PersistInsightRun(r) ==
  /\ at[r] = "persist"
  /\ NotBehind(r)
  /\ \/ Denied(r)
     \/ allowed[By[r]] /\ \E s \in {"insert", "store"} : Proceed(r, s)

\* The run of create_run is its effect, whatever its outcome.
PersistRun(r) ==
  /\ at[r] = "model"
  /\ Kind[r] = "run"
  /\ performed' = performed \cup {r}
  /\ Goto(r, "store")
  /\ UNCHANGED <<allowed, record, expired, reply, writeFaults>>

\* The insight commits in a transaction of its own.
InsertInsight(r) ==
  /\ at[r] = "insert"
  /\ Kind[r] = "insight"
  /\ NotBehind(r)
  /\ \/ Denied(r)
     \/ /\ allowed[By[r]]
        /\ performed' = performed \cup {r}
        /\ Goto(r, "store")
        /\ UNCHANGED <<allowed, record, expired, reply, writeFaults>>

\* The pack and its answer commit together.
InsertPrep(r) ==
  /\ at[r] = "insert"
  /\ Kind[r] = "prep"
  /\ NotBehind(r)
  /\ Denied(r) \/ (allowed[By[r]] /\ WriteAndStore(r))

\* The answer is stored in a last transaction, and given even when that fails.
StoreAnswer(r) ==
  /\ at[r] = "store"
  /\ \/ ~Recorded(r) /\ record' = [record EXCEPT ![SlotOf(r)] = r] /\ UNCHANGED writeFaults
     \/ Recorded(r) /\ UNCHANGED <<record, writeFaults>>
     \/ writeFaults < MaxWriteFault /\ writeFaults' = writeFaults + 1 /\ UNCHANGED record
  /\ reply' = [reply EXCEPT ![r] = r]
  /\ Goto(r, "answered")
  /\ UNCHANGED <<allowed, expired, performed>>

\* An error, a statement timeout or the end of the process: the open
\* transaction is rolled back and the connections drop their locks.
Abort(r) ==
  /\ at[r] \notin RequestEnd \cup {"idle"}
  /\ writeFaults < MaxWriteFault
  /\ writeFaults' = writeFaults + 1
  /\ Goto(r, "failed")
  /\ UNCHANGED <<allowed, record, expired, reply, performed>>

ExpireRecord(k) ==
  /\ record[k] # NoAnswer
  /\ k \notin expired
  /\ expired' = expired \cup {k}
  /\ UNCHANGED <<allowed, record, at, ahead, reply, performed, writeFaults>>

AskExclusive(x) == at[x] = "idle" /\ Proceed(x, "exclusive")
TakeRole(x) ==
  /\ at[x] = "exclusive"
  /\ NoSharer
  /\ allowed' = [allowed EXCEPT ![Target[x]] = FALSE]
  /\ Goto(x, "changed")
  /\ UNCHANGED <<record, expired, reply, performed, writeFaults>>
\* lock_timeout: 409 MEMBERSHIP_CHANGE_BUSY
GiveUp(x) == at[x] = "exclusive" /\ ~NoSharer /\ Proceed(x, "busy")

-----------------------------------------------------------------------------
RequestProgress(r) ==
  \/ LockPlain(r) \/ LookUpPlain(r) \/ CommitPlain(r)
  \/ HoldKey(r) \/ LookUpInsight(r) \/ LookUpPrep(r) \/ LookUpRun(r)
  \/ ModelReturns(r) \/ PersistInsightRun(r) \/ PersistRun(r)
  \/ InsertInsight(r) \/ InsertPrep(r) \/ StoreAnswer(r)
\* Mutant: a removal waits for its lock without a timeout.
RemovalProgressPatient(x) == TakeRole(x)

RemovalProgress(x) == TakeRole(x) \/ GiveUp(x)

WriteNext ==
  \/ \E r \in Request : AskPlain(r) \/ AskHeld(r) \/ AskRun(r) \/ RequestProgress(r) \/ Abort(r)
  \/ \E k \in Slot : ExpireRecord(k)
  \/ \E x \in Removal : AskExclusive(x) \/ RemovalProgress(x)

\* As long as something can go on, something does: a granted lock, a returned
\* model call or an elapsed lock_timeout is acted on.  That a request is made,
\* fails or outlives its record is not promised, and the statement timeout of
\* the main engine (an Abort) is not relied on.
WriteProgress ==
  \/ \E r \in Request : RequestProgress(r)
  \/ \E x \in Removal : RemovalProgress(x)
WriteFairness == WF_writeVars(WriteProgress)

WriteSpec == WriteInit /\ [][WriteNext]_writeVars /\ WriteFairness

-----------------------------------------------------------------------------
(* Two requests of one caller and key both take effect only if one of them *)
(* commits its effect apart from its answer and lost the answer: the store *)
(* failed, the process died before it, or an expired record took its place.*)
OneEffectPerKey ==
  \A r, s \in performed :
    r # s /\ SlotOf(r) = SlotOf(s) =>
      \E q \in {r, s} :
        /\ Kind[q] \in {"insight", "run"}
        /\ record[SlotOf(q)] # q
        /\ at[q] \in {"answered", "failed"} \/ SlotOf(q) \in expired

(* No request takes effect while a live answer stands in its slot, however *)
(* many transactions lie between its lookup and its write.                 *)
NoEffectBehindAnAnswer ==
  [][\A r \in performed' \ performed : ~Live(r)]_writeVars

(* A request other than create_run takes effect, or is given an answer     *)
(* stored earlier, only while its caller still has the role: a removal or  *)
(* demotion that commits first is seen, one in flight waits or gives up.   *)
EffectWithAuthority ==
  [][\A r \in Request :
       /\ Kind[r] # "run"
       /\ r \in performed' \ performed \/ reply'[r] \notin {reply[r], r}
       => allowed[By[r]] /\ allowed'[By[r]]]_writeVars

(* Every request ends, and every removal (each is made once).  Waits can close *)
(* a cycle (a plain request holds the membership lock and waits for a key,  *)
(* an insight holds that key and queues behind a removal, which waits for   *)
(* the plain request); the lock_timeout of the removal opens it.            *)
RequestsEnd ==
  <>[](/\ \A r \in Request : at[r] \in RequestEnd \cup {"idle"}
       /\ \A x \in Removal : at[x] # "exclusive")
====
