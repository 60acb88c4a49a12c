-------------------------- MODULE WriteProtocolProofs --------------------------
(***************************************************************************)
(* An Idempotency-Key, a role and a stored answer do what the requests     *)
(* count on -- for any number of requests, callers, keys and removals, of  *)
(* whatever kinds.                                                         *)
(*                                                                         *)
(* The strengthening (WriteInv): the lock of a caller and key has one      *)
(* holder, so what its lookup found stays until it stores; a plain request *)
(* under the shared membership lock keeps its role; and a request that     *)
(* took effect has ended or is about to store.                             *)
(***************************************************************************)
EXTENDS WriteProtocol, TLAPS

\* The steps of each kind of request.
StepsOf(kind) ==
  RequestEnd \cup {"idle", "key"} \cup
    IF kind = "plain" THEN {"membership", "working"}
    ELSE IF kind = "insight" THEN {"membership", "model", "persist", "insert", "store"}
    ELSE IF kind = "prep" THEN {"model", "insert"}
    ELSE {"model", "store"}

\* The steps that follow a lookup that found no live answer, and those at
\* which a request of a kind holds the lock of its caller and key.
PastLookup == {"working", "model", "persist", "insert", "store"}
HoldsAt(kind, step) ==
  IF kind = "plain" THEN step = "working" ELSE step \in {"membership", "model", "persist", "insert", "store"}

Steps == \A r \in Request : at[r] \in StepsOf(Kind[r])
OneHolder ==
  \A r, s \in Request :
    SlotOf(r) = SlotOf(s) /\ HoldsAt(Kind[r], at[r]) /\ HoldsAt(Kind[s], at[s]) => r = s
LookedUp == \A r \in Request : at[r] \in PastLookup => ~Live(r)
Sharers == \A r \in Request : Kind[r] = "plain" /\ at[r] \in {"key", "working"} => allowed[By[r]]
ExpiredRecorded == \A k \in expired : record[k] # NoAnswer

\* What took effect has ended, with its answer stored in the same
\* transaction, or is about to store it.
Performed ==
  \A r \in performed :
    /\ at[r] \in {"store", "answered", "failed"}
    /\ Kind[r] \in {"plain", "prep"} => record[SlotOf(r)] = r /\ at[r] = "answered"

\* The inductive invariant.
WriteInv ==
  /\ WriteTypeOK
  /\ Steps
  /\ OneHolder
  /\ LookedUp
  /\ Sharers
  /\ ExpiredRecorded
  /\ Performed
  /\ OneEffectPerKey

-----------------------------------------------------------------------------
LEMMA KindsAndSlots ==
  /\ \A r \in Request : Kind[r] \in {"plain", "insight", "prep", "run"} /\ By[r] \in Caller /\ SlotOf(r) \in Slot
  /\ \A r \in Request : r \notin Removal
  /\ NoAnswer \notin Request
BY WriteAssumption DEF SlotOf, Slot

LEMMA Holders == \A r \in Request : HoldsAt(Kind[r], at[r]) <=> r \in SlotHolder(SlotOf(r))
BY DEF HoldsAt, SlotHolder

LEMMA InitWrite == WriteInit => WriteInv
<1> SUFFICES ASSUME WriteInit PROVE WriteInv
  OBVIOUS
<1>1. WriteTypeOK
  BY WriteAssumption DEF WriteInit, WriteTypeOK, WriteStep, RemovalStep
<1>2. \A r \in Request : at[r] = "idle"
  BY DEF WriteInit, WriteProcess
<1>3. Steps /\ OneHolder /\ LookedUp /\ Sharers
  BY <1>2, KindsAndSlots DEF Steps, OneHolder, LookedUp, Sharers, StepsOf, HoldsAt, PastLookup
<1>4. ExpiredRecorded /\ Performed /\ OneEffectPerKey
  BY DEF WriteInit, ExpiredRecorded, Performed, OneEffectPerKey
<1> QED
  BY <1>1, <1>3, <1>4 DEF WriteInv

-----------------------------------------------------------------------------
\* Going on, or ending, without a write.
LEMMA GoOn ==
  ASSUME WriteInv, WriteTypeOK', NEW r \in Request, NEW s \in StepsOf(Kind[r]),
         at' = [at EXCEPT ![r] = s], UNCHANGED <<allowed, record, expired, performed>>,
         s \in PastLookup => ~Live(r),
         HoldsAt(Kind[r], s) => KeyFree(r) \/ HoldsAt(Kind[r], at[r]),
         Kind[r] = "plain" /\ s \in {"key", "working"} => allowed[By[r]],
         r \in performed => at[r] \notin {"answered", "failed"} /\ s \in {"answered", "failed"}
  PROVE  WriteInv'
<1> USE DEF WriteInv
<1>1. /\ at'[r] = s
      /\ \A p \in Request : p # r => at'[p] = at[p]
  BY DEF WriteTypeOK, WriteProcess
<1>2. \A p \in Request : (Live(p)' <=> Live(p))
  BY DEF Live, Recorded, SlotOf
<1>3. Steps' /\ LookedUp' /\ Sharers' /\ ExpiredRecorded'
  BY <1>1, <1>2 DEF Steps, LookedUp, Sharers, ExpiredRecorded
<1>4. OneHolder'
  BY <1>1, Holders DEF OneHolder, KeyFree, SlotOf
<1>5. Performed'
  BY <1>1, KindsAndSlots DEF Performed, WriteTypeOK
<1>6. OneEffectPerKey'
  BY <1>1 DEF OneEffectPerKey, WriteTypeOK
<1> QED
  BY <1>3, <1>4, <1>5, <1>6

\* A step of a removal, or of the clock of a record.
LEMMA GoOnRemoval ==
  ASSUME WriteInv, WriteTypeOK', NEW x \in Removal, NEW s,
         at' = [at EXCEPT ![x] = s], UNCHANGED <<record, expired, performed>>,
         \A c \in Caller : allowed'[c] = allowed[c] \/ SharedHolder = {}
  PROVE  WriteInv'
<1> USE DEF WriteInv
<1>1. \A p \in Request : at'[p] = at[p]
  BY KindsAndSlots DEF WriteTypeOK, WriteProcess
<1>2. \A p \in Request : (Live(p)' <=> Live(p))
  BY DEF Live, Recorded, SlotOf
<1>3. Steps' /\ LookedUp' /\ ExpiredRecorded' /\ OneHolder'
  BY <1>1, <1>2 DEF Steps, LookedUp, ExpiredRecorded, OneHolder, SlotOf
<1>4. Sharers'
  BY <1>1, KindsAndSlots DEF Sharers, SharedHolder
<1>5. \A p \in performed : at'[p] = at[p]
  BY <1>1 DEF WriteTypeOK
<1>6. Performed' /\ OneEffectPerKey'
  BY <1>5 DEF Performed, OneEffectPerKey, SlotOf
<1> QED
  BY <1>3, <1>4, <1>6

LEMMA ExpireStep == ASSUME WriteInv, NEW k \in Slot, ExpireRecord(k) PROVE WriteInv'
<1> USE DEF WriteInv
<1>1. /\ record[k] # NoAnswer /\ expired' = expired \cup {k}
      /\ UNCHANGED <<allowed, record, at, ahead, reply, performed, writeFaults>>
  BY DEF ExpireRecord
<1>2. WriteTypeOK'
  BY <1>1 DEF WriteTypeOK
<1>3. \A p \in Request : Live(p)' => Live(p)
  BY <1>1 DEF Live, Recorded, SlotOf
<1>4. Steps' /\ LookedUp' /\ ExpiredRecorded' /\ OneHolder' /\ Sharers' /\ Performed'
  BY <1>1, <1>3 DEF Steps, LookedUp, ExpiredRecorded, OneHolder, Sharers, Performed, SlotOf
<1>5. OneEffectPerKey'
  BY <1>1 DEF OneEffectPerKey, SlotOf
<1> QED
  BY <1>2, <1>4, <1>5

-----------------------------------------------------------------------------
\* What the lock of r's caller and key says of the other requests.
LEMMA OthersOfSlot ==
  ASSUME WriteInv, NEW r \in Request, HoldsAt(Kind[r], at[r]),
         NEW p \in Request, p # r, SlotOf(p) = SlotOf(r)
  PROVE  /\ at[p] \notin PastLookup
         /\ p \in performed => at[p] \in {"answered", "failed"}
<1>1. ~HoldsAt(Kind[p], at[p])
  BY DEF WriteInv, OneHolder
<1>2. at[p] \in StepsOf(Kind[p])
  BY DEF WriteInv, Steps
<1>3. at[p] \notin PastLookup
  BY <1>1, <1>2, KindsAndSlots DEF StepsOf, HoldsAt, PastLookup, RequestEnd
<1> QED
  BY <1>3 DEF WriteInv, Performed, PastLookup

\* An effect that commits before its answer is stored.
LEMMA EffectApart ==
  ASSUME WriteInv, WriteTypeOK', NEW r \in Request, Kind[r] \in {"insight", "run"},
         at[r] \in {"model", "insert"}, at' = [at EXCEPT ![r] = "store"],
         performed' = performed \cup {r}, UNCHANGED <<allowed, record, expired>>
  PROVE  WriteInv'
<1> USE DEF WriteInv
<1>1. /\ at'[r] = "store"
      /\ \A p \in Request : p # r => at'[p] = at[p]
  BY DEF WriteTypeOK, WriteProcess
<1>2. \A p \in Request : (Live(p)' <=> Live(p))
  BY DEF Live, Recorded, SlotOf
<1>3. /\ HoldsAt(Kind[r], at[r]) /\ HoldsAt(Kind[r], "store") /\ "store" \in StepsOf(Kind[r])
      /\ ~Live(r) /\ r \notin performed /\ performed \subseteq Request
  BY DEF HoldsAt, StepsOf, LookedUp, PastLookup, Performed, WriteTypeOK
<1>4. Steps' /\ Sharers' /\ ExpiredRecorded'
  BY <1>1, <1>3 DEF Steps, Sharers, ExpiredRecorded
<1>5. LookedUp'
  BY <1>1, <1>2, <1>3 DEF LookedUp
<1>6. OneHolder'
  BY <1>1, <1>3 DEF OneHolder, SlotOf
<1>7. Performed'
  BY <1>1, <1>3 DEF Performed, SlotOf
<1>8. ASSUME NEW s \in performed, SlotOf(s) = SlotOf(r)
      PROVE  \E q \in {r, s} :
               /\ Kind[q] \in {"insight", "run"}
               /\ record[SlotOf(q)] # q
               /\ at'[q] \in {"answered", "failed"} \/ SlotOf(q) \in expired
  <2>1. s \in Request /\ s # r /\ at[s] \in {"answered", "failed"}
    BY <1>3, <1>8, OthersOfSlot
  <2>2. CASE record[SlotOf(s)] = s
    BY <1>3, <1>8, <2>1, <2>2, KindsAndSlots DEF Live, Recorded
  <2>3. CASE record[SlotOf(s)] # s
    BY <1>1, <1>8, <2>1, <2>3, KindsAndSlots DEF Performed
  <2> QED
    BY <2>2, <2>3
<1>9. OneEffectPerKey'
  BY <1>1, <1>3, <1>8 DEF OneEffectPerKey, SlotOf
<1> QED
  BY <1>4, <1>5, <1>6, <1>7, <1>9

\* An answer is stored, with the effect or after it.
LEMMA Stored ==
  ASSUME WriteInv, WriteTypeOK', NEW r \in Request, ~Recorded(r),
         HoldsAt(Kind[r], at[r]), at[r] \in PastLookup, at' = [at EXCEPT ![r] = "answered"],
         record' = [record EXCEPT ![SlotOf(r)] = r],
         performed' = performed \/ (performed' = performed \cup {r} /\ r \notin performed),
         Kind[r] \in {"plain", "prep"} \/ performed' = performed,
         UNCHANGED <<allowed, expired>>
  PROVE  WriteInv'
<1> USE DEF WriteInv
<1>1. /\ at'[r] = "answered"
      /\ \A p \in Request : p # r => at'[p] = at[p]
  BY DEF WriteTypeOK, WriteProcess
<1>2. /\ record'[SlotOf(r)] = r
      /\ \A k \in Slot : k # SlotOf(r) => record'[k] = record[k]
  BY KindsAndSlots DEF WriteTypeOK
<1>3. /\ "answered" \in StepsOf(Kind[r]) /\ ~HoldsAt(Kind[r], "answered") /\ performed \subseteq Request
      /\ record[SlotOf(r)] = NoAnswer /\ SlotOf(r) \notin expired
  BY KindsAndSlots DEF HoldsAt, StepsOf, RequestEnd, WriteTypeOK, Recorded, ExpiredRecorded
<1>4. Steps' /\ Sharers' /\ OneHolder'
  BY <1>1, <1>3 DEF Steps, Sharers, OneHolder, SlotOf
<1>5. ExpiredRecorded'
  BY <1>2, <1>3 DEF ExpiredRecorded, WriteTypeOK
<1>6. LookedUp'
  <2> SUFFICES ASSUME NEW p \in Request, at'[p] \in PastLookup
               PROVE  ~Live(p)'
    BY DEF LookedUp
  <2>1. p # r /\ at[p] \in PastLookup
    BY <1>1 DEF PastLookup
  <2>2. SlotOf(p) # SlotOf(r)
    BY <2>1, OthersOfSlot
  <2> QED
    BY <1>2, <2>1, <2>2, KindsAndSlots DEF LookedUp, Live, Recorded, SlotOf
<1>7. ASSUME NEW s \in performed, s # r
      PROVE  /\ s \in Request /\ at'[s] = at[s]
             /\ record[SlotOf(s)] = s => record'[SlotOf(s)] = s
             /\ record[SlotOf(s)] # s => record'[SlotOf(s)] # s
  BY <1>1, <1>2, <1>3, <1>7, KindsAndSlots
<1>8. Performed'
  <2>1. ASSUME NEW s \in performed, s # r
        PROVE  /\ at'[s] \in {"store", "answered", "failed"}
               /\ Kind[s] \in {"plain", "prep"} => record'[SlotOf(s)] = s /\ at'[s] = "answered"
    BY <1>7, <2>1 DEF Performed
  <2> QED
    BY <1>1, <1>2, <2>1 DEF Performed, SlotOf
<1>9. ASSUME NEW s \in performed', NEW t \in performed', s # t, SlotOf(s) = SlotOf(t)
      PROVE  \E q \in {s, t} :
               /\ Kind[q] \in {"insight", "run"}
               /\ record'[SlotOf(q)] # q
               /\ at'[q] \in {"answered", "failed"} \/ SlotOf(q) \in expired
  <2>1. ASSUME NEW u \in performed, u # r, SlotOf(u) = SlotOf(r)
        PROVE  /\ Kind[u] \in {"insight", "run"}
               /\ record'[SlotOf(u)] # u
               /\ at'[u] \in {"answered", "failed"}
    BY <1>2, <1>3, <1>7, <2>1, OthersOfSlot, KindsAndSlots DEF Performed
  <2>2. CASE s = r \/ t = r
    BY <1>9, <2>1, <2>2
  <2>3. CASE s # r /\ t # r
    <3>1. s \in performed /\ t \in performed
      BY <1>9, <2>3
    <3>2. PICK q \in {s, t} : /\ Kind[q] \in {"insight", "run"}
                              /\ record[SlotOf(q)] # q
                              /\ at[q] \in {"answered", "failed"} \/ SlotOf(q) \in expired
      BY <1>9, <3>1 DEF OneEffectPerKey
    <3> QED
      BY <1>7, <2>3, <3>1, <3>2
  <2> QED
    BY <2>2, <2>3
<1>10. OneEffectPerKey'
  BY <1>9 DEF OneEffectPerKey, SlotOf
<1> QED
  BY <1>4, <1>5, <1>6, <1>8, <1>10

-----------------------------------------------------------------------------
LEMMA StepsTyped == \A r \in Request : StepsOf(Kind[r]) \subseteq WriteStep
BY KindsAndSlots DEF StepsOf, WriteStep, RequestEnd

LEMMA GotoTyped ==
  ASSUME WriteTypeOK, NEW p \in WriteProcess, NEW s \in WriteStep \cup RemovalStep, Goto(p, s)
  PROVE  /\ at' = [at EXCEPT ![p] = s]
         /\ at' \in [WriteProcess -> WriteStep \cup RemovalStep]
         /\ ahead' \in [Request -> SUBSET Removal]
<1>1. \A r \in Request : ahead[r] \ {p} \in SUBSET Removal
  BY DEF WriteTypeOK
<1>2. Waiting \in SUBSET Removal
  BY DEF Waiting
<1> QED
  BY <1>1, <1>2 DEF WriteTypeOK, Goto

\* A step of a request that writes nothing.
LEMMA Proceeds ==
  ASSUME WriteInv, NEW r \in Request, NEW s \in StepsOf(Kind[r]), Goto(r, s),
         UNCHANGED <<allowed, record, expired, performed>>,
         reply' \in [Request -> Request \cup {NoAnswer}], writeFaults' \in 0 .. MaxWriteFault,
         s \in PastLookup => ~Live(r),
         HoldsAt(Kind[r], s) => KeyFree(r) \/ HoldsAt(Kind[r], at[r]),
         Kind[r] = "plain" /\ s \in {"key", "working"} => allowed[By[r]],
         r \in performed => at[r] \notin {"answered", "failed"} /\ s \in {"answered", "failed"}
  PROVE  WriteInv'
<1>1. s \in WriteStep \cup RemovalStep /\ r \in WriteProcess
  BY StepsTyped DEF WriteProcess
<1>2. WriteTypeOK'
  BY <1>1, GotoTyped DEF WriteInv, WriteTypeOK
<1> QED
  BY <1>1, <1>2, GotoTyped, GoOn DEF WriteInv

\* A request that ended with no answer of its own, or is not yet at its end,
\* has not taken effect unless it is about to store.
LEMMA NotPerformed ==
  ASSUME WriteInv, NEW r \in Request, at[r] \notin {"store", "answered", "failed"}
  PROVE  r \notin performed
BY DEF WriteInv, Performed

\* A refusal, and the answer to a caller whose slot holds a live record.
LEMMA Ends ==
  ASSUME WriteInv, NEW r \in Request, at[r] \notin RequestEnd \cup {"store"},
         Denied(r) \/ Replay(r)
  PROVE  WriteInv'
<1>1. r \notin performed
  BY NotPerformed DEF RequestEnd
<1>2. \A s \in RequestEnd : s \in StepsOf(Kind[r]) /\ s \notin PastLookup /\ ~HoldsAt(Kind[r], s)
                            /\ s \notin {"key", "working"}
  BY DEF StepsOf, RequestEnd, PastLookup, HoldsAt
<1>3. {"answered", "refused", "conflict"} \subseteq RequestEnd
  BY DEF RequestEnd
<1>4. reply \in [Request -> Request \cup {NoAnswer}] /\ writeFaults \in 0 .. MaxWriteFault
      /\ record[SlotOf(r)] \in Request \cup {NoAnswer}
  BY KindsAndSlots DEF WriteInv, WriteTypeOK
<1>5. CASE Denied(r)
  BY <1>1, <1>2, <1>3, <1>4, <1>5, Proceeds DEF Denied, Proceed
<1>6. CASE Replay(r)
  <2>1. PICK s \in {"answered", "conflict"} :
          Goto(r, s) /\ reply' \in [Request -> Request \cup {NoAnswer}]
    BY <1>4, <1>6 DEF Replay
  <2> QED
    BY <1>1, <1>2, <1>3, <1>4, <1>6, <2>1, Proceeds DEF Replay
<1> QED
  BY <1>5, <1>6

LEMMA WritesAndStores ==
  ASSUME WriteInv, NEW r \in Request, Kind[r] \in {"plain", "prep"}, at[r] \in {"working", "insert"},
         HoldsAt(Kind[r], at[r]), WriteAndStore(r)
  PROVE  WriteInv'
<1>1. r \notin performed /\ r \in WriteProcess /\ at[r] \in PastLookup
  BY NotPerformed DEF WriteProcess, PastLookup
<1>2. /\ \A s \in {"answered", "failed"} :
           s \in StepsOf(Kind[r]) /\ s \in WriteStep /\ s \notin PastLookup /\ ~HoldsAt(Kind[r], s)
      /\ WriteTypeOK
  BY DEF StepsOf, RequestEnd, PastLookup, HoldsAt, WriteStep, WriteInv
<1>3. CASE Recorded(r)
  BY <1>1, <1>2, <1>3, Proceeds DEF WriteAndStore, Proceed, WriteTypeOK
<1>4. CASE ~Recorded(r)
  <2>1. /\ Goto(r, "answered")
        /\ record' = [record EXCEPT ![SlotOf(r)] = r]
        /\ performed' = performed \cup {r}
        /\ reply' = [reply EXCEPT ![r] = r]
        /\ UNCHANGED <<allowed, expired, writeFaults>>
    BY <1>4 DEF WriteAndStore
  <2>2. WriteTypeOK'
    BY <1>1, <1>2, <2>1, GotoTyped, KindsAndSlots DEF WriteTypeOK
  <2> QED
    BY <1>1, <1>2, <1>4, <2>1, <2>2, GotoTyped, Stored
<1> QED
  BY <1>3, <1>4

LEMMA StoresAnswer == ASSUME WriteInv, NEW r \in Request, StoreAnswer(r) PROVE WriteInv'
<1>1. /\ at[r] = "store" /\ Goto(r, "answered") /\ reply' = [reply EXCEPT ![r] = r]
      /\ UNCHANGED <<allowed, expired, performed>>
  BY DEF StoreAnswer
<1>2. r \in WriteProcess /\ at[r] \in PastLookup /\ at[r] \in StepsOf(Kind[r]) /\ WriteTypeOK
  BY <1>1 DEF WriteProcess, PastLookup, WriteInv, Steps
<1>3. HoldsAt(Kind[r], at[r])
  BY <1>1, <1>2, KindsAndSlots DEF HoldsAt, StepsOf, RequestEnd
<1>4. /\ "answered" \in StepsOf(Kind[r]) /\ "answered" \in WriteStep /\ "answered" \notin PastLookup
      /\ ~HoldsAt(Kind[r], "answered")
  BY DEF StepsOf, RequestEnd, PastLookup, HoldsAt, WriteStep
<1>5. reply' \in [Request -> Request \cup {NoAnswer}]
  BY <1>1, <1>2 DEF WriteTypeOK
<1>6. CASE ~Recorded(r) /\ record' = [record EXCEPT ![SlotOf(r)] = r] /\ UNCHANGED writeFaults
  <2>1. WriteTypeOK'
    BY <1>1, <1>2, <1>4, <1>5, <1>6, GotoTyped, KindsAndSlots DEF WriteTypeOK
  <2> QED
    BY <1>1, <1>2, <1>3, <1>4, <1>6, <2>1, GotoTyped, Stored
<1>7. CASE UNCHANGED record /\ writeFaults' \in 0 .. MaxWriteFault
  BY <1>1, <1>2, <1>4, <1>5, <1>7, Proceeds
<1>8. writeFaults < MaxWriteFault => writeFaults + 1 \in 0 .. MaxWriteFault
  BY <1>2, WriteAssumption DEF WriteTypeOK
<1> QED
  BY <1>2, <1>6, <1>7, <1>8 DEF StoreAnswer, WriteTypeOK

LEMMA CommitsApart ==
  ASSUME WriteInv, NEW r \in Request, Kind[r] \in {"insight", "run"}, at[r] \in {"model", "insert"},
         performed' = performed \cup {r}, Goto(r, "store"),
         UNCHANGED <<allowed, record, expired, reply, writeFaults>>
  PROVE  WriteInv'
<1>1. r \in WriteProcess /\ "store" \in WriteStep /\ WriteTypeOK
  BY DEF WriteProcess, WriteStep, WriteInv
<1>2. WriteTypeOK'
  BY <1>1, GotoTyped DEF WriteTypeOK
<1> QED
  BY <1>1, <1>2, GotoTyped, EffectApart

-----------------------------------------------------------------------------
\* One action of a request at a time.  Each leaf names where the action
\* leaves the request.
LEMMA AskSteps ==
  ASSUME WriteInv, NEW r \in Request, AskPlain(r) \/ AskHeld(r) \/ AskRun(r)
  PROVE  WriteInv'
<1>1. at[r] = "idle" /\ r \notin performed
  BY NotPerformed DEF AskPlain, AskHeld, AskRun
<1>2. reply \in [Request -> Request \cup {NoAnswer}] /\ writeFaults \in 0 .. MaxWriteFault
  BY DEF WriteInv, WriteTypeOK
<1>3. CASE AskPlain(r)
  <2>1. "membership" \in StepsOf(Kind[r]) /\ ~HoldsAt(Kind[r], "membership") /\ "membership" \notin PastLookup
    BY <1>3 DEF AskPlain, StepsOf, HoldsAt, PastLookup
  <2> QED
    BY <1>1, <1>2, <1>3, <2>1, Proceeds DEF AskPlain, Proceed
<1>4. "key" \in StepsOf(Kind[r]) /\ ~HoldsAt(Kind[r], "key") /\ "key" \notin PastLookup
  BY DEF StepsOf, HoldsAt, PastLookup
<1>5. CASE AskHeld(r)
  BY <1>1, <1>2, <1>4, <1>5, Proceeds DEF AskHeld, Proceed
<1>6. CASE AskRun(r)
  <2>1. CASE Denied(r)
    BY <1>1, <2>1, Ends DEF RequestEnd
  <2>2. CASE ~Denied(r)
    BY <1>1, <1>2, <1>4, <1>6, <2>2, Proceeds DEF AskRun, Proceed
  <2> QED
    BY <2>1, <2>2
<1> QED
  BY <1>3, <1>5, <1>6

LEMMA LockStep == ASSUME WriteInv, NEW r \in Request, LockPlain(r) PROVE WriteInv'
<1>1. at[r] = "membership" /\ Kind[r] = "plain" /\ r \notin performed
  BY NotPerformed DEF LockPlain
<1>2. CASE Denied(r)
  BY <1>1, <1>2, Ends DEF RequestEnd
<1>3. CASE allowed[By[r]] /\ Proceed(r, "key")
  <2>1. "key" \in StepsOf(Kind[r]) /\ ~HoldsAt(Kind[r], "key") /\ "key" \notin PastLookup
    BY DEF StepsOf, HoldsAt, PastLookup
  <2> QED
    BY <1>1, <1>3, <2>1, Proceeds DEF Proceed, WriteInv, WriteTypeOK
<1> QED
  BY <1>2, <1>3 DEF LockPlain

LEMMA LookUpSteps ==
  ASSUME WriteInv, NEW r \in Request,
         LookUpPlain(r) \/ HoldKey(r) \/ LookUpInsight(r) \/ LookUpPrep(r) \/ LookUpRun(r)
  PROVE  WriteInv'
<1>1. at[r] \in {"key", "membership"} /\ r \notin performed
  BY NotPerformed DEF LookUpPlain, HoldKey, LookUpInsight, LookUpPrep, LookUpRun
<1>2. reply \in [Request -> Request \cup {NoAnswer}] /\ writeFaults \in 0 .. MaxWriteFault
  BY DEF WriteInv, WriteTypeOK
<1>3. CASE Denied(r) \/ Replay(r)
  BY <1>1, <1>3, Ends DEF RequestEnd
<1>4. CASE LookUpPlain(r) /\ ~Replay(r)
  <2>1. Kind[r] = "plain" /\ at[r] = "key" /\ KeyFree(r) /\ ~Live(r) /\ Proceed(r, "working")
    BY <1>4 DEF LookUpPlain
  <2>2. "working" \in StepsOf(Kind[r]) /\ allowed[By[r]]
    BY <2>1 DEF StepsOf, WriteInv, Sharers
  <2> QED
    BY <1>1, <1>2, <2>1, <2>2, Proceeds DEF Proceed
<1>5. CASE HoldKey(r)
  <2>1. Kind[r] = "insight" /\ KeyFree(r) /\ Proceed(r, "membership")
    BY <1>5 DEF HoldKey
  <2>2. "membership" \in StepsOf(Kind[r]) /\ "membership" \notin PastLookup
    BY <2>1 DEF StepsOf, PastLookup
  <2> QED
    BY <1>1, <1>2, <2>1, <2>2, Proceeds DEF Proceed
<1>6. CASE LookUpInsight(r) /\ ~Denied(r) /\ ~Replay(r)
  <2>1. PICK s \in {"model", "store"} : Proceed(r, s)
    BY <1>6 DEF LookUpInsight
  <2>2. Kind[r] = "insight" /\ at[r] = "membership" /\ ~Live(r)
    BY <1>6 DEF LookUpInsight
  <2>3. s \in StepsOf(Kind[r]) /\ HoldsAt(Kind[r], at[r])
    BY <2>2 DEF StepsOf, HoldsAt
  <2> QED
    BY <1>1, <1>2, <2>1, <2>2, <2>3, Proceeds DEF Proceed
<1>7. CASE (LookUpPrep(r) \/ LookUpRun(r)) /\ ~Denied(r) /\ ~Replay(r)
  <2>1. Kind[r] \in {"prep", "run"} /\ at[r] = "key" /\ KeyFree(r) /\ ~Live(r) /\ Proceed(r, "model")
    BY <1>7 DEF LookUpPrep, LookUpRun
  <2>2. "model" \in StepsOf(Kind[r])
    BY <2>1 DEF StepsOf
  <2> QED
    BY <1>1, <1>2, <2>1, <2>2, Proceeds DEF Proceed
<1> QED
  BY <1>3, <1>4, <1>5, <1>6, <1>7

LEMMA ModelSteps ==
  ASSUME WriteInv, NEW r \in Request, ModelReturns(r) \/ PersistInsightRun(r)
  PROVE  WriteInv'
<1>1. at[r] \in {"model", "persist"} /\ r \notin performed
  BY NotPerformed DEF ModelReturns, PersistInsightRun
<1>2. reply \in [Request -> Request \cup {NoAnswer}] /\ writeFaults \in 0 .. MaxWriteFault
  BY DEF WriteInv, WriteTypeOK
<1>3. ~Live(r) /\ at[r] \in StepsOf(Kind[r])
  BY <1>1 DEF WriteInv, LookedUp, PastLookup, Steps
<1>4. CASE Denied(r)
  BY <1>1, <1>4, Ends DEF RequestEnd
<1>5. CASE ~Denied(r)
  <2>0. Kind[r] = "insight" \/ (Kind[r] = "prep" /\ at[r] = "model" /\ Proceed(r, "insert"))
    BY <1>1, <1>3, KindsAndSlots DEF ModelReturns, PersistInsightRun, StepsOf, RequestEnd
  <2>1. PICK s \in {"persist", "insert", "store"} : Proceed(r, s) /\ s \in StepsOf(Kind[r])
    <3>1. Kind[r] = "insight" => {"persist", "insert", "store"} \subseteq StepsOf(Kind[r])
      BY DEF StepsOf
    <3>2. Kind[r] = "prep" => "insert" \in StepsOf(Kind[r])
      BY DEF StepsOf
    <3> QED
      BY <1>5, <2>0, <3>1, <3>2 DEF ModelReturns, PersistInsightRun
  <2>2. HoldsAt(Kind[r], at[r])
    BY <1>1, <2>0 DEF HoldsAt
  <2>3. Kind[r] # "plain"
    BY <2>0
  <2> QED
    BY <1>1, <1>2, <1>3, <2>1, <2>2, <2>3, Proceeds DEF Proceed
<1> QED
  BY <1>4, <1>5

LEMMA WriteSteps ==
  ASSUME WriteInv, NEW r \in Request,
         CommitPlain(r) \/ PersistRun(r) \/ InsertInsight(r) \/ InsertPrep(r) \/ StoreAnswer(r)
  PROVE  WriteInv'
<1>1. CASE CommitPlain(r)
  <2>1. Kind[r] = "plain" /\ at[r] = "working"
    BY <1>1, KindsAndSlots DEF CommitPlain, WriteInv, Steps, StepsOf, RequestEnd
  <2> QED
    BY <1>1, <2>1, WritesAndStores DEF CommitPlain, HoldsAt
<1>2. CASE PersistRun(r)
  BY <1>2, CommitsApart DEF PersistRun
<1>3. CASE InsertInsight(r)
  <2>1. CASE Denied(r)
    BY <1>3, <2>1, Ends DEF InsertInsight, RequestEnd
  <2> QED
    BY <1>3, <2>1, CommitsApart DEF InsertInsight
<1>4. CASE InsertPrep(r)
  <2>1. CASE Denied(r)
    BY <1>4, <2>1, Ends DEF InsertPrep, RequestEnd
  <2> QED
    BY <1>4, <2>1, WritesAndStores DEF InsertPrep, HoldsAt
<1> QED
  BY <1>1, <1>2, <1>3, <1>4, StoresAnswer

LEMMA AbortStep == ASSUME WriteInv, NEW r \in Request, Abort(r) PROVE WriteInv'
<1>1. /\ at[r] \notin RequestEnd /\ writeFaults < MaxWriteFault /\ writeFaults' = writeFaults + 1
      /\ Goto(r, "failed") /\ UNCHANGED <<allowed, record, expired, reply, performed>>
  BY DEF Abort
<1>2. writeFaults' \in 0 .. MaxWriteFault /\ reply \in [Request -> Request \cup {NoAnswer}]
  BY <1>1, WriteAssumption DEF WriteInv, WriteTypeOK
<1>3. "failed" \in StepsOf(Kind[r]) /\ "failed" \notin PastLookup /\ ~HoldsAt(Kind[r], "failed")
      /\ at[r] \notin {"answered", "failed"}
  BY <1>1 DEF StepsOf, RequestEnd, PastLookup, HoldsAt
<1> QED
  BY <1>1, <1>2, <1>3, Proceeds

LEMMA RemovalSteps ==
  ASSUME WriteInv, NEW x \in Removal, AskExclusive(x) \/ TakeRole(x) \/ GiveUp(x)
  PROVE  WriteInv'
<1>1. PICK s \in RemovalStep : Goto(x, s)
  BY DEF AskExclusive, TakeRole, GiveUp, Proceed, RemovalStep
<1>2. /\ UNCHANGED <<record, expired, reply, performed, writeFaults>>
      /\ allowed' \in [Caller -> BOOLEAN]
      /\ \A c \in Caller : allowed'[c] = allowed[c] \/ SharedHolder = {}
  BY DEF AskExclusive, TakeRole, GiveUp, Proceed, NoSharer, WriteInv, WriteTypeOK
<1>3. x \in WriteProcess /\ WriteTypeOK
  BY DEF WriteProcess, WriteInv
<1>4. WriteTypeOK'
  BY <1>1, <1>2, <1>3, GotoTyped DEF WriteTypeOK
<1> QED
  BY <1>1, <1>2, <1>3, <1>4, GotoTyped, GoOnRemoval

LEMMA StutterStep == ASSUME WriteInv, UNCHANGED writeVars PROVE WriteInv'
<1>1. /\ UNCHANGED <<allowed, record, expired, at, ahead, reply, performed, writeFaults>>
      /\ WriteInv
  BY DEF writeVars
<1>2. WriteTypeOK' /\ Steps' /\ Sharers' /\ ExpiredRecorded'
  BY <1>1 DEF WriteInv, WriteTypeOK, Steps, Sharers, ExpiredRecorded
<1>3. OneHolder' /\ LookedUp' /\ Performed' /\ OneEffectPerKey'
  BY <1>1 DEF WriteInv, OneHolder, LookedUp, Performed, OneEffectPerKey, Live, Recorded, SlotOf
<1> QED
  BY <1>2, <1>3 DEF WriteInv

LEMMA WriteStepKeeps == WriteInv /\ [WriteNext]_writeVars => WriteInv'
<1> SUFFICES ASSUME WriteInv, [WriteNext]_writeVars PROVE WriteInv'
  OBVIOUS
<1>1. ASSUME NEW r \in Request, AskPlain(r) \/ AskHeld(r) \/ AskRun(r) \/ RequestProgress(r) \/ Abort(r)
      PROVE  WriteInv'
  BY <1>1, AskSteps, LockStep, LookUpSteps, ModelSteps, WriteSteps, AbortStep DEF RequestProgress
<1>2. ASSUME NEW x \in Removal, AskExclusive(x) \/ RemovalProgress(x) PROVE WriteInv'
  BY <1>2, RemovalSteps DEF RemovalProgress
<1> QED
  BY <1>1, <1>2, ExpireStep, StutterStep DEF WriteNext

-----------------------------------------------------------------------------
(* A slot holds the answer of a request or none, and whoever goes on does   *)
(* so to a step that its kind of request or removal has.                    *)
THEOREM WriteTyped == WriteSpec => []WriteTypeOK
<1>1. WriteInv => WriteTypeOK
  BY DEF WriteInv
<1> QED
  BY <1>1, InitWrite, WriteStepKeeps, PTL DEF WriteSpec

(* Of two requests with one caller and Idempotency-Key both of which took   *)
(* effect, one commits its effect apart from its answer and has lost the    *)
(* answer: the records, the locks and the lookups of                        *)
(* platform/idempotency.py allow no other second effect.                    *)
THEOREM EffectsUnique == WriteSpec => []OneEffectPerKey
<1>1. WriteInv => OneEffectPerKey
  BY DEF WriteInv
<1> QED
  BY <1>1, InitWrite, WriteStepKeeps, PTL DEF WriteSpec

\* The steps that commit an effect follow a lookup; the others commit none.
LEMMA Effects ==
  ASSUME WriteInv, [WriteNext]_writeVars, NEW r \in performed' \ performed
  PROVE  /\ r \in Request /\ at[r] \in PastLookup
         /\ Kind[r] # "run" => allowed[By[r]]
         /\ allowed' = allowed
<1>1. CASE UNCHANGED writeVars
  BY <1>1 DEF writeVars
<1>2. ASSUME NEW k \in Slot, ExpireRecord(k) PROVE FALSE
  BY <1>2 DEF ExpireRecord
<1>3. ASSUME NEW x \in Removal, AskExclusive(x) \/ RemovalProgress(x) PROVE FALSE
  BY <1>3 DEF AskExclusive, RemovalProgress, TakeRole, GiveUp, Proceed
<1>4. ASSUME NEW p \in Request, Denied(p) \/ Replay(p) PROVE FALSE
  BY <1>4 DEF Denied, Replay, Proceed
<1>5. ASSUME NEW p \in Request, NEW s, Proceed(p, s) PROVE FALSE
  BY <1>5 DEF Proceed
<1>6. ASSUME NEW p \in Request, AskPlain(p) \/ AskHeld(p) \/ AskRun(p) \/ Abort(p) PROVE FALSE
  BY <1>4, <1>5, <1>6 DEF AskPlain, AskHeld, AskRun, Abort
<1>7. ASSUME NEW p \in Request,
             LockPlain(p) \/ LookUpPlain(p) \/ HoldKey(p) \/ LookUpInsight(p) \/ LookUpPrep(p) \/ LookUpRun(p)
      PROVE  FALSE
  BY <1>4, <1>5, <1>7 DEF LockPlain, LookUpPlain, HoldKey, LookUpInsight, LookUpPrep, LookUpRun
<1>8. ASSUME NEW p \in Request, ModelReturns(p) \/ PersistInsightRun(p) \/ StoreAnswer(p) PROVE FALSE
  BY <1>4, <1>5, <1>8 DEF ModelReturns, PersistInsightRun, StoreAnswer
<1>9. ASSUME NEW p \in Request, WriteAndStore(p) PROVE p = r /\ allowed' = allowed
  BY <1>5, <1>9 DEF WriteAndStore
<1>10. ASSUME NEW p \in Request, CommitPlain(p)
       PROVE  p = r /\ at[r] \in PastLookup /\ allowed[By[r]] /\ allowed' = allowed
  <2>1. p = r /\ at[r] = "working" /\ allowed' = allowed
    BY <1>9, <1>10 DEF CommitPlain
  <2>2. Kind[r] = "plain"
    BY <1>10, <2>1, KindsAndSlots DEF WriteInv, Steps, StepsOf, RequestEnd
  <2> QED
    BY <1>10, <2>1, <2>2 DEF WriteInv, Sharers, PastLookup
<1>11. ASSUME NEW p \in Request, InsertPrep(p)
       PROVE  p = r /\ at[r] \in PastLookup /\ allowed[By[r]] /\ allowed' = allowed
  BY <1>4, <1>9, <1>11 DEF InsertPrep, PastLookup
<1>12. ASSUME NEW p \in Request, InsertInsight(p)
       PROVE  p = r /\ at[r] \in PastLookup /\ allowed[By[r]] /\ allowed' = allowed
  BY <1>4, <1>12 DEF InsertInsight, PastLookup
<1>13. ASSUME NEW p \in Request, PersistRun(p)
       PROVE  p = r /\ at[r] \in PastLookup /\ Kind[r] = "run" /\ allowed' = allowed
  BY <1>13 DEF PersistRun, PastLookup
<1>14. r \in Request
  <2>1. WriteTypeOK'
    BY WriteStepKeeps DEF WriteInv
  <2> QED
    BY <2>1 DEF WriteTypeOK
<1>15. CASE WriteNext
  <2>1. PICK p \in Request : CommitPlain(p) \/ PersistRun(p) \/ InsertInsight(p) \/ InsertPrep(p)
    BY <1>2, <1>3, <1>6, <1>7, <1>8, <1>15 DEF WriteNext, RequestProgress
  <2> QED
    BY <1>10, <1>11, <1>12, <1>13, <1>14, <2>1
<1> QED
  BY <1>1, <1>15

(* No effect is committed while a live answer stands under its caller and   *)
(* key, however many transactions and model calls lie between the lookup    *)
(* and the write (held_idempotency_lock).                                   *)
THEOREM EffectsLookedUp == WriteSpec => NoEffectBehindAnAnswer
<1>1. ASSUME WriteInv, [WriteNext]_writeVars PROVE [\A r \in performed' \ performed : ~Live(r)]_writeVars
  BY <1>1, Effects DEF WriteInv, LookedUp
<1> QED
  BY <1>1, InitWrite, WriteStepKeeps, PTL DEF WriteSpec, NoEffectBehindAnAnswer

\* An answer that is not the request's own is given to a caller with the role.
LEMMA Replays ==
  ASSUME WriteInv, [WriteNext]_writeVars, NEW r \in Request, Kind[r] # "run", reply'[r] \notin {reply[r], r}
  PROVE  allowed[By[r]] /\ allowed' = allowed
<1>1. CASE UNCHANGED writeVars
  BY <1>1 DEF writeVars
<1>2. ASSUME NEW k \in Slot, ExpireRecord(k) PROVE FALSE
  BY <1>2 DEF ExpireRecord
<1>3. ASSUME NEW x \in Removal, AskExclusive(x) \/ RemovalProgress(x) PROVE FALSE
  BY <1>3 DEF AskExclusive, RemovalProgress, TakeRole, GiveUp, Proceed
<1>4. ASSUME NEW p \in Request, Denied(p) PROVE FALSE
  BY <1>4 DEF Denied, Proceed
<1>5. ASSUME NEW p \in Request, NEW s, Proceed(p, s) PROVE FALSE
  BY <1>5 DEF Proceed
<1>6. ASSUME NEW p \in Request, reply' = [reply EXCEPT ![p] = p] PROVE FALSE
  BY <1>6 DEF WriteInv, WriteTypeOK
<1>7. ASSUME NEW p \in Request, Replay(p) PROVE p = r /\ allowed' = allowed
  BY <1>7 DEF Replay, WriteInv, WriteTypeOK
<1>8. ASSUME NEW p \in Request, AskPlain(p) \/ AskHeld(p) \/ AskRun(p) \/ Abort(p) \/ LockPlain(p) PROVE FALSE
  BY <1>4, <1>5, <1>8 DEF AskPlain, AskHeld, AskRun, Abort, LockPlain
<1>9. ASSUME NEW p \in Request, ModelReturns(p) \/ PersistInsightRun(p) \/ PersistRun(p) \/ HoldKey(p) PROVE FALSE
  BY <1>4, <1>5, <1>9 DEF ModelReturns, PersistInsightRun, PersistRun, HoldKey
<1>10. ASSUME NEW p \in Request, WriteAndStore(p) PROVE FALSE
  BY <1>5, <1>6, <1>10 DEF WriteAndStore
<1>11. ASSUME NEW p \in Request, CommitPlain(p) \/ InsertInsight(p) \/ InsertPrep(p) \/ StoreAnswer(p) PROVE FALSE
  BY <1>4, <1>6, <1>10, <1>11 DEF CommitPlain, InsertInsight, InsertPrep, StoreAnswer
<1>12. ASSUME NEW p \in Request, LookUpPlain(p) PROVE p = r /\ allowed[By[r]] /\ allowed' = allowed
  BY <1>5, <1>7, <1>12 DEF LookUpPlain, WriteInv, Sharers
<1>13. ASSUME NEW p \in Request, LookUpInsight(p) \/ LookUpPrep(p)
       PROVE  p = r /\ allowed[By[r]] /\ allowed' = allowed
  BY <1>4, <1>5, <1>7, <1>13 DEF LookUpInsight, LookUpPrep
<1>14. ASSUME NEW p \in Request, LookUpRun(p) PROVE FALSE
  BY <1>4, <1>5, <1>7, <1>14 DEF LookUpRun
<1>15. CASE WriteNext
  <2>1. PICK p \in Request : LookUpPlain(p) \/ LookUpInsight(p) \/ LookUpPrep(p)
    BY <1>2, <1>3, <1>8, <1>9, <1>11, <1>14, <1>15 DEF WriteNext, RequestProgress
  <2> QED
    BY <1>12, <1>13, <2>1
<1> QED
  BY <1>1, <1>15

(* Apart from create_run, no request takes effect or is given an earlier    *)
(* answer once its caller's removal or demotion has committed: the shared   *)
(* and the exclusive membership lock (connector_security.py) exclude it.    *)
THEOREM EffectsAuthorizedUnderLock == WriteSpec => EffectWithAuthority
<1>1. ASSUME WriteInv, [WriteNext]_writeVars
      PROVE  [\A r \in Request :
                /\ Kind[r] # "run"
                /\ r \in performed' \ performed \/ reply'[r] \notin {reply[r], r}
                => allowed[By[r]] /\ allowed'[By[r]]]_writeVars
  <2> SUFFICES ASSUME NEW r \in Request, Kind[r] # "run",
                      r \in performed' \ performed \/ reply'[r] \notin {reply[r], r}
               PROVE  allowed[By[r]] /\ allowed'[By[r]]
    OBVIOUS
  <2> QED
    BY <1>1, Effects, Replays
<1> QED
  BY <1>1, InitWrite, WriteStepKeeps, PTL DEF WriteSpec, EffectWithAuthority
=============================================================================
