----------------------------- MODULE RecordsProofs -----------------------------
(***************************************************************************)
(* What is kept of a provider's items and of the graph of entities -- for  *)
(* any number of items, pages to a call, runs, entities, relationships,    *)
(* requests and merges.                                                    *)
(*                                                                         *)
(* The strengthening for a sync (SyncInv): the provider's pages are dense  *)
(* and in the order of their updates; the run in flight started from the   *)
(* cursors that stand (Attached); all it has left behind, up to the        *)
(* watermark it would record, is in its rows or in its hands (Gathered);   *)
(* and an item that changed in its hands is newer than that (Outdated).    *)
(* That for the entities (EntityInv): the entities of a merge in flight    *)
(* are not redirected, and no other merge's (MergesApart).                 *)
(*                                                                         *)
(* The components share no state.  The theorems hold of each alone, and so *)
(* (Composition) of the two together, as the run checks them.              *)
(***************************************************************************)
EXTENDS MCRecords, TLAPS

\* The provider's pages: one item to a page, none left out, the latest first.
Dense == \A j \in Item : \A n \in 1 .. onPage[j] : \E i \in Item : onPage[i] = n
OneToAPage == \A i, j \in Item : Listed(i) /\ onPage[i] = onPage[j] => i = j
LatestFirst == \A i, j \in Item : Listed(i) /\ onPage[i] < onPage[j] => updatedAt[j] <= updatedAt[i]
Dated ==
  /\ clock # 0
  /\ \A i \in Item : (Listed(i) <=> updatedAt[i] # 0) /\ updatedAt[i] <= clock

Provider == Dense /\ OneToAPage /\ LatestFirst /\ Dated

\* What a walk fetched is not later than the item, and is written before it ends well.
HandsOf(w) ==
  /\ w.fetched # NothingFetched =>
       /\ w.fetched.at <= clock
       /\ Listed(w.fetched.item) => w.fetched.at <= updatedAt[w.fetched.item]
  /\ w.phase \in {"partial", "succeeded"} => w.fetched = NothingFetched
Hands == \A p \in SyncRun : walk[p] # NoWalk => HandsOf(walk[p])

\* The run that may record its outcome started from the cursors that stand.
AttachedTo(w) ==
  /\ w # NoWalk
  /\ w.page # 0
  /\ w.backfill => w.since = 0 /\ (w.resumed <=> resumeAt # 0)
  /\ ~w.backfill => w.since = watermark /\ ~w.resumed
  /\ w.since <= w.newest
  /\ w.resumed => resumeAt <= w.page
  /\ w.page = 1 /\ ~w.resumed => w.newest = w.since
Attached == running \in SyncRun => AttachedTo(walk[running])

\* The watermark it would leave, and the items it will not come to any more.
Reach(w) == IF w.resumed THEN watermark ELSE w.newest
LeftBehind(w, i) ==
  \/ onPage[i] < w.page
  \/ /\ ~w.more \/ w.phase = "succeeded"
     /\ w.backfill \/ resumeAt = 0 \/ onPage[i] < resumeAt
GatheredBy(w) ==
  w.phase # "failed" =>
    \A i \in Item \ exposed :
      Listed(i) /\ updatedAt[i] <= Reach(w) /\ LeftBehind(w, i) =>
        synced[i] = updatedAt[i] \/ w.fetched = [item |-> i, at |-> updatedAt[i]]
Gathered == running \in SyncRun => GatheredBy(walk[running])

\* An item that changed while the run had it in its hands.
OutdatedIn(w) ==
  w.fetched # NothingFetched /\ Listed(w.fetched.item)
    /\ w.fetched.item \notin exposed /\ updatedAt[w.fetched.item] # w.fetched.at
  => Reach(w) < updatedAt[w.fetched.item] /\ watermark < updatedAt[w.fetched.item]
Outdated == running \in SyncRun => OutdatedIn(walk[running])

SyncInv ==
  /\ SyncTypeOK
  /\ Provider
  /\ Hands
  /\ Attached
  /\ Gathered
  /\ Outdated
  /\ Covered

-----------------------------------------------------------------------------
LEMMA ConstantsTyped ==
  /\ MaxPages \in Nat /\ MaxPages # 0 /\ MaxClock \in Nat /\ MaxClock # 0 /\ MaxTrouble \in Nat
  /\ NoRun \notin SyncRun /\ Lost \notin SyncRun /\ Lost # NoRun
  /\ \A t \in Time : t \in Nat
BY SyncAssumption DEF Time

\* The fields of a walk, and that it is not the absence of one.
LEMMA WalkFields ==
  ASSUME NEW w \in Walk
  PROVE  /\ w.phase \in {"walking", "partial", "succeeded", "failed"}
         /\ w.backfill \in BOOLEAN /\ w.resumed \in BOOLEAN /\ w.more \in BOOLEAN
         /\ w.since \in Time /\ w.newest \in Time /\ w.page \in Nat /\ w.pages \in 0 .. MaxPages
         /\ w.fetched \in [item : Item, at : Time] \cup {NothingFetched}
         /\ w # NoWalk
BY DEF Walk, NoWalk

LEMMA NoWalkPhase == NoWalk.phase = "none" /\ NoWalk \notin Walk
BY DEF NoWalk, Walk

LEMMA FetchedSomething ==
  ASSUME NEW i \in Item, NEW t \in Time
  PROVE  [item |-> i, at |-> t] # NothingFetched
BY DEF NothingFetched

\* A process that walks or has finished holds a walk.
LEMMA WalksOf ==
  ASSUME SyncTypeOK, NEW p \in SyncRun
  PROVE  /\ walk[p] \in Walk \cup {NoWalk}
         /\ walk[p] # NoWalk => walk[p] \in Walk
         /\ Walking(p) \/ Finished(p) => walk[p] \in Walk
BY NoWalkPhase DEF SyncTypeOK, Walking, Finished

LEMMA LaterOf ==
  ASSUME NEW a \in Time, NEW b \in Time
  PROVE  /\ Later(a, b) \in Time /\ a <= Later(a, b) /\ b <= Later(a, b)
         /\ Later(a, b) \in {a, b}
BY ConstantsTyped DEF Later

-----------------------------------------------------------------------------
\* Another walk, or the same one, goes on.
LEMMA WalkOnTyped ==
  ASSUME SyncTypeOK, NEW p \in SyncRun, NEW w \in Walk, walk' = [walk EXCEPT ![p] = w],
         UNCHANGED <<providerVars, account, watermark, resumeAt, running, troubles>>,
         synced' \in [Item -> Time], exposed' \subseteq Item
  PROVE  SyncTypeOK'
BY DEF SyncTypeOK, providerVars


\* What each change of a walk leaves as it was.
Same(v, w) == v.backfill = w.backfill /\ v.since = w.since /\ v.resumed = w.resumed

LEMMA WalkConcludes ==
  ASSUME NEW w \in Walk, NEW ph \in {"partial", "succeeded", "failed"}, NEW v, v = [w EXCEPT !.phase = ph]
  PROVE  /\ v \in Walk /\ Same(v, w) /\ v.phase = ph
         /\ v.page = w.page /\ v.more = w.more /\ v.newest = w.newest /\ v.fetched = w.fetched
BY Zenon DEF Walk, Same

LEMMA WalkHandsOver ==
  ASSUME NEW w \in Walk, NEW v, v = [w EXCEPT !.fetched = NothingFetched]
  PROVE  /\ v \in Walk /\ Same(v, w) /\ v.phase = w.phase
         /\ v.page = w.page /\ v.more = w.more /\ v.newest = w.newest /\ v.fetched = NothingFetched
BY Zenon DEF Walk, Same

WithPage(w, i, t, more, u) ==
  [w EXCEPT !.page = w.page + 1, !.pages = w.pages + 1, !.more = more, !.newest = u,
            !.fetched = [item |-> i, at |-> t]]

LEMMA WalkFetches ==
  ASSUME NEW w \in Walk, NEW i \in Item, NEW t \in Time, NEW more \in BOOLEAN, NEW u \in Time,
         w.pages < MaxPages, NEW v, v = WithPage(w, i, t, more, u)
  PROVE  /\ v \in Walk /\ Same(v, w) /\ v.phase = w.phase
         /\ v.page = w.page + 1 /\ v.more = more /\ v.newest = u /\ v.fetched = [item |-> i, at |-> t]
<1> DEFINE f == [item |-> i, at |-> t]
           w1 == [w EXCEPT !.page = w.page + 1]
           w2 == [w1 EXCEPT !.pages = w.pages + 1]
           w3 == [w2 EXCEPT !.more = more]
           w4 == [w3 EXCEPT !.newest = u]
           w5 == [w4 EXCEPT !.fetched = f]
<1>1. w.page + 1 \in Nat /\ w.pages + 1 \in 0 .. MaxPages
  BY WalkFields, ConstantsTyped
<1>2. f \in [item : Item, at : Time]
  OBVIOUS
<1> HIDE DEF f
<1>3. w1 \in Walk /\ Same(w1, w) /\ w1.phase = w.phase /\ w1.page = w.page + 1
  BY <1>1, Zenon DEF Walk, Same
<1> HIDE DEF w1
<1>4. w2 \in Walk /\ Same(w2, w1) /\ w2.phase = w1.phase /\ w2.page = w1.page
  BY <1>1, <1>3, Zenon DEF Walk, Same
<1> HIDE DEF w2
<1>5. w3 \in Walk /\ Same(w3, w2) /\ w3.phase = w2.phase /\ w3.page = w2.page /\ w3.more = more
  BY <1>4, Zenon DEF Walk, Same
<1> HIDE DEF w3
<1>6. w4 \in Walk /\ Same(w4, w3) /\ w4.phase = w3.phase /\ w4.page = w3.page /\ w4.more = w3.more /\ w4.newest = u
  BY <1>5, Zenon DEF Walk, Same
<1> HIDE DEF w4
<1>7. /\ w5 \in Walk /\ Same(w5, w4) /\ w5.phase = w4.phase /\ w5.page = w4.page /\ w5.more = w4.more
      /\ w5.newest = w4.newest /\ w5.fetched = f
  BY <1>6, <1>2, Zenon DEF Walk, Same
<1>8. v = w5
  BY DEF w5, w4, w3, w2, w1, f, WithPage
<1> HIDE DEF w5
<1> QED
  BY <1>3, <1>4, <1>5, <1>6, <1>7, <1>8 DEF Same, f

-----------------------------------------------------------------------------
\* The provider's pages, through a step that does not change its items.
LEMMA ProviderFrame == ASSUME Provider, UNCHANGED providerVars PROVE Provider'
BY DEF Provider, Dense, OneToAPage, LatestFirst, Dated, Listed, providerVars

\* What an update does to the pages.
LEMMA UpdatePages ==
  ASSUME SyncTypeOK, NEW i \in Item, Update(i)
  PROVE  /\ onPage' \in [Item -> Nat]
         /\ onPage'[i] = 1 /\ updatedAt'[i] = clock
         /\ \A j \in Item \ {i} :
              /\ updatedAt'[j] = updatedAt[j]
              /\ Listed(j) /\ (Listed(i) => onPage[j] < onPage[i]) => onPage'[j] = onPage[j] + 1
              /\ ~(Listed(j) /\ (Listed(i) => onPage[j] < onPage[i])) => onPage'[j] = onPage[j]
BY DEF SyncTypeOK, Update, Listed

\* An updated item is listed before all others, in no time later than now.
LEMMA UpdateProvider == ASSUME SyncTypeOK, Provider, NEW i \in Item, Update(i) PROVE Provider'
<1> USE UpdatePages DEF SyncTypeOK
<1>1. clock' = clock /\ clock \in Nat
  BY ConstantsTyped DEF Update
<1>2. Dense'
  <2> SUFFICES ASSUME NEW j \in Item, NEW n \in 1 .. onPage'[j]
               PROVE  \E k \in Item : onPage'[k] = n
    BY DEF Dense
  <2>1. CASE n = 1
    BY <2>1
  <2>2. CASE n # 1
    <3>1. j # i /\ n - 1 \in 1 .. onPage[j]
      <4>1. j # i /\ onPage'[j] \in {onPage[j], onPage[j] + 1} /\ n \in 2 .. onPage'[j]
        BY <2>2
      <4>2. onPage[j] \in Nat
        OBVIOUS
      <4> QED
        BY <4>1, <4>2, SMT
    <3>2. PICK k \in Item : onPage[k] = n - 1
      BY <3>1 DEF Provider, Dense
    <3>3. CASE k # i /\ (Listed(i) => onPage[k] < onPage[i])
      BY <3>1, <3>2, <3>3 DEF Listed
    <3>4. CASE Listed(i) /\ onPage[i] <= onPage[k]
      <4>1. n \in 1 .. onPage[j] /\ onPage[i] < n
        BY <3>1, <3>2, <3>4 DEF Listed
      <4>2. PICK l \in Item : onPage[l] = n
        BY <4>1 DEF Provider, Dense
      <4> QED
        BY <4>1, <4>2, <3>4 DEF Listed
    <3> QED
      BY <3>1, <3>2, <3>3, <3>4 DEF Listed
  <2> QED
    BY <2>1, <2>2
<1>3. OneToAPage'
  <2> SUFFICES ASSUME NEW j \in Item, NEW k \in Item, onPage'[j] # 0, onPage'[j] = onPage'[k]
               PROVE  j = k
    BY DEF OneToAPage, Listed
  <2>1. CASE j # i /\ k # i
    BY <2>1 DEF Provider, OneToAPage, Listed
  <2>2. ASSUME NEW m \in Item, m # i PROVE onPage'[m] # 1
    <3>1. CASE Listed(m) /\ (Listed(i) => onPage[m] < onPage[i])
      BY <2>2, <3>1 DEF Listed
    <3>2. CASE Listed(i) /\ ~(onPage[m] < onPage[i])
      BY <2>2, <3>2 DEF Provider, OneToAPage, Listed
    <3> QED
      BY <2>2, <3>1, <3>2 DEF Listed
  <2> QED
    BY <2>1, <2>2
<1>4. LatestFirst'
  <2> SUFFICES ASSUME NEW j \in Item, NEW k \in Item, onPage'[j] # 0, onPage'[j] < onPage'[k]
               PROVE  updatedAt'[k] <= updatedAt'[j]
    BY DEF LatestFirst, Listed
  <2>1. CASE j # i /\ k # i
    BY <2>1 DEF Provider, LatestFirst, Listed
  <2> QED
    BY <2>1, ConstantsTyped DEF Provider, Dated, Listed
<1>5. Dated'
  BY <1>1, ConstantsTyped DEF Provider, Dated, Listed
<1> QED
  BY <1>2, <1>3, <1>4, <1>5 DEF Provider

\* What a deletion does to the pages.
LEMMA DeletePages ==
  ASSUME SyncTypeOK, NEW i \in Item, Delete(i)
  PROVE  /\ onPage' \in [Item -> Nat]
         /\ onPage[i] # 0 /\ onPage'[i] = 0 /\ updatedAt'[i] = 0
         /\ \A j \in Item \ {i} :
              /\ updatedAt'[j] = updatedAt[j]
              /\ onPage[j] > onPage[i] => onPage'[j] = onPage[j] - 1
              /\ ~(onPage[j] > onPage[i]) => onPage'[j] = onPage[j]
<1>1. \A j \in Item : onPage[j] > onPage[i] => onPage[j] - 1 \in Nat
  BY DEF SyncTypeOK
<1> QED
  BY <1>1 DEF SyncTypeOK, Delete, Listed

\* The items behind a deleted one close the gap it leaves.
LEMMA DeleteProvider == ASSUME SyncTypeOK, Provider, NEW i \in Item, Delete(i) PROVE Provider'
<1> USE DeletePages DEF SyncTypeOK
<1>1. clock' = clock /\ clock \in Nat
  BY ConstantsTyped DEF Delete
<1>2. Dense'
  <2> SUFFICES ASSUME NEW j \in Item, NEW n \in 1 .. onPage'[j]
               PROVE  \E k \in Item : onPage'[k] = n
    BY DEF Dense
  <2>1. j # i /\ n \in 1 .. onPage[j]
    OBVIOUS
  <2>2. CASE n < onPage[i]
    <3>1. PICK k \in Item : onPage[k] = n
      BY <2>1 DEF Provider, Dense
    <3> QED
      BY <3>1, <2>2
  <2>3. CASE n >= onPage[i]
    <3>1. n + 1 \in 1 .. onPage[j]
      <4>1. onPage[j] > onPage[i]
        BY <2>1, <2>3 DEF Provider, OneToAPage, Listed
      <4> QED
        BY <4>1, <2>1
    <3>2. PICK k \in Item : onPage[k] = n + 1
      BY <3>1 DEF Provider, Dense
    <3> QED
      BY <3>2, <2>3
  <2> QED
    BY <2>2, <2>3
<1>3. OneToAPage'
  <2> SUFFICES ASSUME NEW j \in Item, NEW k \in Item, onPage'[j] # 0, onPage'[j] = onPage'[k]
               PROVE  j = k
    BY DEF OneToAPage, Listed
  <2>1. j # i /\ k # i
    OBVIOUS
  <2>2. onPage[j] # onPage[i] /\ onPage[k] # onPage[i]
    BY <2>1 DEF Provider, OneToAPage, Listed
  <2> QED
    BY <2>1, <2>2 DEF Provider, OneToAPage, Listed
<1>4. LatestFirst'
  <2> SUFFICES ASSUME NEW j \in Item, NEW k \in Item, onPage'[j] # 0, onPage'[j] < onPage'[k]
               PROVE  updatedAt'[k] <= updatedAt'[j]
    BY DEF LatestFirst, Listed
  <2>1. j # i /\ k # i
    OBVIOUS
  <2> QED
    BY <2>1 DEF Provider, LatestFirst, Listed
<1>5. Dated'
  BY <1>1, ConstantsTyped DEF Provider, Dated, Listed
<1> QED
  BY <1>2, <1>3, <1>4, <1>5 DEF Provider

-----------------------------------------------------------------------------
LEMMA InitSync == SyncInit => SyncInv
<1> SUFFICES ASSUME SyncInit PROVE SyncInv
  OBVIOUS
<1>1. SyncTypeOK
  BY ConstantsTyped DEF SyncInit, SyncTypeOK, Time
<1>2. Provider
  BY DEF SyncInit, Provider, Dense, OneToAPage, LatestFirst, Dated, Listed
<1>3. Hands /\ Attached /\ Gathered /\ Outdated
  BY ConstantsTyped DEF SyncInit, Hands, Attached, Gathered, Outdated
<1>4. Covered
  BY DEF SyncInit, Covered, Listed
<1> QED
  BY <1>1, <1>2, <1>3, <1>4 DEF SyncInv

\* Nothing is later than before: what is gathered stays so.
LEMMA TickStep == ASSUME SyncInv, Tick PROVE SyncInv'
<1> USE DEF SyncInv
<1>1. /\ clock' = clock + 1 /\ clock' \in Time /\ clock \in Nat
      /\ UNCHANGED <<onPage, updatedAt, synced, account, watermark, resumeAt, running, walk, exposed, troubles>>
  BY ConstantsTyped DEF Tick, SyncTypeOK, Time
<1>2. SyncTypeOK'
  BY <1>1 DEF SyncTypeOK
<1>3. Provider'
  <2>1. Dense' /\ OneToAPage' /\ LatestFirst'
    BY <1>1 DEF Provider, Dense, OneToAPage, LatestFirst, Listed
  <2>2. \A i \in Item : updatedAt[i] \in Nat
    BY ConstantsTyped DEF SyncTypeOK
  <2> QED
    BY <1>1, <2>1, <2>2 DEF Provider, Dated, Listed
<1>4. Hands'
  <2> SUFFICES ASSUME NEW p \in SyncRun, walk[p] # NoWalk PROVE HandsOf(walk[p])'
    BY <1>1 DEF Hands
  <2>1. HandsOf(walk[p]) /\ walk[p] \in Walk
    BY WalksOf DEF Hands
  <2>2. walk[p].fetched # NothingFetched => walk[p].fetched.at \in Nat
    BY <2>1, WalkFields, ConstantsTyped
  <2> QED
    BY <1>1, <2>1, <2>2 DEF HandsOf, Listed
<1>5. Attached' /\ Gathered' /\ Outdated' /\ Covered'
  BY <1>1 DEF Attached, AttachedTo, Gathered, GatheredBy, Reach, LeftBehind, Outdated, OutdatedIn, Covered, Listed
<1> QED
  BY <1>2, <1>3, <1>4, <1>5

\* The updated item is later than what any walk may record, or exposed.
LEMMA UpdateStep == ASSUME SyncInv, NEW i \in Item, Update(i) PROVE SyncInv'
<1> USE DEF SyncInv
<1>1. UNCHANGED <<clock, synced, account, watermark, resumeAt, running, walk, troubles>>
  BY DEF Update
<1>2. /\ onPage' \in [Item -> Nat] /\ onPage \in [Item -> Nat]
      /\ onPage'[i] = 1 /\ updatedAt'[i] = clock
      /\ \A j \in Item \ {i} :
           updatedAt'[j] = updatedAt[j] /\ (Listed(j)' <=> Listed(j)) /\ onPage[j] <= onPage'[j]
      /\ \A j \in Item \ {i} : j \in exposed' <=> j \in exposed
  BY UpdatePages DEF SyncTypeOK, Listed, Update
<1>3. SyncTypeOK'
  <2>1. updatedAt' \in [Item -> Time]
    BY DEF SyncTypeOK, Update
  <2> QED
    BY <1>1, <1>2, <2>1 DEF SyncTypeOK, Update
<1>4. Provider'
  BY UpdateProvider
\* An item that changes in a second that was seen is exposed.
<1>5. i \notin exposed' => watermark < clock /\ (running \in SyncRun => Reach(walk[running]) < clock)
  <2>1. running \in SyncRun => walk[running] \in Walk
    BY WalksOf DEF Attached, AttachedTo
  <2>2. i \notin exposed' => \A t \in Approached : ~(clock <= t)
    BY DEF Update
  <2>3. watermark \in Approached /\ (running \in SyncRun => Reach(walk[running]) \in Approached)
    BY <2>1 DEF Approached, Recording, Reach
  <2>4. watermark \in Nat /\ clock \in Nat /\ (running \in SyncRun => Reach(walk[running]) \in Nat)
    BY <2>1, WalkFields, ConstantsTyped DEF SyncTypeOK, Reach
  <2> QED
    BY <2>2, <2>3, <2>4
<1>6. Hands'
  <2> SUFFICES ASSUME NEW p \in SyncRun, walk[p] # NoWalk PROVE HandsOf(walk[p])'
    BY <1>1 DEF Hands
  <2>1. HandsOf(walk[p]) /\ walk[p] \in Walk
    BY WalksOf DEF Hands
  <2>2. walk[p].fetched # NothingFetched => walk[p].fetched.item \in Item
    BY <2>1, WalkFields
  <2> QED
    BY <1>1, <1>2, <2>1, <2>2 DEF HandsOf
<1>7. Attached'
  BY <1>1 DEF Attached, AttachedTo
<1>8. running \in SyncRun => walk[running] \in Walk
  BY WalksOf DEF Attached, AttachedTo
<1>9. Gathered'
  <2> SUFFICES ASSUME running \in SyncRun, GatheredBy(walk[running]), walk[running] \in Walk
               PROVE  GatheredBy(walk[running])'
    BY <1>1, <1>8 DEF Gathered
  <2> DEFINE w == walk[running]
  <2>1. w.page \in Nat /\ Reach(w) \in {watermark, w.newest} /\ w.newest \in Nat /\ watermark \in Nat /\ clock \in Nat
        /\ resumeAt \in Nat
    BY WalkFields, ConstantsTyped DEF Reach, SyncTypeOK
  <2>2. ASSUME NEW j \in Item \ {i}, LeftBehind(w, j)' PROVE LeftBehind(w, j)
    BY <1>1, <1>2, <2>1, <2>2 DEF LeftBehind
  <2>3. i \notin exposed' => ~(updatedAt'[i] <= Reach(w)')
    BY <1>1, <1>2, <1>5, <2>1 DEF Reach
  <2> QED
    BY <1>1, <1>2, <2>2, <2>3 DEF GatheredBy, Reach
<1>10. Outdated'
  <2> SUFFICES ASSUME running \in SyncRun, OutdatedIn(walk[running]), walk[running] \in Walk
               PROVE  OutdatedIn(walk[running])'
    BY <1>1, <1>8 DEF Outdated
  <2>1. walk[running].fetched # NothingFetched => walk[running].fetched.item \in Item
    BY WalkFields
  <2> QED
    BY <1>1, <1>2, <1>5, <2>1 DEF OutdatedIn, Reach
<1>11. Covered'
  <2>1. i \notin exposed' => ~(updatedAt'[i] <= watermark')
    BY <1>1, <1>2, <1>5, ConstantsTyped DEF SyncTypeOK
  <2>2. resumeAt \in Nat
    BY DEF SyncTypeOK
  <2> QED
    BY <1>1, <1>2, <2>1, <2>2 DEF Covered
<1> QED
  BY <1>3, <1>4, <1>6, <1>7, <1>9, <1>10, <1>11

\* What moves off a page that is still to be asked for is exposed.
LEMMA DeleteStep == ASSUME SyncInv, NEW i \in Item, Delete(i) PROVE SyncInv'
<1> USE DEF SyncInv
<1>1. UNCHANGED <<clock, synced, account, watermark, resumeAt, running, walk>>
  BY DEF Delete
<1>2. /\ onPage' \in [Item -> Nat] /\ onPage \in [Item -> Nat]
      /\ onPage'[i] = 0 /\ ~Listed(i)'
      /\ \A j \in Item \ {i} :
           /\ updatedAt'[j] = updatedAt[j]
           /\ onPage[j] > onPage[i] => onPage'[j] = onPage[j] - 1
           /\ ~(onPage[j] > onPage[i]) => onPage'[j] = onPage[j]
           /\ Listed(j)' => Listed(j)
      /\ exposed' = exposed \cup {j \in Item : onPage[j] > onPage[i] /\ onPage[j] \in PagesAhead}
  BY DeletePages DEF SyncTypeOK, Listed, Delete
<1>3. SyncTypeOK'
  <2>1. updatedAt' \in [Item -> Time] /\ troubles' \in 0 .. MaxTrouble
    BY ConstantsTyped DEF SyncTypeOK, Delete, Trouble, Time
  <2> QED
    BY <1>1, <1>2, <2>1 DEF SyncTypeOK
<1>4. Provider'
  BY DeleteProvider
<1>5. Hands'
  <2> SUFFICES ASSUME NEW p \in SyncRun, walk[p] # NoWalk PROVE HandsOf(walk[p])'
    BY <1>1 DEF Hands
  <2>1. HandsOf(walk[p]) /\ walk[p] \in Walk
    BY WalksOf DEF Hands
  <2>2. walk[p].fetched # NothingFetched => walk[p].fetched.item \in Item
    BY <2>1, WalkFields
  <2> QED
    BY <1>1, <1>2, <2>1, <2>2 DEF HandsOf
<1>6. Attached'
  BY <1>1 DEF Attached, AttachedTo
<1>7. running \in SyncRun => walk[running] \in Walk
  BY WalksOf DEF Attached, AttachedTo
\* An item that moves up from a page to be asked for is exposed.
<1>8. ASSUME NEW j \in Item \ exposed', Listed(j)', NEW n \in PagesAhead, n \in Nat, onPage'[j] < n
      PROVE  onPage[j] < n
  BY <1>2, <1>8
<1>9. resumeAt \in PagesAhead /\ resumeAt \in Nat
  BY DEF PagesAhead, SyncTypeOK
<1>10. Gathered'
  <2> SUFFICES ASSUME running \in SyncRun, GatheredBy(walk[running]), walk[running] \in Walk
               PROVE  GatheredBy(walk[running])'
    BY <1>1, <1>7 DEF Gathered
  <2> DEFINE w == walk[running]
  <2>1. w.page \in PagesAhead /\ w.page \in Nat
    BY WalkFields DEF PagesAhead, Recording
  <2>2. ASSUME NEW j \in Item \ exposed', Listed(j)', LeftBehind(w, j)' PROVE LeftBehind(w, j)
    BY <1>1, <1>8, <1>9, <2>1, <2>2 DEF LeftBehind
  <2> QED
    BY <1>1, <1>2, <2>2 DEF GatheredBy, Reach
<1>11. Outdated'
  <2> SUFFICES ASSUME running \in SyncRun, OutdatedIn(walk[running]), walk[running] \in Walk
               PROVE  OutdatedIn(walk[running])'
    BY <1>1, <1>7 DEF Outdated
  <2>1. walk[running].fetched # NothingFetched => walk[running].fetched.item \in Item
    BY WalkFields
  <2> QED
    BY <1>1, <1>2, <2>1 DEF OutdatedIn, Reach
<1>12. Covered'
  <2> SUFFICES ASSUME NEW j \in Item \ exposed', Listed(j)', updatedAt'[j] <= watermark,
                      resumeAt = 0 \/ onPage'[j] < resumeAt
               PROVE  synced[j] = updatedAt'[j]
    BY <1>1 DEF Covered
  <2>1. resumeAt = 0 \/ onPage[j] < resumeAt
    BY <1>8, <1>9
  <2> QED
    BY <1>2, <2>1 DEF Covered
<1> QED
  BY <1>3, <1>4, <1>5, <1>6, <1>10, <1>11, <1>12

-----------------------------------------------------------------------------
\* A run starts from the cursors that stand, with nothing left behind that they do not cover.
LEMMA BeginStep ==
  ASSUME SyncInv, SyncTypeOK', NEW p \in SyncRun, NEW backfill \in BOOLEAN, Begin(p, backfill)
  PROVE  SyncInv'
<1> USE DEF SyncInv
<1> DEFINE since == IF backfill THEN 0 ELSE watermark
           resumed == backfill /\ resumeAt # 0
           page == IF backfill /\ resumeAt # 0 THEN resumeAt ELSE 1
           started == [phase |-> "walking", backfill |-> backfill, since |-> since, resumed |-> resumed, page |-> page,
                       pages |-> 0, more |-> TRUE, newest |-> since, fetched |-> NothingFetched]
<1>1. /\ UNCHANGED <<onPage, updatedAt, clock, synced, account, watermark, resumeAt, exposed>>
      /\ running' = p /\ walk' = [walk EXCEPT ![p] = started]
  BY DEF Begin, StartCursor, providerVars
<1> PICK w : w = started
  OBVIOUS
<1>2. walk'[p] = w /\ \A q \in SyncRun : q # p => walk'[q] = walk[q]
  BY <1>1 DEF SyncTypeOK
<1>3. /\ w.phase = "walking" /\ w.backfill = backfill /\ w.since = since /\ w.resumed = resumed /\ w.page = page
      /\ w.more /\ w.newest = since /\ w.fetched = NothingFetched /\ w # NoWalk
  BY DEF NoWalk
<1>4. watermark \in Nat /\ resumeAt \in Nat /\ onPage \in [Item -> Nat]
  BY ConstantsTyped DEF SyncTypeOK
<1> HIDE DEF started
<1>5. Provider' /\ Covered'
  BY <1>1, ProviderFrame DEF providerVars, Covered, Listed
<1>6. Hands'
  <2>1. HandsOf(w)'
    BY <1>3 DEF HandsOf
  <2>2. \A q \in SyncRun : HandsOf(walk[q]) /\ walk'[q] = walk[q] => HandsOf(walk[q])'
    BY <1>1 DEF HandsOf, Listed
  <2> QED
    BY <1>2, <2>1, <2>2 DEF Hands
<1>7. Attached'
  <2>1. running' = p /\ walk'[p] = w /\ watermark' = watermark /\ resumeAt' = resumeAt
    BY <1>1, <1>2
  <2>2. CASE backfill /\ resumeAt # 0
    <3>1. w.backfill /\ w.resumed /\ w.since = 0 /\ w.newest = 0 /\ w.page = resumeAt /\ w # NoWalk
      BY <1>3, <2>2, Zenon
    <3> QED
      BY <1>4, <2>1, <2>2, <3>1 DEF Attached, AttachedTo
  <2>3. CASE backfill /\ resumeAt = 0
    <3>1. w.backfill /\ ~w.resumed /\ w.since = 0 /\ w.newest = 0 /\ w.page = 1 /\ w # NoWalk
      BY <1>3, <2>3, Zenon
    <3> QED
      BY <1>4, <2>1, <2>3, <3>1 DEF Attached, AttachedTo
  <2>4. CASE ~backfill
    <3>1. ~w.backfill /\ ~w.resumed /\ w.since = watermark /\ w.newest = watermark /\ w.page = 1 /\ w # NoWalk
      BY <1>3, <2>4, Zenon
    <3> QED
      BY <1>4, <2>1, <3>1 DEF Attached, AttachedTo
  <2> QED
    BY <2>2, <2>3, <2>4
<1>8. \A i \in Item \ exposed : Listed(i) /\ updatedAt[i] <= Reach(w)' /\ LeftBehind(w, i)' => synced[i] = updatedAt[i]
  <2> SUFFICES ASSUME NEW i \in Item \ exposed, Listed(i), updatedAt[i] <= Reach(w)', LeftBehind(w, i)'
               PROVE  synced[i] = updatedAt[i]
    OBVIOUS
  <2>1. onPage[i] < page /\ onPage[i] # 0
    BY <1>1, <1>3 DEF LeftBehind, Listed
  <2>2. resumed /\ page = resumeAt
    BY <1>4, <2>1
  <2> QED
    BY <1>1, <1>3, <2>1, <2>2 DEF Reach, Covered
<1>9. Gathered'
  BY <1>1, <1>2, <1>8 DEF Gathered, GatheredBy, Listed
<1>10. Outdated'
  BY <1>1, <1>2, <1>3 DEF Outdated, OutdatedIn
<1> QED
  BY <1>5, <1>6, <1>7, <1>9, <1>10

LEMMA BeginTyped ==
  ASSUME SyncInv, NEW p \in SyncRun, NEW backfill \in BOOLEAN, BeginFirst(p, backfill) \/ BeginAfterReaping(p, backfill)
  PROVE  SyncTypeOK' /\ Begin(p, backfill)
<1> DEFINE since == IF backfill THEN 0 ELSE watermark
           resumed == backfill /\ resumeAt # 0
           page == IF backfill /\ resumeAt # 0 THEN resumeAt ELSE 1
           w == [phase |-> "walking", backfill |-> backfill, since |-> since, resumed |-> resumed, page |-> page,
                 pages |-> 0, more |-> TRUE, newest |-> since, fetched |-> NothingFetched]
<1>1. Begin(p, backfill) /\ troubles' \in 0 .. MaxTrouble
  BY ConstantsTyped DEF BeginFirst, BeginAfterReaping, Trouble, SyncInv, SyncTypeOK
<1>2. SyncTypeOK /\ since \in Time /\ resumed \in BOOLEAN /\ page \in Nat /\ 0 \in 0 .. MaxPages
  BY ConstantsTyped DEF SyncInv, SyncTypeOK, Time
<1>3. w \in Walk
  BY <1>2 DEF Walk
<1>4. walk' = [walk EXCEPT ![p] = w] /\ running' = p
      /\ UNCHANGED <<onPage, updatedAt, clock, synced, account, watermark, resumeAt, exposed>>
  BY <1>1 DEF Begin, StartCursor, providerVars
<1> HIDE DEF w
<1> QED
  BY <1>1, <1>2, <1>3, <1>4 DEF SyncTypeOK

-----------------------------------------------------------------------------
\* A walk is concluded; if it succeeded, with all in its rows that the watermark it leaves covers.
LEMMA ConcludeStep ==
  ASSUME SyncInv, NEW p \in SyncRun, Walking(p), NEW ph \in {"partial", "succeeded", "failed"}, Conclude(p, ph),
         ph # "failed" => walk[p].fetched = NothingFetched,
         ph = "succeeded" /\ running = p =>
           \A i \in Item \ exposed :
             /\ Listed(i) /\ updatedAt[i] <= Reach(walk[p])
             /\ walk[p].backfill \/ resumeAt = 0 \/ onPage[i] < resumeAt
             => synced[i] = updatedAt[i]
  PROVE  SyncInv'
<1> USE DEF SyncInv
<1>1. walk[p] \in Walk
  BY WalksOf
<1> PICK w \in Walk : w = walk[p]
  BY <1>1
<1> PICK v : v = [w EXCEPT !.phase = ph]
  OBVIOUS
<1>2. /\ v \in Walk /\ v # NoWalk /\ Same(v, w) /\ v.phase = ph
      /\ v.page = w.page /\ v.more = w.more /\ v.newest = w.newest /\ v.fetched = w.fetched
  BY WalkConcludes, WalkFields
<1>3. /\ UNCHANGED <<onPage, updatedAt, clock, account, watermark, resumeAt, running, troubles, synced, exposed>>
      /\ walk' = [walk EXCEPT ![p] = v]
  BY DEF Conclude, WalkOn, providerVars
<1>4. walk'[p] = v /\ \A q \in SyncRun : q # p => walk'[q] = walk[q]
  BY <1>3 DEF SyncTypeOK
<1>5. SyncTypeOK' /\ Provider' /\ Covered'
  BY <1>2, <1>3, ProviderFrame DEF SyncTypeOK, providerVars, Covered, Listed
<1>6. Hands'
  <2>1. HandsOf(w) /\ w # NoWalk
    BY WalkFields DEF Hands
  <2>2. HandsOf(v)'
    BY <1>2, <1>3, <2>1 DEF HandsOf, Listed
  <2>3. \A q \in SyncRun : HandsOf(walk[q]) /\ walk'[q] = walk[q] => HandsOf(walk[q])'
    BY <1>3 DEF HandsOf, Listed
  <2> QED
    BY <1>4, <2>2, <2>3 DEF Hands
<1>7. CASE running = p
  <2>1. AttachedTo(w) /\ GatheredBy(w) /\ OutdatedIn(w) /\ w.phase = "walking"
    BY <1>7 DEF Attached, Gathered, Outdated, Walking
  <2>2. AttachedTo(v)'
    BY <1>2, <1>3, <2>1 DEF AttachedTo, Same
  <2>3. OutdatedIn(v)'
    BY <1>2, <1>3, <2>1 DEF OutdatedIn, Reach, Listed
  <2>4. Reach(v)' = Reach(w)
    BY <1>2, <1>3 DEF Reach, Same
  <2>5. GatheredBy(v)'
    <3>1. CASE ph = "failed"
      BY <1>2, <3>1 DEF GatheredBy
    <3>2. CASE ph = "partial"
      <4>1. \A i \in Item : LeftBehind(v, i)' => LeftBehind(w, i)
        BY <1>2, <1>3, <3>2 DEF LeftBehind, Same
      <4> QED
        BY <1>2, <1>3, <2>1, <2>4, <4>1 DEF GatheredBy, Listed
    <3>3. CASE ph = "succeeded"
      <4>1. \A i \in Item : LeftBehind(v, i)' => LeftBehind(w, i) \/ w.backfill \/ resumeAt = 0 \/ onPage[i] < resumeAt
        BY <1>2, <1>3 DEF LeftBehind, Same
      <4>2. w.fetched = NothingFetched
        BY <3>3
      <4>3. ASSUME NEW i \in Item, w.fetched = [item |-> i, at |-> updatedAt[i]] PROVE FALSE
        BY <4>2, <4>3, FetchedSomething DEF SyncTypeOK
      <4> QED
        BY <1>2, <1>3, <1>7, <2>1, <2>4, <3>3, <4>1, <4>3 DEF GatheredBy, Listed
    <3> QED
      BY <3>1, <3>2, <3>3
  <2> QED
    BY <1>3, <1>4, <1>5, <1>6, <1>7, <2>2, <2>3, <2>5 DEF Attached, Gathered, Outdated
<1>8. CASE running # p
  <2>1. running \in SyncRun => walk'[running] = walk[running]
    BY <1>4, <1>8
  <2>2. Attached' /\ Outdated'
    BY <1>3, <2>1 DEF Attached, AttachedTo, Outdated, OutdatedIn, Reach, Listed
  <2>3. Gathered'
    BY <1>3, <2>1 DEF Gathered, GatheredBy, Reach, LeftBehind, Listed
  <2> QED
    BY <1>5, <1>6, <2>2, <2>3
<1> QED
  BY <1>7, <1>8

\* An item that is known is on a page after which all are known.
LEMMA KnownFrom ==
  ASSUME SyncInv, NEW p \in SyncRun, walk[p] \in Walk, ~walk[p].backfill => walk[p].since = watermark,
         \A k \in Item : Shows(p, k) => Known(p, k),
         NEW i \in Item, walk[p].page # 0, walk[p].page <= onPage[i]
  PROVE  updatedAt[i] <= watermark
<1> USE DEF SyncInv
<1>1. walk[p].page \in Nat /\ watermark \in Nat /\ onPage[i] \in Nat /\ \A k \in Item : updatedAt[k] \in Nat
  BY WalkFields, ConstantsTyped DEF SyncTypeOK
<1>2. PICK k \in Item : onPage[k] = walk[p].page
  BY <1>1 DEF Provider, Dense
<1>3. updatedAt[k] <= watermark
  BY <1>2 DEF Shows, Known
<1>4. i = k \/ updatedAt[i] <= updatedAt[k]
  BY <1>1, <1>2 DEF Provider, OneToAPage, LatestFirst, Listed, SyncTypeOK
<1> QED
  BY <1>1, <1>3, <1>4

\* A walk that ends well has nothing left to come to: all it did not see is
\* older than an item that it knew.
LEMMA EndSteps ==
  ASSUME SyncInv, NEW p \in SyncRun, WalkEnds(p) \/ PageBudgetSpent(p) \/ RateLimited(p) \/ WalkFails(p)
  PROVE  SyncInv'
<1> USE DEF SyncInv
<1>1. CASE WalkFails(p)
  BY <1>1, ConcludeStep DEF WalkFails
<1>2. CASE PageBudgetSpent(p) \/ RateLimited(p)
  BY <1>2, ConcludeStep DEF PageBudgetSpent, RateLimited, MayFetch
<1>3. CASE WalkEnds(p)
  <2>1. Walking(p) /\ Conclude(p, "succeeded") /\ walk[p].fetched = NothingFetched /\ walk[p] \in Walk
    BY <1>3, WalksOf DEF WalkEnds
  <2>2. ASSUME running = p, NEW i \in Item \ exposed, Listed(i), updatedAt[i] <= Reach(walk[p]),
               walk[p].backfill \/ resumeAt = 0 \/ onPage[i] < resumeAt
        PROVE  synced[i] = updatedAt[i]
    <3>1. AttachedTo(walk[p]) /\ GatheredBy(walk[p]) /\ walk[p].phase = "walking"
      BY <2>1, <2>2 DEF Attached, Gathered, Walking
    <3>2. walk[p].fetched # [item |-> i, at |-> updatedAt[i]]
      BY <2>1, FetchedSomething DEF SyncTypeOK
    <3>3. LeftBehind(walk[p], i) => synced[i] = updatedAt[i]
      BY <2>2, <3>1, <3>2 DEF GatheredBy
    <3>4. CASE LeftBehind(walk[p], i)
      BY <3>3, <3>4
    <3>5. CASE ~LeftBehind(walk[p], i)
      <4>1. walk[p].page <= onPage[i] /\ \A k \in Item : Shows(p, k) => Known(p, k)
        BY <1>3, <2>1, <2>2, <3>5, WalkFields DEF LeftBehind, WalkEnds, SyncTypeOK
      <4>2. ~walk[p].backfill => walk[p].since = watermark
        BY <3>1 DEF AttachedTo
      <4>3. updatedAt[i] <= watermark
        BY <2>1, <3>1, <4>1, <4>2, KnownFrom DEF AttachedTo
      <4>4. PICK k \in Item : onPage[k] = walk[p].page
        <5>1. walk[p].page \in 1 .. onPage[i]
          BY <2>1, <3>1, <4>1, WalkFields DEF AttachedTo, SyncTypeOK
        <5> QED
          BY <5>1 DEF Provider, Dense
      <4>5. ~walk[p].backfill
        BY <4>1, <4>4 DEF Shows, Known
      <4> QED
        BY <2>2, <4>3, <4>5 DEF Covered
    <3> QED
      BY <3>4, <3>5
  <2> QED
    BY <2>1, <2>2, ConcludeStep
<1> QED
  BY <1>1, <1>2, <1>3

\* What a page shows comes into the walk's hands, the pages before it left behind.
LEMMA FetchStep == ASSUME SyncInv, NEW p \in SyncRun, FetchPage(p) PROVE SyncInv'
<1> USE DEF SyncInv
<1>1. walk[p] \in Walk /\ Walking(p) /\ walk[p].fetched = NothingFetched /\ walk[p].pages < MaxPages
  BY WalksOf DEF FetchPage, MayFetch
<1> PICK w \in Walk : w = walk[p]
  BY <1>1
<1>2. PICK i \in Item :
        /\ Shows(p, i)
        /\ WalkOn(p, [w EXCEPT !.page = w.page + 1, !.pages = w.pages + 1,
                       !.more = \E j \in Item : onPage[j] > w.page,
                       !.newest = Later(w.newest, updatedAt[i]), !.fetched = [item |-> i, at |-> updatedAt[i]]])
        /\ exposed' = exposed \cup PassedOver(p, i)
  BY DEF FetchPage
<1> PICK t \in Time : t = updatedAt[i]
  BY DEF SyncTypeOK
<1> PICK more \in BOOLEAN : more <=> \E j \in Item : onPage[j] > w.page
  OBVIOUS
<1>3. w.newest \in Time /\ w.page \in Nat /\ w.pages \in 0 .. MaxPages /\ w.since \in Time
  BY WalkFields
<1> PICK u \in Time : u = Later(w.newest, t)
  BY <1>3, LaterOf
<1>4. w.newest <= u /\ t <= u /\ u \in {w.newest, t} /\ w.newest \in Nat /\ t \in Nat /\ u \in Nat
  BY <1>3, LaterOf, ConstantsTyped
<1> PICK v : v = WithPage(w, i, t, more, u)
  OBVIOUS
<1>5. /\ v \in Walk /\ v # NoWalk /\ Same(v, w) /\ v.phase = w.phase
      /\ v.page = w.page + 1 /\ v.more = more /\ v.newest = u /\ v.fetched = [item |-> i, at |-> t]
  <2>1. w.pages < MaxPages
    BY <1>1
  <2>2. /\ v \in Walk /\ Same(v, w) /\ v.phase = w.phase
        /\ v.page = w.page + 1 /\ v.more = more /\ v.newest = u /\ v.fetched = [item |-> i, at |-> t]
    BY <2>1, WalkFetches
  <2> QED
    BY <2>2, WalkFields
<1>6. /\ walk' = [walk EXCEPT ![p] = v]
      /\ UNCHANGED <<onPage, updatedAt, clock, account, watermark, resumeAt, running, troubles, synced>>
  <2>1. (\E j \in Item : onPage[j] > w.page) = more
    OBVIOUS
  <2>2. v = [w EXCEPT !.page = w.page + 1, !.pages = w.pages + 1,
                       !.more = \E j \in Item : onPage[j] > w.page,
                       !.newest = Later(w.newest, updatedAt[i]), !.fetched = [item |-> i, at |-> updatedAt[i]]]
    BY <2>1 DEF WithPage
  <2> QED
    BY <1>2, <2>2 DEF WalkOn, providerVars, FetchPage
<1>7. walk'[p] = v /\ \A q \in SyncRun : q # p => walk'[q] = walk[q]
  BY <1>6 DEF SyncTypeOK
<1>8. exposed' \subseteq Item /\ exposed \subseteq exposed'
  BY <1>2 DEF SyncTypeOK, PassedOver
<1>9. SyncTypeOK' /\ Provider' /\ Covered'
  BY <1>5, <1>6, <1>8, ProviderFrame DEF SyncTypeOK, providerVars, Covered, Listed
<1>10. Hands'
  <2>1. v.phase = "walking" /\ v.fetched.at = t /\ v.fetched.item = i
    BY <1>1, <1>5 DEF Walking
  <2>2. HandsOf(v)'
    BY <1>4, <1>6, <2>1 DEF HandsOf, Listed, Provider, Dated
  <2>3. \A q \in SyncRun : HandsOf(walk[q]) /\ walk'[q] = walk[q] => HandsOf(walk[q])'
    BY <1>6 DEF HandsOf, Listed
  <2> QED
    BY <1>7, <2>2, <2>3 DEF Hands
<1>11. CASE running = p
  <2>1. AttachedTo(w) /\ GatheredBy(w) /\ w.phase = "walking" /\ w.fetched = NothingFetched
    BY <1>1, <1>11 DEF Attached, Gathered, Walking
  <2>2. AttachedTo(v)'
    <3>1. resumeAt \in Nat /\ w.since \in Nat
      BY <1>3, ConstantsTyped DEF SyncTypeOK
    <3> QED
      BY <1>3, <1>4, <1>5, <1>6, <2>1, <3>1 DEF AttachedTo, Same
  <2>3. OutdatedIn(v)'
    BY <1>5, <1>6 DEF OutdatedIn
  <2>4. GatheredBy(v)'
    <3> SUFFICES ASSUME NEW j \in Item \ exposed', Listed(j), updatedAt[j] <= Reach(v)', LeftBehind(v, j)'
                 PROVE  synced[j] = updatedAt[j] \/ v.fetched = [item |-> j, at |-> updatedAt[j]]
      BY <1>6 DEF GatheredBy, Listed
    <3>1. onPage[j] \in Nat /\ updatedAt[j] \in Nat
      BY ConstantsTyped DEF SyncTypeOK
    <3>2. onPage[j] <= w.page
      BY <1>3, <1>5, <1>6, <2>1, <3>1 DEF LeftBehind
    <3>3. CASE onPage[j] = w.page
      <4>1. j = i
        BY <1>2, <3>3 DEF Shows, Provider, OneToAPage
      <4> QED
        BY <1>5, <4>1
    <3>4. CASE onPage[j] < w.page
      <4>1. LeftBehind(w, j)
        BY <3>4 DEF LeftBehind
      <4>2. CASE updatedAt[j] <= Reach(w)
        <5>1. w.fetched # [item |-> j, at |-> updatedAt[j]]
          BY <2>1, FetchedSomething DEF SyncTypeOK
        <5> QED
          BY <1>8, <2>1, <4>1, <4>2, <5>1 DEF GatheredBy
      <4>3. CASE ~(updatedAt[j] <= Reach(w))
        <5>1. ~w.resumed /\ Reach(w) = w.newest /\ updatedAt[j] <= u
          BY <1>5, <1>6, <4>3 DEF Reach, Same
        <5>2. w.newest < updatedAt[j] /\ updatedAt[j] <= updatedAt[i]
          BY <1>4, <3>1, <4>3, <5>1
        <5>3. j \in PassedOver(p, i)
          BY <1>11, <3>4, <5>1, <5>2 DEF PassedOver, Recording
        <5> QED
          BY <1>2, <5>3
      <4> QED
        BY <4>2, <4>3
    <3> QED
      BY <1>3, <3>1, <3>2, <3>3, <3>4
  <2> QED
    BY <1>6, <1>7, <1>9, <1>10, <1>11, <2>2, <2>3, <2>4 DEF Attached, Gathered, Outdated
<1>12. CASE running # p
  <2>1. running \in SyncRun => walk'[running] = walk[running]
    BY <1>7, <1>12
  <2>2. Attached' /\ Outdated'
    BY <1>6, <1>8, <2>1 DEF Attached, AttachedTo, Outdated, OutdatedIn, Reach, Listed
  <2>3. Gathered'
    BY <1>6, <1>8, <2>1 DEF Gathered, GatheredBy, Reach, LeftBehind, Listed
  <2> QED
    BY <1>9, <1>10, <2>2, <2>3
<1> QED
  BY <1>11, <1>12

\* A write that is late exposes what it overwrites, unless the item is newer than what its run covers.
LEMMA UpsertStep == ASSUME SyncInv, NEW p \in SyncRun, Upsert(p) PROVE SyncInv'
<1> USE DEF SyncInv
<1>1. walk[p] \in Walk /\ Walking(p) /\ walk[p].fetched # NothingFetched
  BY WalksOf DEF Upsert
<1> PICK w \in Walk : w = walk[p]
  BY <1>1
<1> PICK f : f = w.fetched
  OBVIOUS
<1>2. f \in [item : Item, at : Time]
  BY <1>1, WalkFields
<1> PICK i \in Item : i = f.item
  BY <1>2
<1> PICK t \in Time : t = f.at
  BY <1>2
<1> PICK v : v = [w EXCEPT !.fetched = NothingFetched]
  OBVIOUS
<1>3. /\ v \in Walk /\ v # NoWalk /\ Same(v, w) /\ v.phase = w.phase
      /\ v.page = w.page /\ v.more = w.more /\ v.newest = w.newest /\ v.fetched = NothingFetched
  BY WalkHandsOver, WalkFields
<1>4. /\ UNCHANGED <<onPage, updatedAt, clock, account, watermark, resumeAt, running, troubles>>
      /\ walk' = [walk EXCEPT ![p] = v]
      /\ synced' = [synced EXCEPT ![i] = t]
      /\ exposed' = IF running # p /\ synced[i] > t THEN exposed \cup {i} ELSE exposed
  BY DEF Upsert, WalkOn, providerVars
<1>5. walk'[p] = v /\ \A q \in SyncRun : q # p => walk'[q] = walk[q]
  BY <1>4 DEF SyncTypeOK
<1>6. /\ synced'[i] = t /\ \A j \in Item : j # i => synced'[j] = synced[j]
      /\ exposed \subseteq exposed' /\ exposed' \subseteq Item /\ synced' \in [Item -> Time]
  BY <1>4 DEF SyncTypeOK
<1>7. SyncTypeOK' /\ Provider'
  BY <1>3, <1>4, <1>6, ProviderFrame DEF SyncTypeOK, providerVars
<1>8. t \in Nat /\ synced[i] \in Nat /\ updatedAt[i] \in Nat /\ watermark \in Nat /\ Reach(w) \in Nat
  BY WalkFields, ConstantsTyped DEF SyncTypeOK, Reach
<1>9. Listed(i) => t <= updatedAt[i]
  BY <1>1, <1>3, WalkFields DEF Hands, HandsOf
\* What is in the rows as it is stays so.
<1>10. ASSUME i \notin exposed', Listed(i), synced[i] = updatedAt[i],
              running = p => updatedAt[i] <= Reach(w) \/ updatedAt[i] <= watermark
       PROVE  synced'[i] = updatedAt[i]
  <2>1. CASE running = p
    <3>1. OutdatedIn(w)
      BY <2>1 DEF Outdated
    <3> QED
      BY <1>1, <1>6, <1>8, <1>10, <2>1, <3>1 DEF OutdatedIn
  <2>2. CASE running # p
    <3>1. synced[i] <= t
      BY <1>4, <1>8, <1>10, <2>2
    <3> QED
      BY <1>6, <1>8, <1>9, <1>10, <3>1
  <2> QED
    BY <2>1, <2>2
<1>11. Covered'
  <2> SUFFICES ASSUME NEW j \in Item \ exposed', Listed(j), updatedAt[j] <= watermark, resumeAt = 0 \/ onPage[j] < resumeAt
               PROVE  synced'[j] = updatedAt[j]
    BY <1>4 DEF Covered, Listed
  <2>1. synced[j] = updatedAt[j]
    BY <1>6 DEF Covered
  <2> QED
    BY <1>6, <1>10, <2>1
<1>12. Hands'
  <2>1. v.phase = "walking"
    BY <1>1, <1>3 DEF Walking
  <2>2. HandsOf(v)'
    BY <1>3, <2>1 DEF HandsOf
  <2>3. \A q \in SyncRun : HandsOf(walk[q]) /\ walk'[q] = walk[q] => HandsOf(walk[q])'
    BY <1>4 DEF HandsOf, Listed
  <2> QED
    BY <1>5, <2>2, <2>3 DEF Hands
<1>13. CASE running = p
  <2>1. AttachedTo(w) /\ GatheredBy(w) /\ w.phase = "walking"
    BY <1>1, <1>13 DEF Attached, Gathered, Walking
  <2>2. AttachedTo(v)' /\ OutdatedIn(v)'
    BY <1>3, <1>4, <2>1 DEF AttachedTo, OutdatedIn, Same
  <2>3. Reach(v)' = Reach(w) /\ Reach(w) \in {watermark, w.newest}
    BY <1>3, <1>4 DEF Reach, Same
  <2>4. \A j \in Item : LeftBehind(v, j)' => LeftBehind(w, j)
    BY <1>3, <1>4 DEF LeftBehind, Same
  <2>5. GatheredBy(v)'
    <3> SUFFICES ASSUME NEW j \in Item \ exposed', Listed(j), updatedAt[j] <= Reach(w), LeftBehind(w, j)
                 PROVE  synced'[j] = updatedAt[j]
      BY <1>4, <2>3, <2>4 DEF GatheredBy, Listed
    <3>1. synced[j] = updatedAt[j] \/ f = [item |-> j, at |-> updatedAt[j]]
      BY <1>6, <2>1 DEF GatheredBy
    <3>2. CASE f = [item |-> j, at |-> updatedAt[j]]
      BY <1>6, <3>2
    <3>3. CASE synced[j] = updatedAt[j]
      BY <1>6, <1>10, <2>3, <3>3
    <3> QED
      BY <3>1, <3>2, <3>3
  <2> QED
    BY <1>4, <1>5, <1>7, <1>11, <1>12, <1>13, <2>2, <2>5 DEF Attached, Gathered, Outdated
<1>14. CASE running # p
  <2>1. running \in SyncRun => walk'[running] = walk[running]
    BY <1>5, <1>14
  <2>2. Attached' /\ Outdated'
    BY <1>4, <1>6, <2>1 DEF Attached, AttachedTo, Outdated, OutdatedIn, Reach, Listed
  <2>3. ASSUME NEW x, GatheredBy(x) PROVE GatheredBy(x)'
    BY <1>4, <1>6, <1>10, <1>14, <2>3 DEF GatheredBy, Reach, LeftBehind, Listed
  <2>4. Gathered'
    <3> SUFFICES ASSUME running \in SyncRun PROVE GatheredBy(walk[running])'
      BY <1>4 DEF Gathered
    <3> PICK x : x = walk[running]
      OBVIOUS
    <3> QED
      BY <1>4, <2>1, <2>3 DEF Gathered
  <2> QED
    BY <1>7, <1>11, <1>12, <2>2, <2>4
<1> QED
  BY <1>13, <1>14

-----------------------------------------------------------------------------
\* A process lets go of its walk, and the row of its run ends or is left to the reaper.
LEMMA CloseStep ==
  ASSUME SyncInv, SyncTypeOK', Covered', NEW p \in SyncRun, walk' = [walk EXCEPT ![p] = NoWalk],
         UNCHANGED <<onPage, updatedAt, clock, synced, exposed>>,
         running = p => running' \notin SyncRun,
         running # p => UNCHANGED <<running, watermark, resumeAt>>
  PROVE  SyncInv'
<1> USE DEF SyncInv
<1>1. walk'[p] = NoWalk /\ \A q \in SyncRun : q # p => walk'[q] = walk[q]
  BY DEF SyncTypeOK
<1>2. Provider'
  BY ProviderFrame DEF providerVars
<1>3. Hands'
  <2>1. \A q \in SyncRun : HandsOf(walk[q]) /\ walk'[q] = walk[q] => HandsOf(walk[q])'
    BY DEF HandsOf, Listed
  <2> QED
    BY <1>1, <2>1 DEF Hands
<1>4. CASE running = p
  BY <1>2, <1>3, <1>4 DEF Attached, Gathered, Outdated
<1>5. CASE running # p
  <2>1. running \in SyncRun => walk'[running] = walk[running]
    BY <1>1, <1>5
  <2>2. Attached' /\ Outdated'
    BY <1>5, <2>1 DEF Attached, AttachedTo, Outdated, OutdatedIn, Reach, Listed
  <2>3. Gathered'
    BY <1>5, <2>1 DEF Gathered, GatheredBy, Reach, LeftBehind, Listed
  <2> QED
    BY <1>2, <1>3, <2>2, <2>3
<1> QED
  BY <1>4, <1>5

\* What the outcome of the run that won leaves as cursors.
LEMMA Cursors ==
  ASSUME SyncInv, NEW p \in SyncRun, running = p, Finished(p), walk[p].phase # "failed",
         watermark' = IF NextCursor(p) # 0 THEN NextCursor(p) ELSE watermark,
         resumeAt' = IF walk[p].backfill THEN ResumeCursor(p) ELSE resumeAt
  PROVE  /\ watermark' \in Time /\ resumeAt' \in Nat
         /\ \A j \in Item \ exposed :
              Listed(j) /\ updatedAt[j] <= watermark' /\ (resumeAt' = 0 \/ onPage[j] < resumeAt') => synced[j] = updatedAt[j]
         /\ resumeAt # 0 /\ resumeAt' # 0 => resumeAt <= resumeAt'
<1> USE DEF SyncInv
<1> PICK w \in Walk : w = walk[p]
  BY WalksOf
<1>1. /\ w.phase \in {"partial", "succeeded"} /\ w.fetched = NothingFetched
      /\ AttachedTo(w) /\ GatheredBy(w)
  BY WalkFields DEF Finished, Hands, HandsOf, Attached, Gathered
<1>2. /\ w.newest \in Time /\ w.newest \in Nat /\ w.since \in Time /\ w.since \in Nat /\ w.page \in Nat /\ w.page # 0
      /\ watermark \in Time /\ watermark \in Nat /\ resumeAt \in Nat /\ 0 \in Time
      /\ \A j \in Item : onPage[j] \in Nat /\ updatedAt[j] \in Nat
  BY <1>1, WalkFields, ConstantsTyped DEF SyncTypeOK, AttachedTo, Time
<1>3. \A j \in Item \ exposed : Listed(j) /\ updatedAt[j] <= Reach(w) /\ LeftBehind(w, j) => synced[j] = updatedAt[j]
  <2>1. \A j \in Item : w.fetched # [item |-> j, at |-> updatedAt[j]]
    BY <1>1, FetchedSomething DEF SyncTypeOK
  <2> QED
    BY <1>1, <2>1 DEF GatheredBy
<1>4. \A j \in Item \ exposed : Listed(j) /\ updatedAt[j] <= watermark /\ (resumeAt = 0 \/ onPage[j] < resumeAt)
                                => synced[j] = updatedAt[j]
  BY DEF Covered
\* An incremental run.
<1>5. CASE ~w.backfill
  <2>1. w.since = watermark /\ ~w.resumed /\ watermark <= w.newest /\ resumeAt' = resumeAt
    BY <1>1, <1>5 DEF AttachedTo
  <2>2. CASE w.phase = "partial"
    <3>1. NextCursor(p) = watermark
      BY <1>5, <2>1, <2>2 DEF NextCursor, PartialCursor
    <3> QED
      BY <1>2, <1>4, <2>1, <3>1
  <2>3. CASE w.phase = "succeeded"
    <3>1. NextCursor(p) = w.newest
      BY <2>1, <2>3 DEF NextCursor
    <3>2. watermark' = w.newest /\ Reach(w) = w.newest
      BY <1>2, <2>1, <3>1 DEF Reach
    <3>3. \A j \in Item : resumeAt = 0 \/ onPage[j] < resumeAt => LeftBehind(w, j)
      BY <2>3 DEF LeftBehind
    <3> QED
      BY <1>2, <1>3, <2>1, <3>2, <3>3
  <2> QED
    BY <1>1, <2>2, <2>3
\* The first call of a backfill: no page was pending.
<1>6. CASE w.backfill /\ ~w.resumed
  <2>1. w.since = 0 /\ resumeAt = 0 /\ resumeAt' = ResumeCursor(p) /\ Reach(w) = w.newest
    BY <1>1, <1>6 DEF AttachedTo, Reach
  <2>2. NextCursor(p) = w.newest
    BY <1>1, <1>6 DEF NextCursor, PartialCursor
  <2>3. CASE w.newest = 0
    <3>1. watermark' = watermark /\ resumeAt' \in Nat
      BY <1>1, <1>2, <2>1, <2>2, <2>3 DEF ResumeCursor
    <3> QED
      BY <1>2, <1>4, <2>1, <3>1
  <2>4. CASE w.newest # 0
    <3>1. watermark' = w.newest /\ w.page # 1
      BY <1>1, <1>6, <2>1, <2>2, <2>4 DEF AttachedTo
    <3>2. resumeAt' = IF w.phase = "succeeded" THEN 0 ELSE w.page
      BY <1>6, <2>1, <3>1 DEF ResumeCursor
    <3>3. \A j \in Item : resumeAt' = 0 \/ onPage[j] < resumeAt' => LeftBehind(w, j)
      BY <1>1, <1>2, <1>6, <3>2 DEF LeftBehind
    <3> QED
      BY <1>2, <1>3, <2>1, <3>1, <3>2, <3>3
  <2> QED
    BY <2>3, <2>4
\* A later call: the watermark stays, and the pages before its cursor are done.
<1>7. CASE w.backfill /\ w.resumed
  <2>1. resumeAt # 0 /\ resumeAt <= w.page /\ Reach(w) = watermark
    BY <1>1, <1>7 DEF AttachedTo, Reach
  <2>2. watermark' = watermark
    BY <1>1, <1>7 DEF NextCursor, PartialCursor
  <2>3. resumeAt' = IF w.phase = "succeeded" THEN 0 ELSE w.page
    BY <1>7 DEF ResumeCursor
  <2>4. \A j \in Item : resumeAt' = 0 \/ onPage[j] < resumeAt' => LeftBehind(w, j)
    BY <1>1, <1>2, <1>7, <2>3 DEF LeftBehind
  <2> QED
    BY <1>2, <1>3, <2>1, <2>2, <2>3, <2>4
<1> QED
  BY <1>5, <1>6, <1>7, WalkFields

\* What the winner records is what it has gathered; the loser records nothing.
LEMMA OutcomeSteps ==
  ASSUME SyncInv, NEW p \in SyncRun, RecordOutcome(p) \/ SkipOutcome(p) \/ ProcessDies(p)
  PROVE  SyncInv' /\ (resumeAt # 0 /\ resumeAt' # 0 => resumeAt <= resumeAt')
<1> USE DEF SyncInv
<1>1. NoRun \notin SyncRun /\ Lost \notin SyncRun /\ resumeAt \in Nat
  BY ConstantsTyped DEF SyncTypeOK
<1>2. walk' = [walk EXCEPT ![p] = NoWalk] /\ UNCHANGED <<onPage, updatedAt, clock, synced, exposed>>
      /\ troubles' \in 0 .. MaxTrouble
  BY ConstantsTyped DEF RecordOutcome, SkipOutcome, ProcessDies, Close, providerVars, Trouble, SyncTypeOK
<1>3. /\ running' \in {running, NoRun, Lost}
      /\ running = p => running' \notin SyncRun
      /\ running # p => running' = running
  BY <1>1 DEF RecordOutcome, SkipOutcome, ProcessDies, Close
<1>4. CASE UNCHANGED <<watermark, resumeAt>> /\ account' = account
  <2>1. SyncTypeOK' /\ Covered'
    BY <1>2, <1>3, <1>4 DEF SyncTypeOK, Covered, Listed
  <2>2. SyncInv'
    BY <1>2, <1>3, <1>4, <2>1, CloseStep
  <2> QED
    BY <1>1, <1>4, <2>2
<1>5. CASE RecordOutcome(p) /\ running = p
  <2>1. account' \in {"active", "error", "disconnected"}
    BY <1>5 DEF RecordOutcome, WonTheRace, SyncTypeOK
  <2>2. CASE walk[p].phase = "failed"
    <3>1. UNCHANGED <<watermark, resumeAt>>
      BY <1>5, <2>2 DEF RecordOutcome, WonTheRace
    <3>2. SyncTypeOK' /\ Covered'
      BY <1>2, <1>3, <2>1, <3>1 DEF SyncTypeOK, Covered, Listed
    <3>3. SyncInv'
      BY <1>2, <1>3, <1>5, <3>2, CloseStep
    <3> QED
      BY <1>1, <3>1, <3>3
  <2>3. CASE walk[p].phase # "failed"
    <3>1. /\ Finished(p)
          /\ watermark' = IF NextCursor(p) # 0 THEN NextCursor(p) ELSE watermark
          /\ resumeAt' = IF walk[p].backfill THEN ResumeCursor(p) ELSE resumeAt
      BY <1>5, <2>3 DEF RecordOutcome, WonTheRace
    <3>2. /\ watermark' \in Time /\ resumeAt' \in Nat
          /\ \A j \in Item \ exposed :
               Listed(j) /\ updatedAt[j] <= watermark' /\ (resumeAt' = 0 \/ onPage[j] < resumeAt') => synced[j] = updatedAt[j]
          /\ resumeAt # 0 /\ resumeAt' # 0 => resumeAt <= resumeAt'
      BY <1>5, <2>3, <3>1, Cursors
    <3>3. SyncTypeOK' /\ Covered'
      BY <1>2, <1>3, <2>1, <3>2 DEF SyncTypeOK, Covered, Listed
    <3>4. SyncInv'
      BY <1>2, <1>3, <1>5, <3>3, CloseStep
    <3> QED
      BY <3>2, <3>4
  <2> QED
    BY <2>2, <2>3
<1>6. RecordOutcome(p) /\ running # p => UNCHANGED <<watermark, resumeAt>> /\ account' = account
  BY DEF RecordOutcome, WonTheRace
<1>7. SkipOutcome(p) \/ ProcessDies(p) => UNCHANGED <<watermark, resumeAt>> /\ account' = account
  BY DEF SkipOutcome, ProcessDies
<1> QED
  BY <1>4, <1>5, <1>6, <1>7

\* The cursors outlive a disconnection.
LEMMA AccountSteps ==
  ASSUME SyncInv, Disable \/ Reconnect \/ UNCHANGED syncVars PROVE SyncInv' /\ resumeAt' = resumeAt
<1> USE DEF SyncInv
<1>1. /\ UNCHANGED <<onPage, updatedAt, clock, synced, watermark, resumeAt, running, walk, exposed>>
      /\ account' \in {"active", "error", "disconnected"} /\ troubles' \in 0 .. MaxTrouble
  BY ConstantsTyped DEF Disable, Reconnect, syncVars, providerVars, Trouble, SyncTypeOK
<1>2. SyncTypeOK' /\ Provider'
  BY <1>1, ProviderFrame DEF SyncTypeOK, providerVars
<1>3. Hands' /\ Covered'
  BY <1>1 DEF Hands, HandsOf, Listed, Covered
<1>4. Attached' /\ Outdated'
  BY <1>1 DEF Attached, AttachedTo, Outdated, OutdatedIn, Reach, Listed
<1>5. Gathered'
  BY <1>1 DEF Gathered, GatheredBy, Reach, LeftBehind, Listed
<1> QED
  BY <1>1, <1>2, <1>3, <1>4, <1>5

\* Each step keeps the invariant, and none takes a pending backfill back.
LEMMA SyncStepKeeps ==
  SyncInv /\ [SyncNext]_syncVars => SyncInv' /\ (resumeAt # 0 /\ resumeAt' # 0 => resumeAt' >= resumeAt)
<1> SUFFICES ASSUME SyncInv, [SyncNext]_syncVars
             PROVE  SyncInv' /\ (resumeAt # 0 /\ resumeAt' # 0 => resumeAt' >= resumeAt)
  OBVIOUS
<1>1. resumeAt \in Nat
  BY DEF SyncInv, SyncTypeOK
<1>2. CASE Tick
  BY <1>1, <1>2, TickStep DEF Tick
<1>3. ASSUME NEW i \in Item, Update(i) \/ Delete(i) PROVE SyncInv' /\ resumeAt' = resumeAt
  BY <1>3, UpdateStep, DeleteStep DEF Update, Delete
<1>4. ASSUME NEW p \in SyncRun, NEW backfill \in BOOLEAN, BeginFirst(p, backfill) \/ BeginAfterReaping(p, backfill)
      PROVE  SyncInv' /\ resumeAt' = resumeAt
  <2>1. SyncTypeOK' /\ Begin(p, backfill)
    BY <1>4, BeginTyped
  <2> QED
    BY <2>1, BeginStep DEF Begin
<1>5. ASSUME NEW p \in SyncRun,
             FetchPage(p) \/ Upsert(p) \/ WalkEnds(p) \/ PageBudgetSpent(p) \/ RateLimited(p) \/ WalkFails(p)
      PROVE  SyncInv' /\ resumeAt' = resumeAt
  <2>1. SyncInv'
    BY <1>5, FetchStep, UpsertStep, EndSteps
  <2>2. resumeAt' = resumeAt
    BY <1>5 DEF FetchPage, Upsert, WalkEnds, PageBudgetSpent, RateLimited, WalkFails, Conclude, WalkOn
  <2> QED
    BY <2>1, <2>2
<1>6. ASSUME NEW p \in SyncRun, RecordOutcome(p) \/ SkipOutcome(p) \/ ProcessDies(p)
      PROVE  SyncInv' /\ (resumeAt # 0 /\ resumeAt' # 0 => resumeAt <= resumeAt')
  BY <1>6, OutcomeSteps
<1>7. CASE Disable \/ Reconnect \/ UNCHANGED syncVars
  BY <1>1, <1>7, AccountSteps
<1>8. SyncInv'
  BY <1>2, <1>3, <1>4, <1>5, <1>6, <1>7 DEF SyncNext
<1>9. resumeAt' \in Nat
  BY <1>8 DEF SyncInv, SyncTypeOK
<1> QED
  BY <1>1, <1>2, <1>3, <1>4, <1>5, <1>6, <1>7, <1>8, <1>9 DEF SyncNext

-----------------------------------------------------------------------------
\* Relationships that were created have ends, also those that a merge recorded or a request holds.
Pair == Entity \X Entity
Created(es) == \A e \in es : ends[e] \in Pair /\ edgeStatus[e] # "none"
Placed ==
  /\ \A e \in Edge : edgeStatus[e] # "none" => ends[e] \in Pair
  /\ \A o \in Made : Created(operation[o].rehomed) /\ Created(operation[o].invalidated)
HoldsCreated(r) ==
  /\ r.op = "merge" => Created(DOMAIN r.from)
  /\ r.op \in {"reverse", "split"} => r.of \in Made
  /\ r.op = "split" => Created(r.reassigned)
RequestsHold == \A c \in Curator : curating[c] # NoCuration => HoldsCreated(curating[c])

\* The entities of a merge in flight, and that no other merge in flight has them.
EntitiesOf(c) == {curating[c].source, curating[c].target}
MergesApart ==
  \A c \in Curator : Undertakes(c, "merge") =>
    /\ curating[c].source # curating[c].target
    /\ EntitiesOf(c) \cap redirected = {}
    /\ \A d \in Curator : d # c /\ Undertakes(d, "merge") => EntitiesOf(c) \cap EntitiesOf(d) = {}

EntityInv ==
  /\ EntityTypeOK
  /\ Placed
  /\ RequestsHold
  /\ MergesApart
  /\ NothingLost
  /\ AliasesSurvive

-----------------------------------------------------------------------------
LEMMA InitEntities == EntityInit => EntityInv
<1> SUFFICES ASSUME EntityInit PROVE EntityInv
  OBVIOUS
<1>1. EntityTypeOK
  BY DEF EntityInit, EntityTypeOK
<1>2. Made = {}
  BY DEF EntityInit, Made
<1> QED
  BY <1>1, <1>2 DEF EntityInit, EntityInv, Placed, RequestsHold, MergesApart, NothingLost, AliasesSurvive, Undertakes

\* What requests hold, and what stands, through a step that creates relationships or moves them.
LEMMA HoldsFrame ==
  ASSUME \A e \in Edge : ends[e] \in Pair /\ edgeStatus[e] # "none" => ends'[e] \in Pair /\ edgeStatus'[e] # "none",
         Made \subseteq Made', NEW r, HoldsCreated(r),
         r.op = "merge" => DOMAIN r.from \subseteq Edge, r.op = "split" => r.reassigned \subseteq Edge
  PROVE  HoldsCreated(r)'
BY DEF HoldsCreated, Created

\* What a request holds.
LEMMA CurationFields ==
  ASSUME NEW r \in Curation
  PROVE  /\ r.op \in {"merge", "reverse", "split"}
         /\ r.op = "merge" =>
              /\ r.source \in Entity /\ r.target \in Entity
              /\ DOMAIN r.from \subseteq Edge /\ \A e \in DOMAIN r.from : r.from[e] \in Pair
         /\ r.op \in {"reverse", "split"} => r.of \in Operation
         /\ r.op = "split" => r.reassigned \subseteq Edge
<1>1. CASE r \in [op : {"merge"}, source : Entity, target : Entity, from : UNION {[es -> Pair] : es \in SUBSET Edge}]
  <2>1. PICK es \in SUBSET Edge : r.from \in [es -> Pair]
    BY <1>1
  <2> QED
    BY <1>1, <2>1
<1>2. CASE r \in [op : {"reverse"}, of : Operation]
  BY <1>2
<1>3. CASE r \in [op : {"split"}, of : Operation, reassigned : SUBSET Edge]
  BY <1>3
<1> QED
  BY <1>1, <1>2, <1>3 DEF Curation, Pair

\* What the record of a merge holds.
LEMMA MergeFields ==
  ASSUME EntityTypeOK, NEW o \in Made
  PROVE  /\ o \in Operation /\ operation[o] \in Merge
         /\ operation[o].source \in Entity /\ operation[o].target \in Entity
         /\ operation[o].aliases \subseteq Alias
         /\ operation[o].rehomed \subseteq Edge /\ operation[o].invalidated \subseteq Edge
<1>1. o \in Operation /\ operation[o] \in Merge
  BY DEF Made, EntityTypeOK
<1> QED
  BY <1>1 DEF Merge

\* A request that is taken up changes nothing but its place.
LEMMA UndertakeStep ==
  ASSUME EntityInv, NEW c \in Curator, NEW r \in Curation, Undertake(c, r), HoldsCreated(r),
         r.op = "merge" =>
           /\ r.source # r.target
           /\ {r.source, r.target} \cap redirected = {}
           /\ \A d \in Curator : Undertakes(d, "merge") => EntitiesOf(d) \cap {r.source, r.target} = {}
  PROVE  EntityInv'
<1> USE DEF EntityInv
<1>1. /\ UNCHANGED <<redirected, ends, edgeStatus, aliasOf, operation, dated, withdrawn>>
      /\ curating[c] = NoCuration /\ curating' = [curating EXCEPT ![c] = r]
  BY DEF Undertake, graphVars
<1>2. curating'[c] = r /\ \A d \in Curator : d # c => curating'[d] = curating[d]
  BY <1>1 DEF EntityTypeOK
<1>3. EntityTypeOK'
  BY <1>1 DEF EntityTypeOK
<1>4. Placed' /\ NothingLost' /\ AliasesSurvive'
  BY <1>1 DEF Placed, Created, Made, NothingLost, AliasesSurvive
<1>5. RequestsHold'
  <2>1. \A x : HoldsCreated(x) => HoldsCreated(x)'
    BY <1>1 DEF HoldsCreated, Created, Made
  <2> QED
    BY <1>2, <2>1 DEF RequestsHold
<1>6. MergesApart'
  BY <1>1, <1>2 DEF MergesApart, Undertakes, EntitiesOf
<1> QED
  BY <1>3, <1>4, <1>5, <1>6

\* The locks keep the merges in flight apart.
LEMMA CheckMergeStep ==
  ASSUME EntityInv, NEW c \in Curator, NEW source \in Entity, NEW target \in Entity, CheckMerge(c, source, target)
  PROVE  EntityInv'
<1> USE DEF EntityInv
<1> DEFINE es == {f \in Live : Touches(f, source)}
           from == [e \in es |-> ends[e]]
<1> PICK r : r = [op |-> "merge", source |-> source, target |-> target, from |-> from]
  OBVIOUS
<1>1. es \in SUBSET Edge /\ \A e \in es : ends[e] \in Pair /\ edgeStatus[e] # "none"
  BY DEF Live, Placed
<1>2. from \in [es -> Pair] /\ DOMAIN from = es
  BY <1>1
<1>3. r \in Curation /\ r.op = "merge" /\ r.source = source /\ r.target = target /\ r.from = from
  BY <1>1, <1>2 DEF Curation, Pair
<1>4. HoldsCreated(r)
  BY <1>1, <1>2, <1>3 DEF HoldsCreated, Created
<1>5. Undertake(c, r) /\ source # target /\ {source, target} \cap redirected = {} /\ EntitiesFree({source, target})
  BY DEF CheckMerge
<1>6. \A d \in Curator : Undertakes(d, "merge") => LockedEntities(d) = EntitiesOf(d)
  BY DEF Undertakes, LockedEntities, EntitiesOf
<1>7. \A d \in Curator : Undertakes(d, "merge") => EntitiesOf(d) \cap {source, target} = {}
  BY <1>5, <1>6 DEF EntitiesFree
<1> QED
  BY <1>3, <1>4, <1>5, <1>7, UndertakeStep

\* A reversal or a split is of a merge that was made.
LEMMA CheckBackSteps ==
  ASSUME EntityInv, NEW c \in Curator, NEW o \in Operation, NEW es \in SUBSET Edge, CheckReverse(c, o) \/ CheckSplit(c, o, es)
  PROVE  EntityInv'
<1> USE DEF EntityInv
<1>1. CASE CheckReverse(c, o)
  <2> PICK r : r = [op |-> "reverse", of |-> o]
    OBVIOUS
  <2>1. r \in Curation /\ r.op = "reverse" /\ r.of = o
    BY DEF Curation
  <2>2. HoldsCreated(r) /\ Undertake(c, r)
    BY <1>1, <2>1 DEF HoldsCreated, CheckReverse
  <2> QED
    BY <2>1, <2>2, UndertakeStep
<1>2. CASE CheckSplit(c, o, es)
  <2> PICK r : r = [op |-> "split", of |-> o, reassigned |-> es]
    OBVIOUS
  <2>1. r \in Curation /\ r.op = "split" /\ r.of = o /\ r.reassigned = es
    BY DEF Curation
  <2>2. \A e \in es : edgeStatus[e] # "none" /\ ends[e] \in Pair
    BY <1>2 DEF CheckSplit, Placed
  <2>3. HoldsCreated(r) /\ Undertake(c, r)
    BY <1>2, <2>1, <2>2 DEF HoldsCreated, CheckSplit, Created
  <2> QED
    BY <2>1, <2>3, UndertakeStep
<1> QED
  BY <1>1, <1>2

-----------------------------------------------------------------------------
\* A request commits: what the others hold stays, and so do the merges in flight.
LEMMA OthersHold ==
  ASSUME EntityInv, NEW c \in Curator, curating' = [curating EXCEPT ![c] = NoCuration],
         \A e \in Edge : ends[e] \in Pair /\ edgeStatus[e] # "none" => ends'[e] \in Pair /\ edgeStatus'[e] # "none",
         Made \subseteq Made',
         \A d \in Curator : d # c /\ Undertakes(d, "merge") => EntitiesOf(d) \cap redirected' = {}
  PROVE  RequestsHold' /\ MergesApart'
<1> USE DEF EntityInv
<1>1. curating'[c] = NoCuration /\ \A d \in Curator : d # c => curating'[d] = curating[d]
  BY DEF EntityTypeOK
<1>2. RequestsHold'
  <2> SUFFICES ASSUME NEW d \in Curator, d # c, curating[d] # NoCuration PROVE HoldsCreated(curating[d])'
    BY <1>1 DEF RequestsHold
  <2> PICK r : r = curating[d]
    OBVIOUS
  <2>1. r \in Curation /\ HoldsCreated(r)
    BY DEF EntityTypeOK, RequestsHold
  <2>2. HoldsCreated(r)'
    BY <2>1, CurationFields, HoldsFrame
  <2> QED
    BY <1>1, <2>2
<1>3. MergesApart'
  BY <1>1 DEF MergesApart, Undertakes, EntitiesOf
<1> QED
  BY <1>2, <1>3

\* What a merge invalidates goes into its record, and the aliases to an entity
\* that no other merge in flight redirects.
LEMMA CommitMergeStep ==
  ASSUME EntityInv, NEW c \in Curator, NEW o \in Operation, NEW kept \in SUBSET Edge, CommitMerge(c, o, kept)
  PROVE  EntityInv'
<1> USE DEF EntityInv
<1> PICK m : m = curating[c]
  OBVIOUS
<1>1. m \in Curation /\ m.op = "merge" /\ HoldsCreated(m) /\ Undertakes(c, "merge")
  BY DEF CommitMerge, Undertakes, EntityTypeOK, RequestsHold
<1>2. /\ m.source \in Entity /\ m.target \in Entity /\ m.source # m.target
      /\ {m.source, m.target} \cap redirected = {}
      /\ \A d \in Curator : d # c /\ Undertakes(d, "merge") => EntitiesOf(d) \cap {m.source, m.target} = {}
  BY <1>1, CurationFields DEF MergesApart, EntitiesOf
<1> DEFINE aliases == {a \in Alias : aliasOf[a] = m.source}
           gone == Read(m) \ kept
<1> PICK op : op = [status |-> "active", source |-> m.source, target |-> m.target,
                    aliases |-> aliases, rehomed |-> kept, invalidated |-> gone]
  OBVIOUS
<1>3. /\ o \notin Made /\ kept \subseteq Read(m)
      /\ redirected' = redirected \cup {m.source}
      /\ ends' = [e \in Edge |-> IF e \in kept THEN Destination(m, e) ELSE ends[e]]
      /\ edgeStatus' = [e \in Edge |-> IF e \in gone THEN "invalidated" ELSE edgeStatus[e]]
      /\ aliasOf' = [a \in Alias |-> IF a \in aliases THEN m.target ELSE aliasOf[a]]
      /\ operation' = [operation EXCEPT ![o] = op]
      /\ curating' = [curating EXCEPT ![c] = NoCuration]
      /\ UNCHANGED <<dated, withdrawn>>
  BY DEF CommitMerge, Rehomable, Release
<1>4. Read(m) \subseteq Edge /\ Created(Read(m)) /\ \A e \in Read(m) : Destination(m, e) \in Pair
  <2>1. Read(m) \subseteq Edge /\ \A e \in Read(m) : m.from[e] \in Pair
    BY <1>1, CurationFields DEF Read
  <2>2. \A e \in Read(m) : Destination(m, e) \in Pair
    BY <1>2, <2>1 DEF Destination, Renamed, Pair
  <2> QED
    BY <1>1, <2>1, <2>2 DEF HoldsCreated, Read
<1>5. op \in Merge /\ op # NotMade /\ op.status = "active" /\ op.rehomed = kept /\ op.invalidated = gone
  BY <1>2, <1>4 DEF Merge, NotMade
<1>6. operation'[o] = op /\ \A n \in Operation : n # o => operation'[n] = operation[n]
  BY <1>3 DEF EntityTypeOK
<1>7. Made' = Made \cup {o}
  BY <1>5, <1>6 DEF Made
<1>8. EntityTypeOK'
  <2>1. ends' \in [Edge -> Pair \cup {Nowhere}]
    BY <1>3, <1>4 DEF EntityTypeOK, Pair
  <2>2. redirected' \subseteq Entity /\ edgeStatus' \in [Edge -> {"none", "active", "invalidated"}]
        /\ aliasOf' \in [Alias -> Entity]
    BY <1>2, <1>3 DEF EntityTypeOK
  <2>3. operation' \in [Operation -> Merge \cup {NotMade}] /\ curating' \in [Curator -> Curation \cup {NoCuration}]
    BY <1>3, <1>5 DEF EntityTypeOK
  <2> QED
    BY <1>3, <2>1, <2>2, <2>3 DEF EntityTypeOK, Pair
<1>9. \A e \in Edge : /\ edgeStatus[e] # "none" => ends'[e] \in Pair /\ edgeStatus'[e] # "none"
                      /\ edgeStatus'[e] # "none" => edgeStatus[e] # "none"
  BY <1>3, <1>4 DEF Placed, Created
<1>10. Placed'
  <2>1. \A n \in Made : Created(operation[n].rehomed)' /\ Created(operation[n].invalidated)'
    <3> SUFFICES ASSUME NEW n \in Made PROVE Created(operation[n].rehomed)' /\ Created(operation[n].invalidated)'
      OBVIOUS
    <3>1. operation'[n] = operation[n] /\ operation[n].rehomed \subseteq Edge /\ operation[n].invalidated \subseteq Edge
      BY <1>3, <1>6, MergeFields
    <3> QED
      BY <1>9, <3>1 DEF Placed, Created
  <2>2. Created(kept)' /\ Created(gone)'
    BY <1>3, <1>4, <1>9 DEF Created
  <2>3. Created(operation[o].rehomed)' /\ Created(operation[o].invalidated)'
    BY <1>5, <1>6, <2>2 DEF Created
  <2> QED
    BY <1>7, <1>9, <2>1, <2>3 DEF Placed
<1>11. RequestsHold' /\ MergesApart'
  <2>1. \A d \in Curator : d # c /\ Undertakes(d, "merge") => EntitiesOf(d) \cap redirected' = {}
    BY <1>2, <1>3 DEF MergesApart
  <2> QED
    BY <1>3, <1>7, <1>9, <2>1, OthersHold
<1>12. NothingLost'
  <2> SUFFICES ASSUME NEW e \in Edge \ withdrawn, edgeStatus'[e] = "invalidated"
               PROVE  \E n \in Made' : operation'[n].status \in {"active", "split"} /\ e \in operation'[n].invalidated
    BY <1>3 DEF NothingLost
  <2>1. CASE e \in gone
    BY <1>5, <1>6, <1>7, <2>1
  <2>2. CASE e \notin gone
    <3>1. PICK n \in Made : operation[n].status \in {"active", "split"} /\ e \in operation[n].invalidated
      BY <1>3, <2>2 DEF NothingLost
    <3> QED
      BY <1>3, <1>6, <1>7, <3>1 DEF Made
  <2> QED
    BY <2>1, <2>2
<1>13. AliasesSurvive'
  BY <1>2, <1>3 DEF AliasesSurvive
<1> QED
  BY <1>8, <1>10, <1>11, <1>12, <1>13

\* Merges stay as they were made, but for their status.
LEMMA StatusChanges ==
  ASSUME EntityTypeOK, NEW o \in Made, NEW st \in {"active", "reversed", "split"},
         operation' = [operation EXCEPT ![o].status = st]
  PROVE  /\ operation' \in [Operation -> Merge \cup {NotMade}] /\ Made' = Made
         /\ operation'[o].status = st
         /\ \A n \in Made : /\ operation'[n].rehomed = operation[n].rehomed
                            /\ operation'[n].invalidated = operation[n].invalidated
                            /\ n # o => operation'[n] = operation[n]
<1> PICK m \in Merge : m = operation[o]
  BY MergeFields
<1> PICK v : v = [m EXCEPT !.status = st]
  OBVIOUS
<1>1. v \in Merge /\ v.status = st /\ v.rehomed = m.rehomed /\ v.invalidated = m.invalidated
  BY Zenon DEF Merge
<1>2. o \in Operation /\ operation' = [operation EXCEPT ![o] = v]
  BY MergeFields
<1>3. v # NotMade
  BY <1>1 DEF Merge, NotMade
<1>4. operation'[o] = v /\ \A n \in Operation : n # o => operation'[n] = operation[n]
  BY <1>2 DEF EntityTypeOK
<1>5. operation' \in [Operation -> Merge \cup {NotMade}]
  BY <1>1, <1>2 DEF EntityTypeOK
<1>6. Made' = Made
  BY <1>3, <1>4 DEF Made
<1> QED
  BY <1>1, <1>4, <1>5, <1>6, MergeFields

\* A reversal gives back what its record names; a split leaves it there.
LEMMA CommitBackSteps ==
  ASSUME EntityInv, NEW c \in Curator, CommitReverse(c) \/ CommitSplit(c)
  PROVE  EntityInv'
<1> USE DEF EntityInv
<1> PICK r : r = curating[c]
  OBVIOUS
<1>1. r \in Curation /\ HoldsCreated(r) /\ r.op \in {"reverse", "split"}
  BY DEF CommitReverse, CommitSplit, Undertakes, EntityTypeOK, RequestsHold
<1> PICK o \in Made : o = r.of
  BY <1>1 DEF HoldsCreated
<1> PICK m \in Merge : m = operation[o]
  BY MergeFields
<1> PICK moved \in SUBSET Edge : moved = IF r.op = "reverse" THEN m.rehomed ELSE r.reassigned
  BY <1>1, CurationFields, MergeFields
<1>2. Created(moved) /\ Created(m.invalidated) /\ m.source \in Entity /\ m.target \in Entity
  BY <1>1, MergeFields DEF HoldsCreated, Placed
<1>3. /\ redirected' = redirected \ {m.source}
      /\ ends' = [e \in Edge |-> IF e \in moved THEN Renamed(ends[e], m.target, m.source) ELSE ends[e]]
      /\ curating' = [curating EXCEPT ![c] = NoCuration]
      /\ dated' = dated
  BY DEF CommitReverse, CommitSplit, Undertakes, Release
\* What a reversal gives back is what its merge invalidated; a split gives nothing back.
<1>4. PICK back \in SUBSET Edge :
        /\ back = IF r.op = "reverse" THEN m.invalidated ELSE {}
        /\ edgeStatus' = [e \in Edge |-> IF e \in back THEN "active" ELSE edgeStatus[e]]
        /\ withdrawn' = withdrawn \ back
  <2>1. CASE r.op = "reverse"
    BY <2>1, MergeFields DEF CommitReverse, CommitSplit, Undertakes
  <2>2. CASE r.op # "reverse"
    <3>1. edgeStatus' = edgeStatus /\ withdrawn' = withdrawn
      BY <2>2 DEF CommitReverse, CommitSplit, Undertakes
    <3>2. edgeStatus = [e \in Edge |-> IF e \in {} THEN "active" ELSE edgeStatus[e]] /\ withdrawn = withdrawn \ {}
      BY DEF EntityTypeOK
    <3> QED
      BY <2>2, <3>1, <3>2
  <2> QED
    BY <2>1, <2>2
<1> PICK st \in {"reversed", "split"} : st = IF r.op = "reverse" THEN "reversed" ELSE "split"
  OBVIOUS
<1>5. operation' = [operation EXCEPT ![o].status = st]
  BY DEF CommitReverse, CommitSplit, Undertakes
<1>6. aliasOf' \in [Alias -> Entity] /\ \A a \in Alias : aliasOf'[a] = aliasOf[a] \/ aliasOf'[a] = m.source
  <2>1. CASE CommitReverse(c)
    BY <1>2, <2>1 DEF CommitReverse, EntityTypeOK
  <2>2. CASE CommitSplit(c)
    BY <2>2 DEF CommitSplit, EntityTypeOK
  <2> QED
    BY <2>1, <2>2
<1>7. /\ operation' \in [Operation -> Merge \cup {NotMade}] /\ Made' = Made
      /\ operation'[o].status = st
      /\ \A n \in Made : /\ operation'[n].rehomed = operation[n].rehomed
                         /\ operation'[n].invalidated = operation[n].invalidated
                         /\ n # o => operation'[n] = operation[n]
  BY <1>5, StatusChanges
<1>8. \A e \in Edge : ends[e] \in Pair => ends'[e] \in Pair
  BY <1>2, <1>3 DEF Renamed, Pair
<1>9. EntityTypeOK'
  <2>1. ends' \in [Edge -> Pair \cup {Nowhere}]
    BY <1>2, <1>3, <1>8 DEF EntityTypeOK, Created, Pair
  <2>2. redirected' \subseteq Entity /\ edgeStatus' \in [Edge -> {"none", "active", "invalidated"}]
        /\ curating' \in [Curator -> Curation \cup {NoCuration}] /\ withdrawn' \subseteq Edge
    BY <1>3, <1>4 DEF EntityTypeOK
  <2> QED
    BY <1>3, <1>6, <1>7, <2>1, <2>2 DEF EntityTypeOK, Pair
<1>10. \A e \in Edge : /\ edgeStatus[e] # "none" => edgeStatus'[e] # "none"
                       /\ edgeStatus'[e] # "none" => edgeStatus[e] # "none"
  BY <1>2, <1>4 DEF Created
<1>11. Placed'
  <2>1. \A n \in Made : operation[n].rehomed \subseteq Edge /\ operation[n].invalidated \subseteq Edge
    BY MergeFields
  <2> QED
    BY <1>7, <1>8, <1>10, <2>1 DEF Placed, Created
<1>12. RequestsHold' /\ MergesApart'
  <2>1. \A d \in Curator : d # c /\ Undertakes(d, "merge") => EntitiesOf(d) \cap redirected' = {}
    BY <1>3 DEF MergesApart
  <2> QED
    BY <1>3, <1>7, <1>8, <1>10, <2>1, OthersHold
<1>13. NothingLost'
  <2> SUFFICES ASSUME NEW e \in Edge \ withdrawn', edgeStatus'[e] = "invalidated"
               PROVE  \E n \in Made' : operation'[n].status \in {"active", "split"} /\ e \in operation'[n].invalidated
    BY DEF NothingLost
  <2>1. e \notin back /\ e \notin withdrawn /\ edgeStatus[e] = "invalidated"
    BY <1>4
  <2>2. PICK n \in Made : operation[n].status \in {"active", "split"} /\ e \in operation[n].invalidated
    BY <2>1 DEF NothingLost
  <2>3. n = o => r.op # "reverse"
    BY <1>4, <2>1, <2>2
  <2> QED
    BY <1>1, <1>7, <2>2, <2>3
<1>14. AliasesSurvive'
  BY <1>3, <1>6 DEF AliasesSurvive
<1> QED
  BY <1>9, <1>11, <1>12, <1>13, <1>14

\* What a user invalidates is the user's own.
LEMMA RelationshipSteps ==
  ASSUME EntityInv, NEW e \in Edge, (\E a, b \in Entity : CreateRelationship(e, a, b)) \/ InvalidateRelationship(e)
  PROVE  EntityInv'
<1> USE DEF EntityInv
<1>1. UNCHANGED <<redirected, aliasOf, operation, curating>> /\ Dates(e)
  BY DEF CreateRelationship, InvalidateRelationship
<1>0. \/ /\ \E pair \in Pair : ends' = [ends EXCEPT ![e] = pair]
         /\ edgeStatus' = [edgeStatus EXCEPT ![e] = "active"]
         /\ withdrawn' = withdrawn
      \/ /\ ends' = ends
         /\ edgeStatus[e] = "active"
         /\ edgeStatus' = [edgeStatus EXCEPT ![e] = "invalidated"]
         /\ withdrawn' = withdrawn \cup {e}
  BY DEF CreateRelationship, InvalidateRelationship, Pair
<1>2. /\ ends' \in [Edge -> Pair \cup {Nowhere}] /\ edgeStatus' \in [Edge -> {"none", "active", "invalidated"}]
      /\ withdrawn' \subseteq Edge
  BY <1>0 DEF EntityTypeOK, Pair
<1>3. EntityTypeOK'
  <2>1. PICK past \in SUBSET Made : dated' = [dated EXCEPT ![e] = @ \cup past]
    BY <1>1 DEF Dates
  <2>2. dated' \in [Edge -> SUBSET Operation]
    BY <2>1 DEF EntityTypeOK, Made
  <2> QED
    BY <1>1, <1>2, <2>2 DEF EntityTypeOK, Pair
<1>4. /\ \A f \in Edge : edgeStatus'[f] # "none" => ends'[f] \in Pair
      /\ \A f \in Edge : ends[f] \in Pair /\ edgeStatus[f] # "none" => ends'[f] \in Pair /\ edgeStatus'[f] # "none"
  <2> USE DEF EntityTypeOK, Placed, Pair, Created
  <2>1. ASSUME NEW pair \in Pair, ends' = [ends EXCEPT ![e] = pair], edgeStatus' = [edgeStatus EXCEPT ![e] = "active"]
        PROVE  \A f \in Edge : /\ f = e => ends'[f] \in Pair /\ edgeStatus'[f] = "active"
                               /\ f # e => ends'[f] = ends[f] /\ edgeStatus'[f] = edgeStatus[f]
    BY <2>1
  <2> QED
    BY <1>0, <2>1
<1>5. Made' = Made
  BY <1>1 DEF Made
<1>6. Placed'
  <2>1. \A n \in Made : operation[n].rehomed \subseteq Edge /\ operation[n].invalidated \subseteq Edge
    BY MergeFields
  <2> QED
    BY <1>1, <1>4, <1>5, <2>1 DEF Placed, Created
<1>7. RequestsHold'
  <2> SUFFICES ASSUME NEW d \in Curator, curating[d] # NoCuration PROVE HoldsCreated(curating[d])'
    BY <1>1 DEF RequestsHold
  <2> PICK r : r = curating[d]
    OBVIOUS
  <2>1. r \in Curation /\ HoldsCreated(r)
    BY DEF EntityTypeOK, RequestsHold
  <2>2. HoldsCreated(r)'
    BY <1>4, <1>5, <2>1, CurationFields, HoldsFrame
  <2> QED
    BY <1>1, <2>2
<1>8. MergesApart' /\ AliasesSurvive'
  BY <1>1 DEF MergesApart, Undertakes, EntitiesOf, AliasesSurvive
<1>9. NothingLost'
  <2>1. \A f \in Edge \ withdrawn' : f \notin withdrawn /\ (edgeStatus'[f] = "invalidated" => edgeStatus[f] = "invalidated")
    BY <1>0 DEF EntityTypeOK
  <2> QED
    BY <1>1, <1>5, <2>1 DEF NothingLost
<1> QED
  BY <1>3, <1>6, <1>7, <1>8, <1>9

\* A transaction that rolls back leaves nothing.
LEMMA GiveUpStep == ASSUME EntityInv, NEW c \in Curator, GiveUpCuration(c) PROVE EntityInv'
<1> USE DEF EntityInv
<1>1. /\ UNCHANGED <<redirected, ends, edgeStatus, aliasOf, operation, dated, withdrawn>>
      /\ curating' = [curating EXCEPT ![c] = NoCuration]
  BY DEF GiveUpCuration, Release, graphVars
<1>2. EntityTypeOK' /\ Placed' /\ NothingLost' /\ AliasesSurvive' /\ Made' = Made
  BY <1>1 DEF EntityTypeOK, Placed, Created, Made, NothingLost, AliasesSurvive
<1>3. RequestsHold' /\ MergesApart'
  <2>1. \A d \in Curator : d # c /\ Undertakes(d, "merge") => EntitiesOf(d) \cap redirected' = {}
    BY <1>1 DEF MergesApart
  <2> QED
    BY <1>1, <1>2, <2>1, OthersHold
<1> QED
  BY <1>2, <1>3

LEMMA EntityStutter == ASSUME EntityInv, UNCHANGED entityVars PROVE EntityInv'
<1> USE DEF EntityInv
<1>1. UNCHANGED <<redirected, ends, edgeStatus, aliasOf, operation, dated, curating, withdrawn>>
  BY DEF entityVars
<1>2. EntityTypeOK' /\ Placed' /\ NothingLost' /\ AliasesSurvive'
  BY <1>1 DEF EntityTypeOK, Placed, Created, Made, NothingLost, AliasesSurvive
<1>3. RequestsHold' /\ MergesApart'
  BY <1>1 DEF RequestsHold, HoldsCreated, Created, Made, MergesApart, Undertakes, EntitiesOf
<1> QED
  BY <1>2, <1>3

LEMMA EntityStepKeeps == EntityInv /\ [EntityNext]_entityVars => EntityInv'
<1> SUFFICES ASSUME EntityInv, [EntityNext]_entityVars PROVE EntityInv'
  OBVIOUS
<1>1. ASSUME NEW c \in Curator, NEW a \in Entity, NEW b \in Entity, CheckMerge(c, a, b) PROVE EntityInv'
  BY <1>1, CheckMergeStep
<1>2. ASSUME NEW c \in Curator, NEW o \in Operation, NEW kept \in SUBSET Edge, CommitMerge(c, o, kept) PROVE EntityInv'
  BY <1>2, CommitMergeStep
<1>3. ASSUME NEW c \in Curator, NEW o \in Operation, CheckReverse(c, o) PROVE EntityInv'
  <2> {} \in SUBSET Edge
    OBVIOUS
  <2> QED
    BY <1>3, CheckBackSteps
<1>4. ASSUME NEW c \in Curator, NEW o \in Operation, NEW es \in SUBSET Edge, CheckSplit(c, o, es) PROVE EntityInv'
  BY <1>4, CheckBackSteps
<1>5. ASSUME NEW c \in Curator, CommitReverse(c) \/ CommitSplit(c) PROVE EntityInv'
  BY <1>5, CommitBackSteps
<1>6. ASSUME NEW c \in Curator, GiveUpCuration(c) PROVE EntityInv'
  BY <1>6, GiveUpStep
<1>7. ASSUME NEW e \in Edge, (\E a, b \in Entity : CreateRelationship(e, a, b)) \/ InvalidateRelationship(e)
      PROVE  EntityInv'
  BY <1>7, RelationshipSteps
<1>8. CASE EntityNext
  BY <1>1, <1>2, <1>3, <1>4, <1>5, <1>6, <1>7, <1>8 DEF EntityNext
<1>9. CASE UNCHANGED entityVars
  BY <1>9, EntityStutter
<1> QED
  BY <1>8, <1>9

-----------------------------------------------------------------------------
LEMMA SyncHolds == SyncSpec => []SyncInv
<1>1. SyncInv /\ [SyncNext]_syncVars => SyncInv'
  BY SyncStepKeeps
<1> QED
  BY InitSync, <1>1, PTL DEF SyncSpec

LEMMA EntitiesHold == EntitySpec => []EntityInv
  BY InitEntities, EntityStepKeeps, PTL DEF EntitySpec

\* A step of the two together is a step of one, and none of the other.
LEMMA Composition == Spec => SyncSpec /\ EntitySpec
<1>1. Init => SyncInit /\ EntityInit
  BY DEF Init
<1>2. [Next]_vars => [SyncNext]_syncVars /\ [EntityNext]_entityVars
  BY DEF Next, vars
<1> QED
  BY <1>1, <1>2, PTL DEF Spec, SyncSpec, EntitySpec

(* The rows of the pages a sync walks and of the merges and the requests   *)
(* in flight are of the kinds the code gives them, in both components.     *)
THEOREM RecordsTyped == Spec => []RecordsTypeOK
<1>1. SyncInv /\ EntityInv => RecordsTypeOK
  BY DEF SyncInv, EntityInv, RecordsTypeOK
<1> QED
  BY <1>1, Composition, SyncHolds, EntitiesHold, PTL

(* paginated_resume_walk.py, connector_accounts.py: whatever items change, *)
(* vanish or move between the calls of a walk, and whichever of its runs   *)
(* fail, die, are reaped or come late, an item not later than the          *)
(* watermark that stands is in the rows as the provider has it -- unless a *)
(* backfill is still to come to it, or it is `exposed`: it moved off the   *)
(* page asked for next, its row was written by a reaped run, or its update *)
(* fell in the second of one that a walk has seen.                         *)
THEOREM CoveredHolds == SyncSpec => []Covered
<1>1. SyncInv => Covered
  BY DEF SyncInv
<1> QED
  BY <1>1, SyncHolds, PTL

(* A pending backfill never goes back to a page it has passed.             *)
THEOREM BackfillOnlyAdvances == SyncSpec => BackfillAdvances
<1>1. SyncInv /\ [SyncNext]_syncVars => [resumeAt # 0 /\ resumeAt' # 0 => resumeAt' >= resumeAt]_syncVars
  BY SyncStepKeeps
<1> QED
  BY <1>1, SyncHolds, PTL DEF SyncSpec, BackfillAdvances

(* entity_operations.py: a relationship that a merge invalidated stays in  *)
(* the record of a merge that can give it back, through any merges,        *)
(* reversals and splits, and any interleaving of their reads and commits   *)
(* with users who create and invalidate relationships.                     *)
THEOREM NothingIsLost == EntitySpec => []NothingLost
<1>1. EntityInv => NothingLost
  BY DEF EntityInv
<1> QED
  BY <1>1, EntitiesHold, PTL

(* An alias never names an entity that is merged away: no merge in flight  *)
(* has the entities of another, so the target of one is not redirected     *)
(* between its check and its commit.                                       *)
THEOREM AliasesOutliveMerges == EntitySpec => []AliasesSurvive
<1>1. EntityInv => AliasesSurvive
  BY DEF EntityInv
<1> QED
  BY <1>1, EntitiesHold, PTL
=============================================================================
