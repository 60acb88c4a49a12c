--------------------------- MODULE MembershipProofs ---------------------------
(***************************************************************************)
(* A workspace keeps an owner, a removed member owns nothing, and an email *)
(* has one pending invitation -- for any accounts, resources, requests and *)
(* interleavings.                                                          *)
(*                                                                         *)
(* What a request found true must still be true when it commits: that is   *)
(* the strengthening (MemberInv), and what makes it last is the membership *)
(* lock, for a removal or role change and for a new or transferred         *)
(* resource, the lock of workspace and email for an invitation, and the    *)
(* membership's row for its acceptance.                                    *)
(***************************************************************************)
EXTENDS Membership, TLAPS

\* The requests of each kind.
Changing == [op : {"change"}, of : Account, to : Role, asOwner : BOOLEAN, checked : BOOLEAN]
Removing == [op : {"remove"}, of : Account, asOwner : BOOLEAN, checked : BOOLEAN]
Inviting == [op : {"invite"}, offer : Offer, checked : BOOLEAN]
Accepting == [op : {"accept"}, of : Account, invitation : Invitation, as : Role]
Owning == [op : {"own"}, of : Account, resource : Resource]

\* A role change or removal that holds the exclusive lock, and one that will
\* leave its member no owner.
CheckedMember(p) == Checked(p, "change") \/ Checked(p, "remove")
Taking(p) == Checked(p, "remove") \/ (Checked(p, "change") /\ doing[p].to # "owner")

\* The membership lock is held by the requests that need it, and excludes.
Locks ==
  /\ \A p \in MemberRequest :
       /\ CheckedMember(p) <=> holds[p] = "exclusive"
       /\ Serving(p, "own") => holds[p] = "shared"
  /\ \A q \in OtherRequest : holds[q] # "exclusive"
  /\ \A x, y \in LockHolder : holds[x] = "exclusive" /\ x # y => holds[y] = "nothing"

\* A request that checked is about a member who still is one, or about an
\* account that is about to become one, through that request alone.
Subjects ==
  /\ \A p \in MemberRequest :
       /\ CheckedMember(p) => Active(doing[p].of)
       /\ Serving(p, "own") => Active(doing[p].of)
       /\ Serving(p, "accept") => ~Active(doing[p].of)
  /\ \A p, q \in MemberRequest :
       Serving(p, "accept") /\ Serving(q, "accept") /\ p # q => doing[p].of # doing[q].of

\* Whoever is about to stop being an owner leaves another; whoever is about
\* to be removed owns nothing.
OwnerRemains == \A p \in MemberRequest : Taking(p) => \E a \in Account : role[a] = "owner" /\ a # doing[p].of
NothingOwned == \A p \in MemberRequest : Checked(p, "remove") => \A r \in Resource : owner[r] # doing[p].of

\* An email about to be invited has no pending invitation, nor another about
\* to be made.
Emails ==
  /\ \A p \in MemberRequest : Checked(p, "invite") => NonePending(doing[p].offer.for)
  /\ \A p, q \in MemberRequest :
       Checked(p, "invite") /\ Checked(q, "invite") /\ p # q => doing[p].offer.for # doing[q].offer.for

\* The inductive invariant.
MemberInv ==
  /\ MembershipTypeOK
  /\ Locks
  /\ Subjects
  /\ HasOwner /\ OwnerRemains
  /\ RemovedOwnsNothing /\ NothingOwned
  /\ OnePendingPerEmail /\ Emails

-----------------------------------------------------------------------------
\* A request in flight has the fields of its kind.
LEMMA Kinds ==
  ASSUME MembershipTypeOK, NEW p \in MemberRequest
  PROVE  /\ Idle(p) \/ doing[p] \in Changing \cup Removing \cup Inviting \cup Accepting \cup Owning
         /\ Serving(p, "change") => doing[p] \in Changing
         /\ Serving(p, "remove") => doing[p] \in Removing
         /\ Serving(p, "invite") => doing[p] \in Inviting
         /\ Serving(p, "accept") => doing[p] \in Accepting
         /\ Serving(p, "own") => doing[p] \in Owning
<1>1. Idle(p) \/ doing[p] \in Changing \cup Removing \cup Inviting \cup Accepting \cup Owning
  BY DEF MembershipTypeOK, Idle, Asked, Changing, Removing, Inviting, Accepting, Owning
<1> QED
  BY <1>1 DEF Serving, Changing, Removing, Inviting, Accepting, Owning

-----------------------------------------------------------------------------
\* MemberInv holds at first, and every action keeps it: one lemma for each.
LEMMA InitMember == MembershipInit => MemberInv
<1> SUFFICES ASSUME MembershipInit PROVE MemberInv
  OBVIOUS
<1>1. MembershipTypeOK
  BY MembershipAssumption DEF MembershipInit, MembershipTypeOK, Role, NoOffer
<1>2. \A p \in MemberRequest : doing[p] = NoRequest
  BY DEF MembershipInit
<1>3. Locks /\ Subjects /\ OwnerRemains /\ NothingOwned /\ Emails
  BY <1>2 DEF MembershipInit, Locks, Subjects, OwnerRemains, NothingOwned, Emails, CheckedMember, Taking,
              Checked, Serving, Idle, LockHolder
<1>4. HasOwner
  BY DEF MembershipInit, HasOwner, Owners
<1>5. RemovedOwnsNothing /\ OnePendingPerEmail
  BY DEF MembershipInit, RemovedOwnsNothing, OnePendingPerEmail, Pending
<1> QED
  BY <1>1, <1>3, <1>4, <1>5 DEF MemberInv

LEMMA AskChangeStep ==
  ASSUME MemberInv, NEW p \in MemberRequest, NEW by \in Account, NEW a \in Account, NEW r \in Assignable,
         AskChange(p, by, a, r)
  PROVE  MemberInv'
<1> DEFINE v == [op |-> "change", of |-> a, to |-> r, asOwner |-> role[by] = "owner", checked |-> FALSE]
<1>1. /\ doing' = [doing EXCEPT ![p] = v] /\ UNCHANGED <<role, owner, invited>>
      /\ UNCHANGED holds
      /\ doing[p] = NoRequest
  BY DEF AskChange, Serve, Idle
<1>2. v \in Asked
  BY MembershipAssumption DEF Asked
<1>t. MembershipTypeOK'
  BY <1>1, <1>2 DEF MemberInv, MembershipTypeOK, LockHolder, Asked
<1>l1. Locks'
  BY <1>1, <1>2 DEF MemberInv, MembershipTypeOK, Locks, LockHolder, CheckedMember, Checked, Serving, Idle
<1>s2. Subjects'
  BY <1>1, <1>2 DEF MemberInv, MembershipTypeOK, Locks, Subjects, Active, LockHolder, CheckedMember, Checked, Serving, Idle
<1>o3. OwnerRemains'
  BY <1>1, <1>2 DEF MemberInv, MembershipTypeOK, Locks, Subjects, OwnerRemains, Taking, LockHolder, Active, CheckedMember, Checked, Serving, Idle
<1>n4. NothingOwned'
  BY <1>1, <1>2 DEF MemberInv, MembershipTypeOK, Locks, NothingOwned, LockHolder, CheckedMember, Checked, Serving, Idle
<1>e5. Emails'
  BY <1>1, <1>2 DEF MemberInv, MembershipTypeOK, Emails, NonePending, CheckedMember, Checked, Serving, Idle
<1>h6. HasOwner'
  BY <1>1, <1>2 DEF MemberInv, MembershipTypeOK, HasOwner, Owners
<1>r7. RemovedOwnsNothing'
  BY <1>1, <1>2 DEF MemberInv, MembershipTypeOK, RemovedOwnsNothing, Active
<1>o8. OnePendingPerEmail'
  BY <1>1, <1>2 DEF MemberInv, MembershipTypeOK, OnePendingPerEmail, Pending
<1> QED
  BY <1>t, <1>l1, <1>s2, <1>o3, <1>n4, <1>e5, <1>h6, <1>r7, <1>o8 DEF MemberInv

LEMMA AskRemoveStep ==
  ASSUME MemberInv, NEW p \in MemberRequest, NEW by \in Account, NEW a \in Account,
         AskRemove(p, by, a)
  PROVE  MemberInv'
<1> DEFINE v == [op |-> "remove", of |-> a, asOwner |-> role[by] = "owner", checked |-> FALSE]
<1>1. /\ doing' = [doing EXCEPT ![p] = v] /\ UNCHANGED <<role, owner, invited>>
      /\ UNCHANGED holds
      /\ doing[p] = NoRequest
  BY DEF AskRemove, Serve, Idle
<1>2. v \in Asked
  BY DEF Asked
<1>t. MembershipTypeOK'
  BY <1>1, <1>2 DEF MemberInv, MembershipTypeOK, LockHolder, Asked
<1>l1. Locks'
  BY <1>1, <1>2 DEF MemberInv, MembershipTypeOK, Locks, LockHolder, CheckedMember, Checked, Serving, Idle
<1>s2. Subjects'
  BY <1>1, <1>2 DEF MemberInv, MembershipTypeOK, Locks, Subjects, Active, LockHolder, CheckedMember, Checked, Serving, Idle
<1>o3. OwnerRemains'
  BY <1>1, <1>2 DEF MemberInv, MembershipTypeOK, Locks, Subjects, OwnerRemains, Taking, LockHolder, Active, CheckedMember, Checked, Serving, Idle
<1>n4. NothingOwned'
  BY <1>1, <1>2 DEF MemberInv, MembershipTypeOK, Locks, NothingOwned, LockHolder, CheckedMember, Checked, Serving, Idle
<1>e5. Emails'
  BY <1>1, <1>2 DEF MemberInv, MembershipTypeOK, Emails, NonePending, CheckedMember, Checked, Serving, Idle
<1>h6. HasOwner'
  BY <1>1, <1>2 DEF MemberInv, MembershipTypeOK, HasOwner, Owners
<1>r7. RemovedOwnsNothing'
  BY <1>1, <1>2 DEF MemberInv, MembershipTypeOK, RemovedOwnsNothing, Active
<1>o8. OnePendingPerEmail'
  BY <1>1, <1>2 DEF MemberInv, MembershipTypeOK, OnePendingPerEmail, Pending
<1> QED
  BY <1>t, <1>l1, <1>s2, <1>o3, <1>n4, <1>e5, <1>h6, <1>r7, <1>o8 DEF MemberInv

LEMMA AskInviteStep ==
  ASSUME MemberInv, NEW p \in MemberRequest, NEW by \in Account, NEW a \in Account, NEW r \in Assignable,
         AskInvite(p, by, a, r)
  PROVE  MemberInv'
<1> DEFINE v == [op |-> "invite", offer |-> [for |-> a, as |-> r, by |-> by], checked |-> FALSE]
<1>1. /\ doing' = [doing EXCEPT ![p] = v] /\ UNCHANGED <<role, owner, invited>>
      /\ UNCHANGED holds
      /\ doing[p] = NoRequest
  BY DEF AskInvite, Serve, Idle
<1>2. v \in Asked
  BY MembershipAssumption DEF Asked, Offer
<1>t. MembershipTypeOK'
  BY <1>1, <1>2 DEF MemberInv, MembershipTypeOK, LockHolder, Asked
<1>l1. Locks'
  BY <1>1, <1>2 DEF MemberInv, MembershipTypeOK, Locks, LockHolder, CheckedMember, Checked, Serving, Idle
<1>s2. Subjects'
  BY <1>1, <1>2 DEF MemberInv, MembershipTypeOK, Locks, Subjects, Active, LockHolder, CheckedMember, Checked, Serving, Idle
<1>o3. OwnerRemains'
  BY <1>1, <1>2 DEF MemberInv, MembershipTypeOK, Locks, Subjects, OwnerRemains, Taking, LockHolder, Active, CheckedMember, Checked, Serving, Idle
<1>n4. NothingOwned'
  BY <1>1, <1>2 DEF MemberInv, MembershipTypeOK, Locks, NothingOwned, LockHolder, CheckedMember, Checked, Serving, Idle
<1>e5. Emails'
  BY <1>1, <1>2 DEF MemberInv, MembershipTypeOK, Emails, NonePending, CheckedMember, Checked, Serving, Idle
<1>h6. HasOwner'
  BY <1>1, <1>2 DEF MemberInv, MembershipTypeOK, HasOwner, Owners
<1>r7. RemovedOwnsNothing'
  BY <1>1, <1>2 DEF MemberInv, MembershipTypeOK, RemovedOwnsNothing, Active
<1>o8. OnePendingPerEmail'
  BY <1>1, <1>2 DEF MemberInv, MembershipTypeOK, OnePendingPerEmail, Pending
<1> QED
  BY <1>t, <1>l1, <1>s2, <1>o3, <1>n4, <1>e5, <1>h6, <1>r7, <1>o8 DEF MemberInv

LEMMA CheckChangeStep ==
  ASSUME MemberInv, NEW p \in MemberRequest,
         CheckChange(p)
  PROVE  MemberInv'
<1> DEFINE v == [doing[p] EXCEPT !.checked = TRUE]
<1>k. doing[p] \in Changing
  BY Kinds DEF MemberInv, CheckChange
<1>u. CheckUnderLock(p) /\ Serving(p, "change") /\ ~doing[p].checked
  BY DEF CheckChange
<1>w. /\ doing' = [doing EXCEPT ![p] = v] /\ UNCHANGED <<role, owner, invited>>
      /\ holds' = [holds EXCEPT ![p] = "exclusive"]
      /\ \A x \in LockHolder : holds[x] = "nothing"
      /\ role[doing[p].of] # "none"
  BY <1>u DEF CheckUnderLock, Serve, Take, ExclusiveFree, Active
<1>m. doing[p].to # "owner" => MayTakeFrom(p)
  BY DEF CheckChange
<1>n. doing[p].to # "owner" /\ role[doing[p].of] = "owner" => ~SoleOwner(doing[p].of)
  BY <1>m DEF MayTakeFrom
<1>1. /\ doing' = [doing EXCEPT ![p] = v] /\ UNCHANGED <<role, owner, invited>>
      /\ holds' = [holds EXCEPT ![p] = "exclusive"]
      /\ doing[p].op = "change" /\ doing[p] # NoRequest /\ ~doing[p].checked
      /\ doing[p] \in Changing
      /\ \A x \in LockHolder : holds[x] = "nothing"
      /\ role[doing[p].of] # "none"
      /\ doing[p].to # "owner" /\ role[doing[p].of] = "owner" => ~SoleOwner(doing[p].of)
  BY <1>k, <1>u, <1>w, <1>n DEF Serving, Idle
<1>2. v \in Asked
  BY <1>1 DEF Changing, Asked
<1>3. v.op = "change" /\ v.checked /\ v # NoRequest
  BY <1>1, <1>2, MembershipAssumption DEF Changing
<1>t. MembershipTypeOK'
  BY <1>1, <1>2 DEF MemberInv, MembershipTypeOK, LockHolder, Asked
<1>l1. Locks'
  <2> HIDE DEF v
  <2> QED
    BY <1>1, <1>2, <1>3, MembershipAssumption DEF MemberInv, MembershipTypeOK, Locks, LockHolder, CheckedMember, Checked, Serving, Idle
<1>s2. Subjects'
  BY <1>1, <1>2 DEF MemberInv, MembershipTypeOK, Locks, Subjects, Active, LockHolder, CheckedMember, Checked, Serving, Idle, Changing
<1>o3. OwnerRemains'
  BY <1>1, <1>2 DEF MemberInv, MembershipTypeOK, Locks, Subjects, OwnerRemains, Taking, LockHolder, Active, CheckedMember, Checked, Serving, Idle , HasOwner, SoleOwner, Owners, Changing
<1>n4. NothingOwned'
  BY <1>1, <1>2 DEF MemberInv, MembershipTypeOK, Locks, NothingOwned, LockHolder, CheckedMember, Checked, Serving, Idle
<1>e5. Emails'
  BY <1>1, <1>2 DEF MemberInv, MembershipTypeOK, Emails, NonePending, CheckedMember, Checked, Serving, Idle
<1>h6. HasOwner'
  BY <1>1, <1>2 DEF MemberInv, MembershipTypeOK, HasOwner, Owners
<1>r7. RemovedOwnsNothing'
  BY <1>1, <1>2 DEF MemberInv, MembershipTypeOK, RemovedOwnsNothing, Active
<1>o8. OnePendingPerEmail'
  BY <1>1, <1>2 DEF MemberInv, MembershipTypeOK, OnePendingPerEmail, Pending
<1> QED
  BY <1>t, <1>l1, <1>s2, <1>o3, <1>n4, <1>e5, <1>h6, <1>r7, <1>o8 DEF MemberInv

LEMMA CheckRemoveStep ==
  ASSUME MemberInv, NEW p \in MemberRequest,
         CheckRemove(p)
  PROVE  MemberInv'
<1> DEFINE v == [doing[p] EXCEPT !.checked = TRUE]
<1>k. doing[p] \in Removing
  BY Kinds DEF MemberInv, CheckRemove
<1>u. CheckUnderLock(p) /\ Serving(p, "remove") /\ ~doing[p].checked /\ MayTakeFrom(p) /\ Owned(doing[p].of) = {}
  BY DEF CheckRemove
<1>w. /\ doing' = [doing EXCEPT ![p] = v] /\ UNCHANGED <<role, owner, invited>>
      /\ holds' = [holds EXCEPT ![p] = "exclusive"]
      /\ \A x \in LockHolder : holds[x] = "nothing"
      /\ role[doing[p].of] # "none"
  BY <1>u DEF CheckUnderLock, Serve, Take, ExclusiveFree, Active
<1>1. /\ doing' = [doing EXCEPT ![p] = v] /\ UNCHANGED <<role, owner, invited>>
      /\ holds' = [holds EXCEPT ![p] = "exclusive"]
      /\ doing[p].op = "remove" /\ doing[p] # NoRequest /\ ~doing[p].checked
      /\ doing[p] \in Removing
      /\ \A x \in LockHolder : holds[x] = "nothing"
      /\ role[doing[p].of] # "none"
      /\ role[doing[p].of] = "owner" => ~SoleOwner(doing[p].of)
      /\ \A r \in Resource : owner[r] # doing[p].of
  BY <1>k, <1>u, <1>w DEF Serving, Idle, MayTakeFrom, Owned
<1>2. v \in Asked
  BY <1>1 DEF Removing, Asked
<1>3. v.op = "remove" /\ v.checked /\ v # NoRequest
  BY <1>1, <1>2, MembershipAssumption DEF Removing
<1>t. MembershipTypeOK'
  BY <1>1, <1>2 DEF MemberInv, MembershipTypeOK, LockHolder, Asked
<1>l1. Locks'
  <2> HIDE DEF v
  <2> QED
    BY <1>1, <1>2, <1>3, MembershipAssumption DEF MemberInv, MembershipTypeOK, Locks, LockHolder, CheckedMember, Checked, Serving, Idle
<1>s2. Subjects'
  BY <1>1, <1>2 DEF MemberInv, MembershipTypeOK, Locks, Subjects, Active, LockHolder, CheckedMember, Checked, Serving, Idle, Removing
<1>o3. OwnerRemains'
  BY <1>1, <1>2 DEF MemberInv, MembershipTypeOK, Locks, Subjects, OwnerRemains, Taking, LockHolder, Active, CheckedMember, Checked, Serving, Idle , HasOwner, SoleOwner, Owners, Removing
<1>n4. NothingOwned'
  BY <1>1, <1>2 DEF MemberInv, MembershipTypeOK, Locks, NothingOwned, LockHolder, CheckedMember, Checked, Serving, Idle, Removing
<1>e5. Emails'
  BY <1>1, <1>2 DEF MemberInv, MembershipTypeOK, Emails, NonePending, CheckedMember, Checked, Serving, Idle
<1>h6. HasOwner'
  BY <1>1, <1>2 DEF MemberInv, MembershipTypeOK, HasOwner, Owners
<1>r7. RemovedOwnsNothing'
  BY <1>1, <1>2 DEF MemberInv, MembershipTypeOK, RemovedOwnsNothing, Active
<1>o8. OnePendingPerEmail'
  BY <1>1, <1>2 DEF MemberInv, MembershipTypeOK, OnePendingPerEmail, Pending
<1> QED
  BY <1>t, <1>l1, <1>s2, <1>o3, <1>n4, <1>e5, <1>h6, <1>r7, <1>o8 DEF MemberInv

LEMMA CheckInviteStep ==
  ASSUME MemberInv, NEW p \in MemberRequest,
         CheckInvite(p)
  PROVE  MemberInv'
<1> DEFINE v == [doing[p] EXCEPT !.checked = TRUE]
<1>1. /\ doing' = [doing EXCEPT ![p] = v] /\ UNCHANGED <<role, owner, invited>>
      /\ UNCHANGED holds
      /\ doing[p].op = "invite" /\ doing[p] # NoRequest /\ ~doing[p].checked
      /\ doing[p] \in Inviting
      /\ EmailFree(doing[p].offer.for)
      /\ NonePending(doing[p].offer.for)
  BY Kinds DEF MemberInv, CheckInvite, Serve, Serving, Idle
<1>2. v \in Asked
  BY <1>1 DEF Inviting, Asked
<1>t. MembershipTypeOK'
  BY <1>1, <1>2 DEF MemberInv, MembershipTypeOK, LockHolder, Asked
<1>l1. Locks'
  BY <1>1, <1>2 DEF MemberInv, MembershipTypeOK, Locks, LockHolder, CheckedMember, Checked, Serving, Idle
<1>s2. Subjects'
  BY <1>1, <1>2 DEF MemberInv, MembershipTypeOK, Locks, Subjects, Active, LockHolder, CheckedMember, Checked, Serving, Idle
<1>o3. OwnerRemains'
  BY <1>1, <1>2 DEF MemberInv, MembershipTypeOK, Locks, Subjects, OwnerRemains, Taking, LockHolder, Active, CheckedMember, Checked, Serving, Idle
<1>n4. NothingOwned'
  BY <1>1, <1>2 DEF MemberInv, MembershipTypeOK, Locks, NothingOwned, LockHolder, CheckedMember, Checked, Serving, Idle
<1>e5. Emails'
  BY <1>1, <1>2 DEF MemberInv, MembershipTypeOK, Emails, NonePending, CheckedMember, Checked, Serving, Idle, EmailFree, Inviting
<1>h6. HasOwner'
  BY <1>1, <1>2 DEF MemberInv, MembershipTypeOK, HasOwner, Owners
<1>r7. RemovedOwnsNothing'
  BY <1>1, <1>2 DEF MemberInv, MembershipTypeOK, RemovedOwnsNothing, Active
<1>o8. OnePendingPerEmail'
  BY <1>1, <1>2 DEF MemberInv, MembershipTypeOK, OnePendingPerEmail, Pending
<1> QED
  BY <1>t, <1>l1, <1>s2, <1>o3, <1>n4, <1>e5, <1>h6, <1>r7, <1>o8 DEF MemberInv

LEMMA CheckAcceptStep ==
  ASSUME MemberInv, NEW p \in MemberRequest, NEW i \in Invitation,
         CheckAccept(p, i)
  PROVE  MemberInv'
<1> DEFINE v == [op |-> "accept", of |-> invited[i].for, invitation |-> i, as |-> invited[i].as]
<1>1. /\ doing' = [doing EXCEPT ![p] = v] /\ UNCHANGED <<role, owner, invited>>
      /\ UNCHANGED holds
      /\ doing[p] = NoRequest
      /\ invited[i] \in Offer
      /\ ~Active(invited[i].for)
      /\ MembershipFree(invited[i].for)
  BY DEF CheckAccept, Serve, Idle, Pending, MemberInv, MembershipTypeOK
<1>2. v \in Asked
  BY <1>1 DEF Asked, Offer
<1>t. MembershipTypeOK'
  BY <1>1, <1>2 DEF MemberInv, MembershipTypeOK, LockHolder, Asked
<1>l1. Locks'
  BY <1>1, <1>2 DEF MemberInv, MembershipTypeOK, Locks, LockHolder, CheckedMember, Checked, Serving, Idle
<1>s2. Subjects'
  BY <1>1, <1>2 DEF MemberInv, MembershipTypeOK, Locks, Subjects, Active, LockHolder, CheckedMember, Checked, Serving, Idle, MembershipFree
<1>o3. OwnerRemains'
  BY <1>1, <1>2 DEF MemberInv, MembershipTypeOK, Locks, Subjects, OwnerRemains, Taking, LockHolder, Active, CheckedMember, Checked, Serving, Idle
<1>n4. NothingOwned'
  BY <1>1, <1>2 DEF MemberInv, MembershipTypeOK, Locks, NothingOwned, LockHolder, CheckedMember, Checked, Serving, Idle
<1>e5. Emails'
  BY <1>1, <1>2 DEF MemberInv, MembershipTypeOK, Emails, NonePending, CheckedMember, Checked, Serving, Idle
<1>h6. HasOwner'
  BY <1>1, <1>2 DEF MemberInv, MembershipTypeOK, HasOwner, Owners
<1>r7. RemovedOwnsNothing'
  BY <1>1, <1>2 DEF MemberInv, MembershipTypeOK, RemovedOwnsNothing, Active
<1>o8. OnePendingPerEmail'
  BY <1>1, <1>2 DEF MemberInv, MembershipTypeOK, OnePendingPerEmail, Pending
<1> QED
  BY <1>t, <1>l1, <1>s2, <1>o3, <1>n4, <1>e5, <1>h6, <1>r7, <1>o8 DEF MemberInv

LEMMA CheckCreateStep ==
  ASSUME MemberInv, NEW p \in MemberRequest, NEW by \in Account, NEW r \in Resource,
         CheckCreate(p, by, r)
  PROVE  MemberInv'
<1> DEFINE v == [op |-> "own", of |-> by, resource |-> r]
<1>1. /\ doing' = [doing EXCEPT ![p] = v] /\ UNCHANGED <<role, owner, invited>>
      /\ holds' = [holds EXCEPT ![p] = "shared"]
      /\ doing[p] = NoRequest
      /\ Active(by)
      /\ \A x \in LockHolder : holds[x] # "exclusive"
  BY DEF CheckCreate, Serve, Take, Idle, SharedFree, Writer, Role, Active
<1>2. v \in Asked
  BY DEF Asked
<1>t. MembershipTypeOK'
  BY <1>1, <1>2 DEF MemberInv, MembershipTypeOK, LockHolder, Asked
<1>l1. Locks'
  BY <1>1, <1>2 DEF MemberInv, MembershipTypeOK, Locks, LockHolder, CheckedMember, Checked, Serving, Idle
<1>s2. Subjects'
  BY <1>1, <1>2 DEF MemberInv, MembershipTypeOK, Locks, Subjects, Active, LockHolder, CheckedMember, Checked, Serving, Idle
<1>o3. OwnerRemains'
  BY <1>1, <1>2 DEF MemberInv, MembershipTypeOK, Locks, Subjects, OwnerRemains, Taking, LockHolder, Active, CheckedMember, Checked, Serving, Idle
<1>n4. NothingOwned'
  BY <1>1, <1>2 DEF MemberInv, MembershipTypeOK, Locks, NothingOwned, LockHolder, CheckedMember, Checked, Serving, Idle
<1>e5. Emails'
  BY <1>1, <1>2 DEF MemberInv, MembershipTypeOK, Emails, NonePending, CheckedMember, Checked, Serving, Idle
<1>h6. HasOwner'
  BY <1>1, <1>2 DEF MemberInv, MembershipTypeOK, HasOwner, Owners
<1>r7. RemovedOwnsNothing'
  BY <1>1, <1>2 DEF MemberInv, MembershipTypeOK, RemovedOwnsNothing, Active
<1>o8. OnePendingPerEmail'
  BY <1>1, <1>2 DEF MemberInv, MembershipTypeOK, OnePendingPerEmail, Pending
<1> QED
  BY <1>t, <1>l1, <1>s2, <1>o3, <1>n4, <1>e5, <1>h6, <1>r7, <1>o8 DEF MemberInv

LEMMA CheckTransferStep ==
  ASSUME MemberInv, NEW p \in MemberRequest, NEW by \in Account, NEW r \in Resource, NEW a \in Account,
         CheckTransfer(p, by, r, a)
  PROVE  MemberInv'
<1> DEFINE v == [op |-> "own", of |-> a, resource |-> r]
<1>1. /\ doing' = [doing EXCEPT ![p] = v] /\ UNCHANGED <<role, owner, invited>>
      /\ holds' = [holds EXCEPT ![p] = "shared"]
      /\ doing[p] = NoRequest
      /\ Active(a)
      /\ \A x \in LockHolder : holds[x] # "exclusive"
  BY DEF CheckTransfer, Serve, Take, Idle, SharedFree, Active
<1>2. v \in Asked
  BY DEF Asked
<1>t. MembershipTypeOK'
  BY <1>1, <1>2 DEF MemberInv, MembershipTypeOK, LockHolder, Asked
<1>l1. Locks'
  BY <1>1, <1>2 DEF MemberInv, MembershipTypeOK, Locks, LockHolder, CheckedMember, Checked, Serving, Idle
<1>s2. Subjects'
  BY <1>1, <1>2 DEF MemberInv, MembershipTypeOK, Locks, Subjects, Active, LockHolder, CheckedMember, Checked, Serving, Idle
<1>o3. OwnerRemains'
  BY <1>1, <1>2 DEF MemberInv, MembershipTypeOK, Locks, Subjects, OwnerRemains, Taking, LockHolder, Active, CheckedMember, Checked, Serving, Idle
<1>n4. NothingOwned'
  BY <1>1, <1>2 DEF MemberInv, MembershipTypeOK, Locks, NothingOwned, LockHolder, CheckedMember, Checked, Serving, Idle
<1>e5. Emails'
  BY <1>1, <1>2 DEF MemberInv, MembershipTypeOK, Emails, NonePending, CheckedMember, Checked, Serving, Idle
<1>h6. HasOwner'
  BY <1>1, <1>2 DEF MemberInv, MembershipTypeOK, HasOwner, Owners
<1>r7. RemovedOwnsNothing'
  BY <1>1, <1>2 DEF MemberInv, MembershipTypeOK, RemovedOwnsNothing, Active
<1>o8. OnePendingPerEmail'
  BY <1>1, <1>2 DEF MemberInv, MembershipTypeOK, OnePendingPerEmail, Pending
<1> QED
  BY <1>t, <1>l1, <1>s2, <1>o3, <1>n4, <1>e5, <1>h6, <1>r7, <1>o8 DEF MemberInv

LEMMA AbandonStep ==
  ASSUME MemberInv, NEW p \in MemberRequest,
         Abandon(p)
  PROVE  MemberInv'
<1>1. /\ doing' = [doing EXCEPT ![p] = NoRequest] /\ holds' = [holds EXCEPT ![p] = "nothing"]
      /\ UNCHANGED <<role, owner, invited>>
  BY DEF Abandon, Serve, Take, End
<1>t. MembershipTypeOK'
  BY <1>1 DEF MemberInv, MembershipTypeOK, LockHolder
<1>l1. Locks'
  BY <1>1 DEF MemberInv, MembershipTypeOK, Locks, LockHolder, CheckedMember, Checked, Serving, Idle
<1>s2. Subjects'
  BY <1>1 DEF MemberInv, MembershipTypeOK, Locks, Subjects, Active, LockHolder, CheckedMember, Checked, Serving, Idle
<1>o3. OwnerRemains'
  BY <1>1 DEF MemberInv, MembershipTypeOK, Locks, Subjects, OwnerRemains, Taking, LockHolder, Active, CheckedMember, Checked, Serving, Idle
<1>n4. NothingOwned'
  BY <1>1 DEF MemberInv, MembershipTypeOK, Locks, NothingOwned, LockHolder, CheckedMember, Checked, Serving, Idle
<1>e5. Emails'
  BY <1>1 DEF MemberInv, MembershipTypeOK, Emails, NonePending, CheckedMember, Checked, Serving, Idle
<1>h6. HasOwner'
  BY <1>1 DEF MemberInv, MembershipTypeOK, HasOwner, Owners
<1>r7. RemovedOwnsNothing'
  BY <1>1 DEF MemberInv, MembershipTypeOK, RemovedOwnsNothing, Active
<1>o8. OnePendingPerEmail'
  BY <1>1 DEF MemberInv, MembershipTypeOK, OnePendingPerEmail, Pending
<1> QED
  BY <1>t, <1>l1, <1>s2, <1>o3, <1>n4, <1>e5, <1>h6, <1>r7, <1>o8 DEF MemberInv

LEMMA CommitChangeStep ==
  ASSUME MemberInv, NEW p \in MemberRequest,
         CommitChange(p)
  PROVE  MemberInv'
<1>1. /\ doing' = [doing EXCEPT ![p] = NoRequest] /\ holds' = [holds EXCEPT ![p] = "nothing"]
      /\ role' = [role EXCEPT ![doing[p].of] = doing[p].to]
      /\ UNCHANGED <<owner, invited>>
  BY DEF CommitChange, Serve, Take, End
<1>2. Checked(p, "change") /\ doing[p] \in Changing
  BY Kinds DEF MemberInv, CommitChange, Checked
<1>3. doing[p].of \in Account /\ doing[p].to \in Role
  BY <1>2 DEF Changing
<1>4. \A q \in MemberRequest : q # p => ~CheckedMember(q)
  BY <1>2 DEF MemberInv, Locks, CheckedMember, LockHolder
<1>5. Active(doing[p].of) /\ (doing[p].to # "owner" => \E a \in Account : role[a] = "owner" /\ a # doing[p].of)
  BY <1>2 DEF MemberInv, Subjects, OwnerRemains, CheckedMember, Taking
<1>t. MembershipTypeOK'
  BY <1>1, <1>2, <1>3, <1>4, <1>5 DEF MemberInv, MembershipTypeOK, LockHolder
<1>l1. Locks'
  BY <1>1, <1>2, <1>3, <1>4, <1>5 DEF MemberInv, MembershipTypeOK, Locks, LockHolder, CheckedMember, Checked, Serving, Idle
<1>s2. Subjects'
  BY <1>1, <1>2, <1>3, <1>4, <1>5 DEF MemberInv, MembershipTypeOK, Locks, Subjects, Active, LockHolder, CheckedMember, Checked, Serving, Idle, Role
<1>o3. OwnerRemains'
  BY <1>1, <1>2, <1>3, <1>4, <1>5 DEF MemberInv, MembershipTypeOK, Locks, Subjects, OwnerRemains, Taking, LockHolder, Active, CheckedMember, Checked, Serving, Idle
<1>n4. NothingOwned'
  BY <1>1, <1>2, <1>3, <1>4, <1>5 DEF MemberInv, MembershipTypeOK, Locks, NothingOwned, LockHolder, CheckedMember, Checked, Serving, Idle
<1>e5. Emails'
  BY <1>1, <1>2, <1>3, <1>4, <1>5 DEF MemberInv, MembershipTypeOK, Emails, NonePending, CheckedMember, Checked, Serving, Idle
<1>h6. HasOwner'
  BY <1>1, <1>2, <1>3, <1>4, <1>5 DEF MemberInv, MembershipTypeOK, HasOwner, Owners
<1>r7. RemovedOwnsNothing'
  BY <1>1, <1>2, <1>3, <1>4, <1>5 DEF MemberInv, MembershipTypeOK, RemovedOwnsNothing, Active, Role
<1>o8. OnePendingPerEmail'
  BY <1>1, <1>2, <1>3, <1>4, <1>5 DEF MemberInv, MembershipTypeOK, OnePendingPerEmail, Pending
<1> QED
  BY <1>t, <1>l1, <1>s2, <1>o3, <1>n4, <1>e5, <1>h6, <1>r7, <1>o8 DEF MemberInv

LEMMA CommitRemoveStep ==
  ASSUME MemberInv, NEW p \in MemberRequest,
         CommitRemove(p)
  PROVE  MemberInv'
<1>1. /\ doing' = [doing EXCEPT ![p] = NoRequest] /\ holds' = [holds EXCEPT ![p] = "nothing"]
      /\ role' = [role EXCEPT ![doing[p].of] = "none"]
      /\ UNCHANGED <<owner, invited>>
  BY DEF CommitRemove, Serve, Take, End
<1>2. Checked(p, "remove") /\ doing[p] \in Removing
  BY Kinds DEF MemberInv, CommitRemove, Checked
<1>3. doing[p].of \in Account
  BY <1>2 DEF Removing
<1>4. \A q \in MemberRequest : q # p => ~CheckedMember(q) /\ ~Serving(q, "own")
  BY <1>2 DEF MemberInv, Locks, CheckedMember, LockHolder
<1>5. Active(doing[p].of) /\ (\E a \in Account : role[a] = "owner" /\ a # doing[p].of) /\ \A r \in Resource : owner[r] # doing[p].of
  BY <1>2 DEF MemberInv, Subjects, OwnerRemains, NothingOwned, CheckedMember, Taking
<1>t. MembershipTypeOK'
  BY <1>1, <1>2, <1>3, <1>4, <1>5 DEF MemberInv, MembershipTypeOK, LockHolder
<1>l1. Locks'
  BY <1>1, <1>2, <1>3, <1>4, <1>5 DEF MemberInv, MembershipTypeOK, Locks, LockHolder, CheckedMember, Checked, Serving, Idle
<1>s2. Subjects'
  BY <1>1, <1>2, <1>3, <1>4, <1>5 DEF MemberInv, MembershipTypeOK, Locks, Subjects, Active, LockHolder, CheckedMember, Checked, Serving, Idle
<1>o3. OwnerRemains'
  BY <1>1, <1>2, <1>3, <1>4, <1>5 DEF MemberInv, MembershipTypeOK, Locks, Subjects, OwnerRemains, Taking, LockHolder, Active, CheckedMember, Checked, Serving, Idle
<1>n4. NothingOwned'
  BY <1>1, <1>2, <1>3, <1>4, <1>5 DEF MemberInv, MembershipTypeOK, Locks, NothingOwned, LockHolder, CheckedMember, Checked, Serving, Idle
<1>e5. Emails'
  BY <1>1, <1>2, <1>3, <1>4, <1>5 DEF MemberInv, MembershipTypeOK, Emails, NonePending, CheckedMember, Checked, Serving, Idle
<1>h6. HasOwner'
  BY <1>1, <1>2, <1>3, <1>4, <1>5 DEF MemberInv, MembershipTypeOK, HasOwner, Owners
<1>r7. RemovedOwnsNothing'
  BY <1>1, <1>2, <1>3, <1>4, <1>5 DEF MemberInv, MembershipTypeOK, RemovedOwnsNothing, Active
<1>o8. OnePendingPerEmail'
  BY <1>1, <1>2, <1>3, <1>4, <1>5 DEF MemberInv, MembershipTypeOK, OnePendingPerEmail, Pending
<1> QED
  BY <1>t, <1>l1, <1>s2, <1>o3, <1>n4, <1>e5, <1>h6, <1>r7, <1>o8 DEF MemberInv

LEMMA CommitAcceptStep ==
  ASSUME MemberInv, NEW p \in MemberRequest,
         CommitAccept(p)
  PROVE  MemberInv'
<1>1. /\ doing' = [doing EXCEPT ![p] = NoRequest] /\ holds' = [holds EXCEPT ![p] = "nothing"]
      /\ role' = [role EXCEPT ![doing[p].of] = doing[p].as]
      /\ invited' = [invited EXCEPT ![doing[p].invitation] = NoOffer]
      /\ UNCHANGED owner
  BY DEF CommitAccept, Serve, Take, End
<1>2. Serving(p, "accept") /\ doing[p] \in Accepting
  BY Kinds DEF MemberInv, CommitAccept
<1>3. doing[p].of \in Account /\ doing[p].as \in Role /\ doing[p].invitation \in Invitation
  BY <1>2 DEF Accepting
<1>4. role[doing[p].of] = "none"
  BY <1>2 DEF MemberInv, Subjects, Active
<1>t. MembershipTypeOK'
  BY <1>1, <1>2, <1>3, <1>4 DEF MemberInv, MembershipTypeOK, LockHolder, NoOffer
<1>l1. Locks'
  BY <1>1, <1>2, <1>3, <1>4 DEF MemberInv, MembershipTypeOK, Locks, LockHolder, CheckedMember, Checked, Serving, Idle
<1>s2. Subjects'
  BY <1>1, <1>2, <1>3, <1>4 DEF MemberInv, MembershipTypeOK, Locks, Subjects, Active, LockHolder, CheckedMember, Checked, Serving, Idle, Role
<1>o3. OwnerRemains'
  BY <1>1, <1>2, <1>3, <1>4 DEF MemberInv, MembershipTypeOK, Locks, Subjects, OwnerRemains, Taking, LockHolder, Active, CheckedMember, Checked, Serving, Idle
<1>n4. NothingOwned'
  BY <1>1, <1>2, <1>3, <1>4 DEF MemberInv, MembershipTypeOK, Locks, NothingOwned, LockHolder, CheckedMember, Checked, Serving, Idle
<1>5. \A q \in MemberRequest : Serving(q, "invite") => doing[q].offer.for # NoAccount
  BY Kinds, MembershipAssumption DEF MemberInv, Inviting, Offer
<1>6. \A q \in MemberRequest : Checked(q, "invite")' => Checked(q, "invite") /\ doing'[q] = doing[q]
  BY <1>1 DEF MemberInv, MembershipTypeOK, Checked, Serving, Idle
<1>e5. Emails'
  BY <1>1, <1>3, <1>5, <1>6 DEF MemberInv, MembershipTypeOK, Emails, NonePending, Checked, NoOffer
<1>h6. HasOwner'
  BY <1>1, <1>2, <1>3, <1>4 DEF MemberInv, MembershipTypeOK, HasOwner, Owners
<1>r7. RemovedOwnsNothing'
  BY <1>1, <1>2, <1>3, <1>4 DEF MemberInv, MembershipTypeOK, RemovedOwnsNothing, Active, Role
<1>o8. OnePendingPerEmail'
  BY <1>1, <1>2, <1>3, <1>4 DEF MemberInv, MembershipTypeOK, OnePendingPerEmail, Pending, NoOffer
<1> QED
  BY <1>t, <1>l1, <1>s2, <1>o3, <1>n4, <1>e5, <1>h6, <1>r7, <1>o8 DEF MemberInv

LEMMA CommitInviteStep ==
  ASSUME MemberInv, NEW p \in MemberRequest, NEW i \in Invitation,
         CommitInvite(p, i)
  PROVE  MemberInv'
<1>1. /\ doing' = [doing EXCEPT ![p] = NoRequest] /\ holds' = [holds EXCEPT ![p] = "nothing"]
      /\ invited' = [invited EXCEPT ![i] = doing[p].offer]
      /\ UNCHANGED <<role, owner>>
  BY DEF CommitInvite, Serve, Take, End
<1>2. Checked(p, "invite") /\ doing[p] \in Inviting
  BY Kinds DEF MemberInv, CommitInvite, Checked
<1>3. doing[p].offer \in Offer
  BY <1>2 DEF Inviting
<1>4. NonePending(doing[p].offer.for)
  BY <1>2 DEF MemberInv, Emails
<1>t. MembershipTypeOK'
  BY <1>1, <1>2, <1>3, <1>4 DEF MemberInv, MembershipTypeOK, LockHolder
<1>l1. Locks'
  BY <1>1, <1>2, <1>3, <1>4 DEF MemberInv, MembershipTypeOK, Locks, LockHolder, CheckedMember, Checked, Serving, Idle
<1>s2. Subjects'
  BY <1>1, <1>2, <1>3, <1>4 DEF MemberInv, MembershipTypeOK, Locks, Subjects, Active, LockHolder, CheckedMember, Checked, Serving, Idle
<1>o3. OwnerRemains'
  BY <1>1, <1>2, <1>3, <1>4 DEF MemberInv, MembershipTypeOK, Locks, Subjects, OwnerRemains, Taking, LockHolder, Active, CheckedMember, Checked, Serving, Idle
<1>n4. NothingOwned'
  BY <1>1, <1>2, <1>3, <1>4 DEF MemberInv, MembershipTypeOK, Locks, NothingOwned, LockHolder, CheckedMember, Checked, Serving, Idle
<1>e5. Emails'
  BY <1>1, <1>2, <1>3, <1>4 DEF MemberInv, MembershipTypeOK, Emails, NonePending, CheckedMember, Checked, Serving, Idle
<1>h6. HasOwner'
  BY <1>1, <1>2, <1>3, <1>4 DEF MemberInv, MembershipTypeOK, HasOwner, Owners
<1>r7. RemovedOwnsNothing'
  BY <1>1, <1>2, <1>3, <1>4 DEF MemberInv, MembershipTypeOK, RemovedOwnsNothing, Active
<1>o8. OnePendingPerEmail'
  BY <1>1, <1>2, <1>3, <1>4 DEF MemberInv, MembershipTypeOK, OnePendingPerEmail, Pending, NonePending, NoOffer, Offer
<1> QED
  BY <1>t, <1>l1, <1>s2, <1>o3, <1>n4, <1>e5, <1>h6, <1>r7, <1>o8 DEF MemberInv

LEMMA CommitOwnerStep ==
  ASSUME MemberInv, NEW p \in MemberRequest,
         CommitOwner(p)
  PROVE  MemberInv'
<1>1. /\ doing' = [doing EXCEPT ![p] = NoRequest] /\ holds' = [holds EXCEPT ![p] = "nothing"]
      /\ owner' = [owner EXCEPT ![doing[p].resource] = doing[p].of]
      /\ UNCHANGED <<role, invited>>
  BY DEF CommitOwner, Serve, Take, End
<1>2. Serving(p, "own") /\ doing[p] \in Owning
  BY Kinds DEF MemberInv, CommitOwner
<1>3. doing[p].of \in Account /\ doing[p].resource \in Resource
  BY <1>2 DEF Owning
<1>4. Active(doing[p].of) /\ \A q \in MemberRequest : ~CheckedMember(q)
  BY <1>2 DEF MemberInv, Subjects, Locks, LockHolder, CheckedMember, Checked, Serving
<1>t. MembershipTypeOK'
  BY <1>1, <1>2, <1>3, <1>4 DEF MemberInv, MembershipTypeOK, LockHolder
<1>l1. Locks'
  BY <1>1, <1>2, <1>3, <1>4 DEF MemberInv, MembershipTypeOK, Locks, LockHolder, CheckedMember, Checked, Serving, Idle
<1>s2. Subjects'
  BY <1>1, <1>2, <1>3, <1>4 DEF MemberInv, MembershipTypeOK, Locks, Subjects, Active, LockHolder, CheckedMember, Checked, Serving, Idle
<1>o3. OwnerRemains'
  BY <1>1, <1>2, <1>3, <1>4 DEF MemberInv, MembershipTypeOK, Locks, Subjects, OwnerRemains, Taking, LockHolder, Active, CheckedMember, Checked, Serving, Idle
<1>n4. NothingOwned'
  BY <1>1, <1>2, <1>3, <1>4 DEF MemberInv, MembershipTypeOK, Locks, NothingOwned, LockHolder, CheckedMember, Checked, Serving, Idle
<1>e5. Emails'
  BY <1>1, <1>2, <1>3, <1>4 DEF MemberInv, MembershipTypeOK, Emails, NonePending, CheckedMember, Checked, Serving, Idle
<1>h6. HasOwner'
  BY <1>1, <1>2, <1>3, <1>4 DEF MemberInv, MembershipTypeOK, HasOwner, Owners
<1>r7. RemovedOwnsNothing'
  BY <1>1, <1>2, <1>3, <1>4 DEF MemberInv, MembershipTypeOK, RemovedOwnsNothing, Active
<1>o8. OnePendingPerEmail'
  BY <1>1, <1>2, <1>3, <1>4 DEF MemberInv, MembershipTypeOK, OnePendingPerEmail, Pending
<1> QED
  BY <1>t, <1>l1, <1>s2, <1>o3, <1>n4, <1>e5, <1>h6, <1>r7, <1>o8 DEF MemberInv

LEMMA RejectStep ==
  ASSUME MemberInv, NEW i \in Invitation, RejectInvitation(i)
  PROVE  MemberInv'
<1>1. invited' = [invited EXCEPT ![i] = NoOffer] /\ UNCHANGED <<role, owner, doing, holds>>
  BY DEF RejectInvitation
<1>2. MembershipTypeOK'
  BY <1>1 DEF MemberInv, MembershipTypeOK, NoOffer
<1>3. Locks' /\ Subjects' /\ OwnerRemains' /\ NothingOwned' /\ HasOwner' /\ RemovedOwnsNothing'
  BY <1>1 DEF MemberInv, Locks, Subjects, OwnerRemains, NothingOwned, HasOwner, Owners, RemovedOwnsNothing,
              Active, Taking, CheckedMember, Checked, Serving, Idle
<1>4. OnePendingPerEmail'
  BY <1>1 DEF MemberInv, MembershipTypeOK, OnePendingPerEmail, Pending, NoOffer
<1>5. Emails'
  <2>1. \A p \in MemberRequest : Checked(p, "invite") => doing[p].offer.for \in Account
    BY Kinds DEF MemberInv, Checked, Inviting, Offer
  <2> QED
    BY <1>1, <2>1, MembershipAssumption DEF MemberInv, MembershipTypeOK, Emails, NonePending, NoOffer, Checked, Serving, Idle
<1> QED
  BY <1>2, <1>3, <1>4, <1>5 DEF MemberInv

\* What the other components do to the membership lock.
LEMMA OtherStep ==
  ASSUME MemberInv, NEW q \in OtherRequest, UNCHANGED <<role, owner, invited, doing>>,
         Take(q, "nothing") \/ (SharedFree /\ Take(q, "shared"))
  PROVE  MemberInv'
<1>1. \A p \in MemberRequest : p # q
  BY MembershipAssumption
<1>2. MembershipTypeOK'
  BY DEF MemberInv, MembershipTypeOK, Take, LockHolder
<1>3. Locks'
  BY <1>1 DEF MemberInv, MembershipTypeOK, Locks, Take, SharedFree, LockHolder, CheckedMember, Checked, Serving, Idle
<1>4. Subjects' /\ OwnerRemains' /\ NothingOwned' /\ HasOwner' /\ RemovedOwnsNothing'
  BY DEF MemberInv, Subjects, OwnerRemains, NothingOwned, HasOwner, Owners, RemovedOwnsNothing,
         Active, Taking, CheckedMember, Checked, Serving, Idle
<1>5. OnePendingPerEmail' /\ Emails'
  BY DEF MemberInv, OnePendingPerEmail, Pending, Emails, NonePending, Checked, Serving, Idle
<1> QED
  BY <1>2, <1>3, <1>4, <1>5 DEF MemberInv

\* A step of other variables.
LEMMA StutterStep == ASSUME MemberInv, UNCHANGED memberVars PROVE MemberInv'
BY DEF MemberInv, memberVars, MembershipTypeOK, Locks, Subjects, OwnerRemains, NothingOwned, HasOwner, Owners, RemovedOwnsNothing,
       Active, Taking, CheckedMember, Checked, Serving, Idle, OnePendingPerEmail, Pending, Emails, NonePending

-----------------------------------------------------------------------------
\* The steps of Membership that other components compose with unchanged.
LEMMA MembersStep == ASSUME MemberInv, MembersNext PROVE MemberInv'
<1>1. ASSUME NEW p \in MemberRequest, NEW by \in Account, NEW a \in Account, AskRemove(p, by, a)
      PROVE  MemberInv'
  BY <1>1, AskRemoveStep
<1>2. ASSUME NEW p \in MemberRequest, NEW by \in Account, NEW a \in Account, NEW r \in Assignable,
             AskChange(p, by, a, r) \/ AskInvite(p, by, a, r)
      PROVE  MemberInv'
  BY <1>2, AskChangeStep, AskInviteStep
<1>3. ASSUME NEW p \in MemberRequest, NEW i \in Invitation, CommitInvite(p, i) \/ CheckAccept(p, i)
      PROVE  MemberInv'
  BY <1>3, CommitInviteStep, CheckAcceptStep
<1>4. ASSUME NEW p \in MemberRequest,
             \/ CheckChange(p) \/ CommitChange(p) \/ CheckRemove(p)
             \/ CheckInvite(p) \/ CommitAccept(p) \/ Abandon(p)
      PROVE  MemberInv'
  BY <1>4, CheckChangeStep, CommitChangeStep, CheckRemoveStep, CheckInviteStep, CommitAcceptStep, AbandonStep
<1>5. ASSUME NEW i \in Invitation, RejectInvitation(i)
      PROVE  MemberInv'
  BY <1>5, RejectStep
<1> QED
  BY <1>1, <1>2, <1>3, <1>4, <1>5 DEF MembersNext, RevokeInvitation

\* Every step of Membership.
LEMMA MembershipStep == ASSUME MemberInv, [MembershipNext]_memberVars PROVE MemberInv'
<1>1. CASE UNCHANGED memberVars
  BY <1>1, StutterStep
<1>2. CASE MembersNext
  BY <1>2, MembersStep
<1>3. ASSUME NEW p \in MemberRequest, CommitRemove(p) \/ CommitOwner(p)
      PROVE  MemberInv'
  BY <1>3, CommitRemoveStep, CommitOwnerStep
<1>4. ASSUME NEW p \in MemberRequest, NEW by \in Account, NEW r \in Resource, CheckCreate(p, by, r)
      PROVE  MemberInv'
  BY <1>4, CheckCreateStep
<1>5. ASSUME NEW p \in MemberRequest, NEW by \in Account, NEW r \in Resource, NEW a \in Account,
             CheckTransfer(p, by, r, a)
      PROVE  MemberInv'
  BY <1>5, CheckTransferStep
<1> QED
  BY <1>1, <1>2, <1>3, <1>4, <1>5 DEF MembershipNext

(* However role changes, removals, invitations, acceptances, creations and *)
(* transfers interleave, what each checked still holds when it commits.    *)
THEOREM MembershipSafe == MembershipSpec => []MemberInv
<1> QED
  BY InitMember, MembershipStep, PTL DEF MembershipSpec
=============================================================================
