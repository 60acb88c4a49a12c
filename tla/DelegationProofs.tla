--------------------------- MODULE DelegationProofs ---------------------------
(***************************************************************************)
(* What Delegation promises, with the members, removals, transfers and     *)
(* grants around it -- for any accounts, resources, delegations, requests  *)
(* and interleavings.                                                      *)
(*                                                                         *)
(* The strengthening (SharingInv, next to the MemberInv of the members)    *)
(* says what a delegation request in flight relies on: the membership      *)
(* lock, which no removal passes, and the rows it locked, whose owner,     *)
(* visibility and grants stay as it read them until it commits, but for    *)
(* the grants that expire.                                                 *)
(***************************************************************************)
EXTENDS Delegation, MembershipProofs

\* The requests of each kind.
Proposing == [op : {"propose"}, proposal : Proposal, is : Proposed, lapsed : BOOLEAN]
AcceptingOne == [op : {"accept"}, proposal : Proposal, readable : SUBSET Resource]
EndingOne == [op : {"reject", "complete", "revoke"}, proposal : Proposal]

\* May(a, r, "write"), without the grants that only say "read".
Writes(a, r) ==
  /\ Active(a)
  /\ \/ owner[r] = a
     \/ visibility[r] = "workspace" /\ role[a] \in Writer
     \/ visibility[r] = "shared_explicitly" /\ granted[<<a, r>>] = 1

\* A delegation request in flight holds the shared membership lock.
ActLocks == \A q \in OtherRequest : acting[q] # NoRequest => holds[q] = "shared"

\* What the request of q, a create, checked.
ProposalSound(q) ==
  LET is == acting[q].is
  IN /\ delegation[acting[q].proposal] = NotProposed
     /\ is.status = "proposed"
     /\ Active(is.from) /\ Active(is.to)
     /\ is.obligation \in is.evidence
     /\ acting[q].lapsed \/ Writes(is.from, is.obligation)
     /\ owner[is.obligation] # NoAccount
     /\ ResourceFree(is.obligation)

Proposals ==
  /\ \A q \in OtherRequest : Acts(q, "propose") => ProposalSound(q)
  /\ \A p, q \in OtherRequest :
       Acts(p, "propose") /\ Acts(q, "propose") /\ p # q => acting[p].proposal # acting[q].proposal

\* What the request of q, an accept, checked.
AcceptSound(q) ==
  LET is == delegation[acting[q].proposal]
  IN /\ is # NotProposed
     /\ acting[q].readable \subseteq is.evidence
     /\ \A r \in acting[q].readable :
          /\ owner[r] # NoAccount
          /\ ResourceFree(r)
          /\ visibility[r] = "private" => owner[r] = is.from
Accepts == \A q \in OtherRequest : Acts(q, "accept") => AcceptSound(q)

\* A resource is private until it is created.
Unowned == \A r \in Resource : owner[r] = NoAccount => visibility[r] = "private"

\* The inductive invariant, with MemberInv.
SharingInv ==
  /\ DelegationTypeOK
  /\ ActLocks
  /\ Proposals
  /\ Accepts
  /\ Unowned
  /\ OpenBetweenMembers

CollaborationInv == MemberInv /\ SharingInv

-----------------------------------------------------------------------------
\* Requests and delegations have the fields of their kinds.
LEMMA ActKinds ==
  ASSUME DelegationTypeOK, NEW q \in OtherRequest
  PROVE  /\ Acts(q, "propose") => acting[q] \in Proposing
         /\ Acts(q, "accept") => acting[q] \in AcceptingOne
         /\ \A op \in {"reject", "complete", "revoke"} : Acts(q, op) => acting[q] \in EndingOne
<1>1. acting[q] # NoRequest => acting[q] \in Proposing \cup AcceptingOne \cup EndingOne
  BY DEF DelegationTypeOK, Acting, Proposing, AcceptingOne, EndingOne
<1> QED
  BY <1>1 DEF Acts, Proposing, AcceptingOne, EndingOne

LEMMA DelegationKinds ==
  ASSUME DelegationTypeOK, NEW d \in Proposal
  PROVE  /\ delegation[d] \in Proposed \cup {NotProposed}
         /\ Status(d) \in Open \cup Ended \cup {"none"}
         /\ Status(d) = "none" <=> delegation[d] = NotProposed
         /\ delegation[d] # NotProposed => delegation[d] \in Proposed
BY DEF DelegationTypeOK, Status, Proposed, NotProposed, Open, Ended

\* The two decisions the properties are about.
LEMMA MayMeans ==
  ASSUME DelegationTypeOK, NEW a, NEW r \in Resource
  PROVE  /\ a \in Account => (May(a, r, "write") <=> Writes(a, r))
         /\ May(a, r, "read") /\ visibility[r] = "private" => owner[r] = a
<1>1. visibility[r] \in Visibility
  BY DEF DelegationTypeOK
<1>2. a \in Account => granted[<<a, r>>] \in Nat
  BY DelegationAssumption DEF DelegationTypeOK
<1>3. a \in Account => Grants(a, r, "write") = granted[<<a, r>>]
  BY <1>2 DEF Grants
<1>4. a \in Account => (May(a, r, "write") <=> Writes(a, r))
  BY <1>1, <1>2, <1>3 DEF May, Authorize, Writes, Visibility
<1>5. May(a, r, "read") /\ visibility[r] = "private" => owner[r] = a
  BY DEF May, Authorize
<1> QED
  BY <1>4, <1>5

LEMMA InitSharing == CollaborationInit => CollaborationInv
<1> SUFFICES ASSUME CollaborationInit PROVE CollaborationInv
  OBVIOUS
<1>1. MemberInv
  BY InitMember DEF CollaborationInit
<1>2. DelegationTypeOK
  BY DelegationAssumption DEF CollaborationInit, DelegationTypeOK, Visibility
<1>3. ActLocks /\ Proposals /\ Accepts
  BY DEF CollaborationInit, ActLocks, Proposals, Accepts, Acts
<1>4. Unowned
  BY DEF CollaborationInit, Unowned
<1>5. OpenBetweenMembers
  BY DEF CollaborationInit, OpenBetweenMembers, Status, NotProposed, Open
<1> QED
  BY <1>1, <1>2, <1>3, <1>4, <1>5 DEF CollaborationInv, SharingInv

-----------------------------------------------------------------------------
\* The resources whose rows an open transaction of a delegation request
\* relies on.
Held(r) ==
  \E q \in OtherRequest :
    \/ Acts(q, "propose") /\ r = acting[q].is.obligation
    \/ Acts(q, "accept") /\ r \in acting[q].readable

\* What the steps of Membership but a removal leave of it to the others.
MemberFrame ==
  /\ owner' = owner
  /\ \A q \in OtherRequest : holds'[q] = holds[q]
  /\ \A r \in Resource : Held(r) /\ ResourceFree(r) => ResourceFree(r)'
  /\ \A a \in Account : Active(a) => Active(a)'
  /\ \A q \in OtherRequest, a \in Account : holds[q] = "shared" /\ Active(a) => role'[a] = role[a]

LEMMA HeldRows ==
  ASSUME CollaborationInv, NEW r \in Resource, RowsWritable({r}) \/ owner[r] = NoAccount
  PROVE  ~Held(r)
<1>1. ASSUME NEW q \in OtherRequest, Acts(q, "propose")
      PROVE  /\ acting[q].is.obligation \in SharedRows(q)
             /\ owner[acting[q].is.obligation] # NoAccount
  BY <1>1 DEF CollaborationInv, SharingInv, Proposals, ProposalSound, SharedRows, Acts
<1>2. ASSUME NEW q \in OtherRequest, Acts(q, "accept"), r \in acting[q].readable
      PROVE  r \in UpdatedRows(q) /\ owner[r] # NoAccount
  BY <1>2 DEF CollaborationInv, SharingInv, Accepts, AcceptSound, UpdatedRows, Acts
<1> QED
  BY <1>1, <1>2 DEF Held, RowsWritable, RowsReadable

\* An exclusive lock of another request leaves no delegation request in flight.
LEMMA NoneInFlight ==
  ASSUME CollaborationInv, NEW p \in MemberRequest, CheckedMember(p)
  PROVE  \A q \in OtherRequest : acting[q] = NoRequest /\ holds[q] = "nothing"
<1>1. holds[p] = "exclusive"
  BY DEF CollaborationInv, MemberInv, Locks
<1>2. \A q \in OtherRequest : q # p
  BY MembershipAssumption
<1>3. \A q \in OtherRequest : holds[q] = "nothing"
  BY <1>1, <1>2 DEF CollaborationInv, MemberInv, Locks, LockHolder
<1> QED
  BY <1>3 DEF CollaborationInv, SharingInv, ActLocks

\* Steps of the members alone keep what the delegations rely on ...
LEMMA FrameKeeps ==
  ASSUME CollaborationInv, MemberFrame, UNCHANGED sharingVars
  PROVE  SharingInv'
<1>0. UNCHANGED <<visibility, granted, delegation, evidence, acting>>
  BY DEF sharingVars
<1>1. DelegationTypeOK'
  BY <1>0 DEF CollaborationInv, SharingInv, DelegationTypeOK
<1>2. ActLocks'
  BY <1>0 DEF CollaborationInv, SharingInv, ActLocks, MemberFrame
<1>3. ASSUME NEW q \in OtherRequest, Acts(q, "propose")'
      PROVE  ProposalSound(q)'
  <2>1. Acts(q, "propose") /\ ProposalSound(q)
    BY <1>0, <1>3 DEF CollaborationInv, SharingInv, Proposals, Acts
  <2>2. acting[q] \in Proposing
    BY <2>1, ActKinds DEF CollaborationInv, SharingInv
  <2>3. /\ acting[q].is.from \in Account /\ acting[q].is.to \in Account
        /\ acting[q].is.obligation \in Resource
    <3>1. acting[q].is \in Proposed
      BY <2>2 DEF Proposing
    <3>2. acting[q].is # NotProposed
      BY <2>1 DEF ProposalSound, NotProposed
    <3> QED
      BY <3>1 DEF Proposed
  <2>4. holds[q] = "shared"
    BY <2>1 DEF CollaborationInv, SharingInv, ActLocks, Acts
  <2>5. ResourceFree(acting[q].is.obligation)'
    BY <1>0, <2>1, <2>3 DEF MemberFrame, Held, ProposalSound, ResourceFree
  <2>6. /\ Active(acting[q].is.from)' /\ Active(acting[q].is.to)'
        /\ role'[acting[q].is.from] = role[acting[q].is.from]
    BY <2>1, <2>3, <2>4, <1>0 DEF MemberFrame, ProposalSound, Active
  <2> QED
    BY <1>0, <2>1, <2>5, <2>6 DEF ProposalSound, Writes, MemberFrame, Active, ResourceFree
<1>4. Proposals'
  BY <1>0, <1>3 DEF CollaborationInv, SharingInv, Proposals, Acts
<1>5. Accepts'
  <2> SUFFICES ASSUME NEW q \in OtherRequest, Acts(q, "accept")'
               PROVE  AcceptSound(q)'
    BY DEF Accepts
  <2>1. Acts(q, "accept") /\ AcceptSound(q)
    BY <1>0 DEF CollaborationInv, SharingInv, Accepts, Acts
  <2>2. acting[q].readable \subseteq Resource
    BY <2>1, ActKinds DEF CollaborationInv, SharingInv, AcceptingOne
  <2>3. \A r \in acting[q].readable : ResourceFree(r)'
    BY <2>1, <2>2 DEF MemberFrame, Held, AcceptSound
  <2> QED
    BY <1>0, <2>1, <2>3 DEF AcceptSound, MemberFrame, ResourceFree
<1>6. Unowned'
  BY <1>0 DEF CollaborationInv, SharingInv, Unowned, MemberFrame
<1>7. OpenBetweenMembers'
  <2> SUFFICES ASSUME NEW d \in Proposal, Status(d) \in Open
               PROVE  \A a \in Parties(d) : Active(a)'
    BY <1>0 DEF CollaborationInv, SharingInv, OpenBetweenMembers, Status, Parties, Active
  <2>1. Parties(d) \subseteq Account
    BY DelegationKinds DEF CollaborationInv, SharingInv, Open, Ended, Parties, Proposed, Status, NotProposed
  <2> QED
    BY <2>1 DEF CollaborationInv, SharingInv, OpenBetweenMembers, MemberFrame
<1> QED
  BY <1>1, <1>2, <1>4, <1>5, <1>6, <1>7 DEF SharingInv

\* ... and this is what such steps are.
LEMMA MembersFrame == ASSUME CollaborationInv, MembersNext PROVE MemberFrame
<1>0. \A p \in MemberRequest, q \in OtherRequest : p # q
  BY MembershipAssumption
<1>1. ASSUME NEW p \in MemberRequest, NEW v,
             doing' = [doing EXCEPT ![p] = v], UNCHANGED <<role, owner>>,
             \A q \in OtherRequest : holds'[q] = holds[q], v = NoRequest \/ v.op # "own"
      PROVE  MemberFrame
  BY <1>1 DEF MemberFrame, CollaborationInv, MemberInv, MembershipTypeOK, ResourceFree, Serving, Idle, Active
<1>2. ASSUME NEW p \in MemberRequest, NEW mode, Take(p, mode)
      PROVE  \A q \in OtherRequest : holds'[q] = holds[q]
  BY <1>0, <1>2 DEF Take, CollaborationInv, MemberInv, MembershipTypeOK
<1>3. ASSUME NEW p \in MemberRequest, NEW by \in Account, NEW a \in Account, AskRemove(p, by, a)
      PROVE  MemberFrame
  <2> DEFINE v == [op |-> "remove", of |-> a, asOwner |-> role[by] = "owner", checked |-> FALSE]
  <2>1. doing' = [doing EXCEPT ![p] = v] /\ UNCHANGED <<role, owner, holds>> /\ v.op # "own"
    BY <1>3 DEF AskRemove, Serve
  <2> QED
    BY <1>1, <2>1
<1>4. ASSUME NEW p \in MemberRequest, NEW by \in Account, NEW a \in Account, NEW r \in Assignable,
             AskChange(p, by, a, r)
      PROVE  MemberFrame
  <2> DEFINE v == [op |-> "change", of |-> a, to |-> r, asOwner |-> role[by] = "owner", checked |-> FALSE]
  <2>1. doing' = [doing EXCEPT ![p] = v] /\ UNCHANGED <<role, owner, holds>> /\ v.op # "own"
    BY <1>4 DEF AskChange, Serve
  <2> QED
    BY <1>1, <2>1
<1>5. ASSUME NEW p \in MemberRequest, NEW by \in Account, NEW a \in Account, NEW r \in Assignable,
             AskInvite(p, by, a, r)
      PROVE  MemberFrame
  <2> DEFINE v == [op |-> "invite", offer |-> [for |-> a, as |-> r, by |-> by], checked |-> FALSE]
  <2>1. doing' = [doing EXCEPT ![p] = v] /\ UNCHANGED <<role, owner, holds>> /\ v.op # "own"
    BY <1>5 DEF AskInvite, Serve
  <2> QED
    BY <1>1, <2>1
<1>6. ASSUME NEW p \in MemberRequest, Abandon(p) \/ \E i \in Invitation : CommitInvite(p, i)
      PROVE  MemberFrame
  <2>1. doing' = [doing EXCEPT ![p] = NoRequest] /\ UNCHANGED <<role, owner>> /\ Take(p, "nothing")
    BY <1>6 DEF CommitInvite, Abandon, End, Serve
  <2> QED
    BY <1>1, <1>2, <2>1
<1>7. ASSUME NEW p \in MemberRequest, NEW i \in Invitation, CheckAccept(p, i)
      PROVE  MemberFrame
  <2> DEFINE v == [op |-> "accept", of |-> invited[i].for, invitation |-> i, as |-> invited[i].as]
  <2>1. doing' = [doing EXCEPT ![p] = v] /\ UNCHANGED <<role, owner, holds>> /\ v.op # "own"
    BY <1>7 DEF CheckAccept, Serve
  <2> QED
    BY <1>1, <2>1
<1>8. ASSUME NEW p \in MemberRequest, CheckChange(p) \/ CheckRemove(p) \/ CheckInvite(p)
      PROVE  MemberFrame
  <2> DEFINE v == [doing[p] EXCEPT !.checked = TRUE]
  <2>1. /\ doing' = [doing EXCEPT ![p] = v] /\ UNCHANGED <<role, owner>>
        /\ UNCHANGED holds \/ Take(p, "exclusive")
    BY <1>8 DEF CheckChange, CheckRemove, CheckInvite, CheckUnderLock, Serve
  <2>2. doing[p] \in Changing \cup Removing \cup Inviting
    BY <1>8, Kinds DEF CollaborationInv, MemberInv, CheckChange, CheckRemove, CheckInvite
  <2>3. v.op # "own"
    BY <2>2 DEF Changing, Removing, Inviting
  <2> QED
    BY <1>1, <1>2, <2>1, <2>3
<1>9. ASSUME NEW p \in MemberRequest, CommitChange(p)
      PROVE  MemberFrame
  <2>1. CheckedMember(p) /\ doing[p] \in Changing
    BY <1>9, Kinds DEF CollaborationInv, MemberInv, CommitChange, CheckedMember, Checked
  <2>2. \A q \in OtherRequest : holds[q] = "nothing"
    BY <2>1, NoneInFlight
  <2>3. /\ role' = [role EXCEPT ![doing[p].of] = doing[p].to] /\ UNCHANGED owner
        /\ doing' = [doing EXCEPT ![p] = NoRequest] /\ Take(p, "nothing")
    BY <1>9 DEF CommitChange, End, Serve
  <2>4. \A q \in OtherRequest : holds'[q] = holds[q]
    BY <1>2, <2>3
  <2>5. \A a \in Account : Active(a) => Active(a)'
    BY <2>1, <2>3 DEF Changing, Active, Role, CollaborationInv, MemberInv, MembershipTypeOK
  <2>6. \A r \in Resource : ResourceFree(r) => ResourceFree(r)'
    BY <2>3 DEF ResourceFree, Serving, Idle, CollaborationInv, MemberInv, MembershipTypeOK
  <2> QED
    BY <2>2, <2>3, <2>4, <2>5, <2>6 DEF MemberFrame
<1>10. ASSUME NEW p \in MemberRequest, CommitAccept(p)
      PROVE  MemberFrame
  <2>1. Serving(p, "accept") /\ doing[p] \in Accepting
    BY <1>10, Kinds DEF CollaborationInv, MemberInv, CommitAccept
  <2>2. ~Active(doing[p].of)
    BY <2>1 DEF CollaborationInv, MemberInv, Subjects
  <2>3. /\ role' = [role EXCEPT ![doing[p].of] = doing[p].as] /\ UNCHANGED owner
        /\ doing' = [doing EXCEPT ![p] = NoRequest] /\ Take(p, "nothing")
    BY <1>10 DEF CommitAccept, End, Serve
  <2>4. \A q \in OtherRequest : holds'[q] = holds[q]
    BY <1>2, <2>3
  <2>5. \A a \in Account : Active(a) => role'[a] = role[a]
    BY <2>2, <2>3 DEF Active, CollaborationInv, MemberInv, MembershipTypeOK
  <2>6. \A r \in Resource : ResourceFree(r) => ResourceFree(r)'
    BY <2>3 DEF ResourceFree, Serving, Idle, CollaborationInv, MemberInv, MembershipTypeOK
  <2> QED
    BY <2>3, <2>4, <2>5, <2>6 DEF MemberFrame, Active
<1>11. ASSUME NEW i \in Invitation, RejectInvitation(i)
      PROVE  MemberFrame
  BY <1>11 DEF RejectInvitation, MemberFrame, ResourceFree, Serving, Idle, Active
<1> QED
  BY <1>3, <1>4, <1>5, <1>6, <1>7, <1>8, <1>9, <1>10, <1>11 DEF MembersNext, RevokeInvitation

LEMMA CheckOwnFrame ==
  ASSUME CollaborationInv, NEW p \in MemberRequest, NEW r \in Resource, NEW a,
         RowsWritable({r}) \/ owner[r] = NoAccount,
         Serve(p, [op |-> "own", of |-> a, resource |-> r]), Take(p, "shared"), UNCHANGED <<role, owner>>
  PROVE  MemberFrame
<1>1. ~Held(r)
  BY HeldRows
<1>2. \A q \in OtherRequest : holds'[q] = holds[q]
  BY MembershipAssumption DEF Take, CollaborationInv, MemberInv, MembershipTypeOK
<1>3. \A s \in Resource : s # r /\ ResourceFree(s) => ResourceFree(s)'
  BY DEF Serve, ResourceFree, Serving, Idle, CollaborationInv, MemberInv, MembershipTypeOK
<1> QED
  BY <1>1, <1>2, <1>3 DEF MemberFrame, Active

LEMMA OwnAndShowStep ==
  ASSUME CollaborationInv, NEW p \in MemberRequest, OwnAndShow(p)
  PROVE  SharingInv'
<1> DEFINE s == doing[p].resource
<1>1. Serving(p, "own") /\ doing[p] \in Owning
  BY Kinds DEF CollaborationInv, MemberInv, OwnAndShow, CommitOwner
<1>2. /\ owner' = [owner EXCEPT ![s] = doing[p].of]
      /\ doing' = [doing EXCEPT ![p] = NoRequest] /\ Take(p, "nothing")
      /\ UNCHANGED <<role, granted, delegation, evidence, acting>>
  BY DEF OwnAndShow, CommitOwner, End, Serve
<1>3. doing[p].of \in Account /\ doing[p].of # NoAccount /\ s \in Resource
  BY <1>1, MembershipAssumption DEF Owning
<1>4. ~ResourceFree(s)
  BY <1>1 DEF ResourceFree
<1>5. /\ \A r \in Resource : r # s => visibility'[r] = visibility[r] /\ owner'[r] = owner[r]
      /\ visibility' \in [Resource -> Visibility]
  BY <1>2, <1>3 DEF OwnAndShow, CollaborationInv, SharingInv, DelegationTypeOK, Visibility, MemberInv, MembershipTypeOK
<1>6. \A r \in Resource : ResourceFree(r) => ResourceFree(r)'
  BY <1>2 DEF ResourceFree, Serving, Idle, CollaborationInv, MemberInv, MembershipTypeOK
<1>7. \A q \in OtherRequest : holds'[q] = holds[q]
  BY <1>2, MembershipAssumption DEF Take, CollaborationInv, MemberInv, MembershipTypeOK
<1>8. DelegationTypeOK'
  BY <1>2, <1>5 DEF CollaborationInv, SharingInv, DelegationTypeOK
<1>9. ActLocks'
  BY <1>2, <1>7 DEF CollaborationInv, SharingInv, ActLocks
<1>10. ASSUME NEW q \in OtherRequest, Acts(q, "propose")'
      PROVE  ProposalSound(q)'
  <2>1. Acts(q, "propose") /\ ProposalSound(q)
    BY <1>2, <1>10 DEF CollaborationInv, SharingInv, Proposals, Acts
  <2>2. acting[q] \in Proposing
    BY <2>1, ActKinds DEF CollaborationInv, SharingInv
  <2>3. acting[q].is.obligation \in Resource /\ acting[q].is.obligation # s
    BY <1>4, <2>1, <2>2 DEF ProposalSound, Proposing, Proposed
  <2> QED
    BY <1>2, <1>5, <1>6, <2>1, <2>3 DEF ProposalSound, Writes, Active
<1>11. Proposals'
  BY <1>2, <1>10 DEF CollaborationInv, SharingInv, Proposals, Acts
<1>12. Accepts'
  <2> SUFFICES ASSUME NEW q \in OtherRequest, Acts(q, "accept")'
               PROVE  AcceptSound(q)'
    BY DEF Accepts
  <2>1. Acts(q, "accept") /\ AcceptSound(q)
    BY <1>2 DEF CollaborationInv, SharingInv, Accepts, Acts
  <2>2. acting[q].readable \subseteq Resource
    BY <2>1, ActKinds DEF CollaborationInv, SharingInv, AcceptingOne
  <2>3. \A r \in acting[q].readable : ResourceFree(r)' /\ r # s
    BY <1>4, <1>6, <2>1, <2>2 DEF AcceptSound
  <2> QED
    BY <1>2, <1>5, <2>1, <2>2, <2>3 DEF AcceptSound
<1>13. Unowned'
  BY <1>2, <1>3, <1>5 DEF CollaborationInv, SharingInv, Unowned, MemberInv, MembershipTypeOK
<1>14. OpenBetweenMembers'
  BY <1>2 DEF CollaborationInv, SharingInv, OpenBetweenMembers, Status, Parties, Active
<1> QED
  BY <1>8, <1>9, <1>11, <1>12, <1>13, <1>14 DEF SharingInv

LEMMA RemoveAndCancelStep ==
  ASSUME CollaborationInv, NEW p \in MemberRequest, RemoveAndCancel(p)
  PROVE  SharingInv'
<1> DEFINE a == doing[p].of
           cancelled == {d \in Proposal : Status(d) \in Open /\ a \in Parties(d)}
<1>1. CheckedMember(p) /\ doing[p] \in Removing
  BY Kinds DEF CollaborationInv, MemberInv, RemoveAndCancel, CommitRemove, CheckedMember, Checked
<1>2. \A q \in OtherRequest : acting[q] = NoRequest
  BY <1>1, NoneInFlight
<1>3. /\ role' = [role EXCEPT ![a] = "none"]
      /\ delegation' = [d \in Proposal |->
            IF d \in cancelled THEN [delegation[d] EXCEPT !.status = "cancelled"] ELSE delegation[d]]
      /\ evidence' = [d \in Proposal |-> IF d \in cancelled THEN {} ELSE evidence[d]]
      /\ UNCHANGED <<owner, visibility, granted, acting>>
  BY DEF RemoveAndCancel, CommitRemove
<1>4. \A d \in cancelled : delegation[d] \in Proposed
  BY DelegationKinds DEF CollaborationInv, SharingInv, Open, Status, NotProposed
<1>5. DelegationTypeOK'
  BY <1>3, <1>4 DEF CollaborationInv, SharingInv, DelegationTypeOK, Proposed, Ended
<1>6. ActLocks' /\ Proposals' /\ Accepts'
  BY <1>2, <1>3 DEF ActLocks, Proposals, Accepts, Acts
<1>7. Unowned'
  BY <1>3 DEF CollaborationInv, SharingInv, Unowned
<1>8. OpenBetweenMembers'
  <2> SUFFICES ASSUME NEW d \in Proposal
               PROVE  /\ Status(d)' \in Open => \A b \in Parties(d)' : Active(b)'
                      /\ evidence'[d] # {} => Status(d)' = "accepted"
    BY DEF OpenBetweenMembers
  <2>1. CASE d \in cancelled
    BY <1>3, <1>4, <2>1 DEF Status, Open, Proposed
  <2>2. CASE d \notin cancelled
    <3>1. delegation'[d] = delegation[d] /\ evidence'[d] = evidence[d]
      BY <1>3, <2>2
    <3>2. ASSUME Status(d) \in Open, NEW b \in Parties(d)
          PROVE  Active(b)'
      <4>1. b \in Account /\ b # a
        BY <2>2, <3>2, DelegationKinds DEF CollaborationInv, SharingInv, Open, Parties, Proposed, Status, NotProposed
      <4>2. Active(b)
        BY <3>2 DEF CollaborationInv, SharingInv, OpenBetweenMembers
      <4> QED
        BY <1>3, <4>1, <4>2 DEF Active, CollaborationInv, MemberInv, MembershipTypeOK
    <3> QED
      BY <3>1, <3>2 DEF CollaborationInv, SharingInv, OpenBetweenMembers, Status, Parties
  <2> QED
    BY <2>1, <2>2
<1> QED
  BY <1>5, <1>6, <1>7, <1>8 DEF SharingInv

-----------------------------------------------------------------------------
\* What a request relies on is kept by steps of others that leave the rows
\* it holds as they are.
LEMMA ProposalKept ==
  ASSUME NEW p \in OtherRequest, ProposalSound(p), acting'[p] = acting[p],
         delegation'[acting[p].proposal] = delegation[acting[p].proposal],
         UNCHANGED <<role, owner, doing>>,
         \/ /\ visibility'[acting[p].is.obligation] = visibility[acting[p].is.obligation]
            /\ granted'[<<acting[p].is.from, acting[p].is.obligation>>] = granted[<<acting[p].is.from, acting[p].is.obligation>>]
         \/ visibility[acting[p].is.obligation] = "private"
  PROVE  ProposalSound(p)'
BY DEF ProposalSound, Writes, Active, ResourceFree, Serving, Idle

LEMMA AcceptKept ==
  ASSUME NEW p \in OtherRequest, AcceptSound(p), acting'[p] = acting[p],
         delegation'[acting[p].proposal] # NotProposed,
         delegation'[acting[p].proposal].evidence = delegation[acting[p].proposal].evidence,
         delegation'[acting[p].proposal].from = delegation[acting[p].proposal].from,
         UNCHANGED <<owner, doing>>,
         \A r \in acting[p].readable : visibility'[r] = "private" => visibility[r] = "private"
  PROVE  AcceptSound(p)'
BY DEF AcceptSound, ResourceFree, Serving, Idle

\* What every step of a delegation request leaves alone, or takes back: the
\* members, and what the other requests rely on.
LEMMA ActLock ==
  ASSUME CollaborationInv, NEW q \in OtherRequest, NEW request,
         request \in Acting, Act(q, request)
  PROVE  /\ acting[q] = NoRequest
         /\ acting' = [acting EXCEPT ![q] = request]
         /\ UNCHANGED <<role, owner, invited, doing, visibility, granted, delegation, evidence>>
         /\ DelegationTypeOK' /\ ActLocks' /\ Unowned' /\ OpenBetweenMembers'
<1>1. /\ acting[q] = NoRequest
      /\ holds' = [holds EXCEPT ![q] = "shared"]
      /\ acting' = [acting EXCEPT ![q] = request]
      /\ UNCHANGED <<role, owner, invited, doing, visibility, granted, delegation, evidence>>
  BY DEF Act, Take
<1>2. DelegationTypeOK'
  BY <1>1 DEF CollaborationInv, SharingInv, DelegationTypeOK
<1>3. ActLocks'
  BY <1>1 DEF CollaborationInv, SharingInv, DelegationTypeOK, ActLocks, MemberInv, MembershipTypeOK, LockHolder
<1>4. Unowned' /\ OpenBetweenMembers'
  BY <1>1 DEF CollaborationInv, SharingInv, Unowned, OpenBetweenMembers, Status, Parties, Active
<1> QED
  BY <1>1, <1>2, <1>3, <1>4

LEMMA ProposeStep ==
  ASSUME CollaborationInv, NEW q \in OtherRequest, NEW d \in Proposal, NEW from \in Account, NEW to \in Account,
         NEW r \in Resource, NEW more \in SUBSET Resource, CheckPropose(q, d, from, to, r, more)
  PROVE  SharingInv'
<1> DEFINE is == [status |-> "proposed", from |-> from, to |-> to, obligation |-> r, evidence |-> {r} \cup more]
           request == [op |-> "propose", proposal |-> d, is |-> is, lapsed |-> FALSE]
<1>1. request \in Acting /\ Act(q, request)
  BY DEF CheckPropose, Acting, Proposed, Open
<1>2. /\ acting[q] = NoRequest
      /\ acting' = [acting EXCEPT ![q] = request]
      /\ UNCHANGED <<role, owner, invited, doing, visibility, granted, delegation, evidence>>
      /\ DelegationTypeOK' /\ ActLocks' /\ Unowned' /\ OpenBetweenMembers'
  BY <1>1, ActLock
<1>3. acting'[q] = request /\ request # NoRequest /\ (\A p \in OtherRequest : p # q => acting'[p] = acting[p])
  BY <1>1, <1>2, DelegationAssumption DEF CollaborationInv, SharingInv, DelegationTypeOK
<1>4. Writes(from, r)
  BY MayMeans DEF CheckPropose, CollaborationInv, SharingInv
<1>5. Active(from) /\ Active(to) /\ ResourceFree(r) /\ owner[r] # NoAccount /\ delegation[d] = NotProposed
  BY <1>4 DEF CheckPropose, RowsReadable, Writes
<1>6. ProposalSound(q)'
  BY <1>2, <1>3, <1>4, <1>5 DEF ProposalSound, Writes, Active, ResourceFree, Serving, Idle
<1>7. ASSUME NEW p \in OtherRequest, p # q, Acts(p, "propose")'
      PROVE  ProposalSound(p)' /\ Acts(p, "propose") /\ acting'[p].proposal # d
  <2>1. Acts(p, "propose") /\ ProposalSound(p)
    BY <1>3, <1>7 DEF Acts, CollaborationInv, SharingInv, Proposals
  <2>2. acting[p].proposal # d
    BY <2>1 DEF CheckPropose
  <2> QED
    BY <1>2, <1>3, <1>7, <2>1, <2>2 DEF ProposalSound, Writes, Active, ResourceFree, Serving, Idle
<1>8. Proposals'
  BY <1>3, <1>6, <1>7 DEF CollaborationInv, SharingInv, Proposals, Acts
<1>9. Accepts'
  <2> SUFFICES ASSUME NEW p \in OtherRequest, Acts(p, "accept")'
               PROVE  AcceptSound(p)'
    BY DEF Accepts
  <2>1. p # q /\ Acts(p, "accept") /\ AcceptSound(p)
    BY <1>3 DEF Acts, CollaborationInv, SharingInv, Accepts
  <2> QED
    BY <1>2, <1>3, <2>1, AcceptKept DEF AcceptSound
<1> QED
  BY <1>2, <1>8, <1>9 DEF SharingInv

LEMMA AcceptStep ==
  ASSUME CollaborationInv, NEW q \in OtherRequest, NEW d \in Proposal, CheckAcceptDelegation(q, d)
  PROVE  SharingInv'
<1> DEFINE readable == {r \in delegation[d].evidence : May(delegation[d].from, r, "read")}
           request == [op |-> "accept", proposal |-> d, readable |-> readable]
<1>0. delegation[d] \in Proposed /\ delegation[d] # NotProposed
  BY DelegationKinds DEF CheckAcceptDelegation, CollaborationInv, SharingInv, Status, NotProposed
<1>1. request \in Acting /\ Act(q, request)
  BY <1>0 DEF CheckAcceptDelegation, Acting, Proposed
<1>2. /\ acting[q] = NoRequest
      /\ acting' = [acting EXCEPT ![q] = request]
      /\ UNCHANGED <<role, owner, invited, doing, visibility, granted, delegation, evidence>>
      /\ DelegationTypeOK' /\ ActLocks' /\ Unowned' /\ OpenBetweenMembers'
  BY <1>1, ActLock
<1>3. acting'[q] = request /\ request # NoRequest /\ (\A p \in OtherRequest : p # q => acting'[p] = acting[p])
  BY <1>1, <1>2, DelegationAssumption DEF CollaborationInv, SharingInv, DelegationTypeOK
<1>4. ASSUME NEW r \in readable
      PROVE  /\ owner[r] # NoAccount
             /\ ResourceFree(r)
             /\ visibility[r] = "private" => owner[r] = delegation[d].from
  <2>1. r \in Resource /\ r \in delegation[d].evidence /\ delegation[d].from \in Account
    BY <1>0, <1>4 DEF Proposed
  <2>2. ResourceFree(r)
    BY <2>1 DEF CheckAcceptDelegation, RowsWritable, RowsReadable
  <2>3. visibility[r] = "private" => owner[r] = delegation[d].from
    BY <1>4, <2>1, MayMeans DEF CollaborationInv, SharingInv
  <2>4. owner[r] # NoAccount
    BY <2>1, <2>3, MembershipAssumption DEF CollaborationInv, SharingInv, Unowned
  <2> QED
    BY <2>2, <2>3, <2>4
<1>5. AcceptSound(q)'
  <2> HIDE DEF readable
  <2>1. readable \subseteq delegation[d].evidence
    BY DEF readable
  <2> QED
    BY <1>0, <1>2, <1>3, <1>4, <2>1 DEF AcceptSound, ResourceFree, Serving, Idle
<1>6. Accepts'
  <2> SUFFICES ASSUME NEW p \in OtherRequest, Acts(p, "accept")', p # q
               PROVE  AcceptSound(p)'
    BY <1>5 DEF Accepts
  <2>1. Acts(p, "accept") /\ AcceptSound(p)
    BY <1>3 DEF Acts, CollaborationInv, SharingInv, Accepts
  <2> QED
    BY <1>2, <1>3, <2>1, AcceptKept DEF AcceptSound
<1>7. Proposals'
  <2>1. ASSUME NEW p \in OtherRequest, Acts(p, "propose")'
        PROVE  p # q /\ acting'[p] = acting[p] /\ Acts(p, "propose") /\ ProposalSound(p)
    BY <1>3, <2>1 DEF Acts, CollaborationInv, SharingInv, Proposals
  <2>2. ASSUME NEW p \in OtherRequest, Acts(p, "propose")'
        PROVE  ProposalSound(p)'
    BY <1>2, <2>1, <2>2, ProposalKept
  <2> QED
    BY <2>1, <2>2 DEF CollaborationInv, SharingInv, Proposals
<1> QED
  BY <1>2, <1>6, <1>7 DEF SharingInv

LEMMA EndRequestStep ==
  ASSUME CollaborationInv, NEW q \in OtherRequest, NEW d \in Proposal,
         NEW op \in {"reject", "complete", "revoke"}, NEW before, NEW party, CheckEnd(q, d, op, before, party)
  PROVE  SharingInv'
<1> DEFINE request == [op |-> op, proposal |-> d]
<1>1. request \in Acting /\ Act(q, request)
  BY DEF CheckEnd, Acting
<1>2. /\ acting[q] = NoRequest
      /\ acting' = [acting EXCEPT ![q] = request]
      /\ UNCHANGED <<role, owner, invited, doing, visibility, granted, delegation, evidence>>
      /\ DelegationTypeOK' /\ ActLocks' /\ Unowned' /\ OpenBetweenMembers'
  BY <1>1, ActLock
<1>3. acting'[q].op = op /\ (\A p \in OtherRequest : p # q => acting'[p] = acting[p])
  BY <1>2 DEF CollaborationInv, SharingInv, DelegationTypeOK
<1>4. ASSUME NEW p \in OtherRequest, NEW o \in {"propose", "accept"}, Acts(p, o)'
      PROVE  acting'[p] = acting[p] /\ Acts(p, o)
  BY <1>3, <1>4 DEF Acts
<1>5. Proposals'
  <2>1. ASSUME NEW p \in OtherRequest, Acts(p, "propose")'
        PROVE  acting'[p] = acting[p] /\ Acts(p, "propose") /\ ProposalSound(p)
    BY <1>4, <2>1 DEF CollaborationInv, SharingInv, Proposals
  <2>2. ASSUME NEW p \in OtherRequest, Acts(p, "propose")'
        PROVE  ProposalSound(p)'
    BY <1>2, <2>1, <2>2, ProposalKept
  <2> QED
    BY <2>1, <2>2 DEF CollaborationInv, SharingInv, Proposals
<1>6. Accepts'
  <2> SUFFICES ASSUME NEW p \in OtherRequest, Acts(p, "accept")'
               PROVE  AcceptSound(p)'
    BY DEF Accepts
  <2>1. acting'[p] = acting[p] /\ Acts(p, "accept") /\ AcceptSound(p)
    BY <1>4 DEF CollaborationInv, SharingInv, Accepts
  <2> QED
    BY <1>2, <2>1, AcceptKept DEF AcceptSound
<1> QED
  BY <1>2, <1>5, <1>6 DEF SharingInv

-----------------------------------------------------------------------------
\* The other requests lose nothing they rely on to a step that moves statuses
\* and touches only rows that none of them holds.
LEMMA RequestsKept ==
  ASSUME CollaborationInv, UNCHANGED <<role, owner, doing>>,
         \A p \in OtherRequest, op \in {"propose", "accept"} : Acts(p, op)' => acting'[p] = acting[p] /\ Acts(p, op),
         \A d \in Proposal :
           IF delegation[d] = NotProposed THEN delegation'[d] = NotProposed
           ELSE /\ delegation'[d] # NotProposed
                /\ delegation'[d].evidence = delegation[d].evidence
                /\ delegation'[d].from = delegation[d].from,
         \A r \in Resource :
           Held(r) => \/ visibility'[r] = visibility[r] /\ (\A a \in Account : granted'[<<a, r>>] = granted[<<a, r>>])
                      \/ visibility[r] = "private" /\ visibility'[r] # "private"
  PROVE  Proposals' /\ Accepts'
<1>1. ASSUME NEW p \in OtherRequest, Acts(p, "propose")'
      PROVE  acting'[p] = acting[p] /\ Acts(p, "propose") /\ ProposalSound(p)
  BY <1>1 DEF CollaborationInv, SharingInv, Proposals
<1>2. ASSUME NEW p \in OtherRequest, Acts(p, "propose")'
      PROVE  ProposalSound(p)'
  <2>1. acting'[p] = acting[p] /\ Acts(p, "propose") /\ ProposalSound(p)
    BY <1>1, <1>2
  <2>2. acting[p] \in Proposing
    BY <2>1, ActKinds DEF CollaborationInv, SharingInv
  <2>3. /\ acting[p].proposal \in Proposal /\ acting[p].is.obligation \in Resource
        /\ acting[p].is.from \in Account
    BY <2>1, <2>2 DEF Proposing, Proposed
  <2>4. delegation'[acting[p].proposal] = delegation[acting[p].proposal]
    BY <2>1, <2>3 DEF ProposalSound
  <2>5. Held(acting[p].is.obligation)
    BY <2>1 DEF Held
  <2> QED
    BY <2>1, <2>3, <2>4, <2>5, ProposalKept
<1>3. Proposals'
  BY <1>1, <1>2 DEF CollaborationInv, SharingInv, Proposals
<1>4. Accepts'
  <2> SUFFICES ASSUME NEW p \in OtherRequest, Acts(p, "accept")'
               PROVE  AcceptSound(p)'
    BY DEF Accepts
  <2>1. acting'[p] = acting[p] /\ Acts(p, "accept") /\ AcceptSound(p)
    BY DEF CollaborationInv, SharingInv, Accepts
  <2>2. acting[p].proposal \in Proposal /\ acting[p].readable \subseteq Resource
    BY <2>1, ActKinds DEF CollaborationInv, SharingInv, AcceptingOne
  <2>3. \A r \in acting[p].readable : visibility'[r] = "private" => visibility[r] = "private"
    BY <2>1, <2>2 DEF Held
  <2>4. delegation[acting[p].proposal] # NotProposed
    BY <2>1 DEF AcceptSound
  <2> QED
    BY <2>1, <2>2, <2>3, <2>4, AcceptKept
<1> QED
  BY <1>3, <1>4

\* The end of a request's transaction.
LEMMA DoneLock ==
  ASSUME CollaborationInv, NEW q \in OtherRequest, Done(q)
  PROVE  /\ UNCHANGED <<role, owner, invited, doing, granted>>
         /\ acting' \in [OtherRequest -> Acting \cup {NoRequest}]
         /\ ActLocks'
         /\ \A p \in OtherRequest, op \in {"propose", "accept"} :
              Acts(p, op)' => acting'[p] = acting[p] /\ Acts(p, op) /\ p # q
<1>1. /\ acting' = [acting EXCEPT ![q] = NoRequest]
      /\ holds' = [holds EXCEPT ![q] = "nothing"]
      /\ UNCHANGED <<role, owner, invited, doing, granted>>
  BY DEF Done, Take
<1>2. acting' \in [OtherRequest -> Acting \cup {NoRequest}] /\ ActLocks'
  BY <1>1 DEF CollaborationInv, SharingInv, DelegationTypeOK, ActLocks, MemberInv, MembershipTypeOK, LockHolder
<1>3. \A p \in OtherRequest, op \in {"propose", "accept"} :
        Acts(p, op)' => acting'[p] = acting[p] /\ Acts(p, op) /\ p # q
  BY <1>1 DEF CollaborationInv, SharingInv, DelegationTypeOK, Acts
<1> QED
  BY <1>1, <1>2, <1>3

\* A delegation changes its status, and maybe what it grants.
LEMMA MoveSteps ==
  ASSUME CollaborationInv, NEW d \in Proposal, NEW before \in Open, NEW after \in Ended \cup {"accepted"},
         Move(d, before, after), UNCHANGED <<role, owner, doing, granted>>,
         acting' \in [OtherRequest -> Acting \cup {NoRequest}], ActLocks',
         \A p \in OtherRequest, op \in {"propose", "accept"} : Acts(p, op)' => acting'[p] = acting[p] /\ Acts(p, op),
         visibility' \in [Resource -> Visibility],
         \A r \in Resource :
           visibility'[r] = visibility[r]
             \/ (visibility[r] = "private" /\ visibility'[r] # "private" /\ owner[r] # NoAccount),
         evidence' \in [Proposal -> SUBSET Resource],
         \A e \in Proposal : evidence'[e] # {} => (IF e = d THEN after = "accepted" ELSE evidence'[e] = evidence[e])
  PROVE  SharingInv'
<1>1. delegation[d] \in Proposed /\ delegation[d] # NotProposed
  BY DelegationKinds DEF Move, CollaborationInv, SharingInv, Status, Open, NotProposed
<1>2. delegation' = [delegation EXCEPT ![d] = [delegation[d] EXCEPT !.status = after]]
  BY DEF Move
<1>3. [delegation[d] EXCEPT !.status = after] \in Proposed
  BY <1>1 DEF Proposed, Open
<1>4. /\ \A e \in Proposal : e # d => delegation'[e] = delegation[e]
      /\ delegation'[d] \in Proposed
      /\ delegation'[d].status = after
      /\ delegation'[d].evidence = delegation[d].evidence
      /\ delegation'[d].from = delegation[d].from
      /\ delegation'[d].to = delegation[d].to
  BY <1>1, <1>2, <1>3 DEF CollaborationInv, SharingInv, DelegationTypeOK, Proposed
<1>5. DelegationTypeOK'
  BY <1>2, <1>3 DEF CollaborationInv, SharingInv, DelegationTypeOK
<1>6. delegation'[d] # NotProposed
  BY <1>4 DEF NotProposed, Ended
<1>7. Proposals' /\ Accepts'
  BY <1>1, <1>4, <1>6, RequestsKept
<1>8. Unowned'
  BY DEF CollaborationInv, SharingInv, Unowned
<1>9. OpenBetweenMembers'
  <2> SUFFICES ASSUME NEW e \in Proposal
               PROVE  /\ Status(e)' \in Open => \A a \in Parties(e)' : Active(a)'
                      /\ evidence'[e] # {} => Status(e)' = "accepted"
    BY DEF OpenBetweenMembers
  <2>1. CASE e = d
    BY <1>4, <2>1 DEF CollaborationInv, SharingInv, OpenBetweenMembers, Status, Parties, Active, Move
  <2>2. CASE e # d
    BY <1>4, <2>2 DEF CollaborationInv, SharingInv, OpenBetweenMembers, Status, Parties, Active
  <2> QED
    BY <2>1, <2>2
<1> QED
  BY <1>5, <1>7, <1>8, <1>9 DEF SharingInv

LEMMA CommitAcceptDelegationStep ==
  ASSUME CollaborationInv, NEW q \in OtherRequest, CommitAcceptDelegation(q)
  PROVE  SharingInv'
<1> DEFINE d == acting[q].proposal
           readable == acting[q].readable
<1>1. Acts(q, "accept") /\ Move(d, "proposed", "accepted") /\ Done(q)
  BY DEF CommitAcceptDelegation
<1>2. acting[q] \in AcceptingOne /\ AcceptSound(q)
  BY <1>1, ActKinds DEF CollaborationInv, SharingInv, Accepts
<1>3. d \in Proposal /\ readable \subseteq Resource
  BY <1>2 DEF AcceptingOne
<1>4. /\ evidence' = [evidence EXCEPT ![d] = readable]
      /\ visibility' = [r \in Resource |->
           IF r \in readable /\ visibility[r] = "private" THEN "shared_explicitly" ELSE visibility[r]]
  BY DEF CommitAcceptDelegation
<1>5. visibility' \in [Resource -> Visibility]
  BY <1>4 DEF CollaborationInv, SharingInv, DelegationTypeOK, Visibility
<1>6. \A r \in Resource :
        visibility'[r] = visibility[r]
          \/ (visibility[r] = "private" /\ visibility'[r] # "private" /\ owner[r] # NoAccount)
  BY <1>2, <1>4 DEF AcceptSound
<1>7. /\ evidence' \in [Proposal -> SUBSET Resource]
      /\ \A e \in Proposal : e # d => evidence'[e] = evidence[e]
  BY <1>3, <1>4 DEF CollaborationInv, SharingInv, DelegationTypeOK
<1> QED
  BY <1>1, <1>3, <1>5, <1>6, <1>7, DoneLock, MoveSteps DEF Open

LEMMA CommitEndStep ==
  ASSUME CollaborationInv, NEW q \in OtherRequest, NEW op \in {"complete", "revoke"},
         NEW after \in {"completed", "revoked"}, CommitEnd(q, op, after)
  PROVE  SharingInv'
<1> DEFINE d == acting[q].proposal
<1>1. Acts(q, op) /\ Move(d, "accepted", after) /\ Done(q) /\ UNCHANGED visibility
  BY DEF CommitEnd
<1>2. d \in Proposal
  BY <1>1, ActKinds DEF CollaborationInv, SharingInv, EndingOne
<1>3. /\ visibility' \in [Resource -> Visibility]
      /\ evidence' \in [Proposal -> SUBSET Resource]
      /\ \A e \in Proposal : evidence'[e] # {} => e # d /\ evidence'[e] = evidence[e]
  BY <1>1, <1>2 DEF CommitEnd, CollaborationInv, SharingInv, DelegationTypeOK
<1> QED
  BY <1>1, <1>2, <1>3, DoneLock, MoveSteps DEF Open, Ended

\* Only an accepted delegation grants, so one that was proposed granted nothing.
LEMMA LapseStep ==
  ASSUME CollaborationInv, NEW d \in Proposal, NEW after \in Ended, Move(d, "proposed", after),
         UNCHANGED <<role, owner, doing, granted, visibility, evidence>>,
         acting' \in [OtherRequest -> Acting \cup {NoRequest}], ActLocks',
         \A p \in OtherRequest, op \in {"propose", "accept"} : Acts(p, op)' => acting'[p] = acting[p] /\ Acts(p, op)
  PROVE  SharingInv'
<1>1. evidence[d] = {}
  BY DEF Move, CollaborationInv, SharingInv, OpenBetweenMembers
<1>2. visibility' \in [Resource -> Visibility] /\ evidence' \in [Proposal -> SUBSET Resource]
  BY DEF CollaborationInv, SharingInv, DelegationTypeOK
<1> QED
  BY <1>1, <1>2, MoveSteps DEF Open

LEMMA CommitRejectStep ==
  ASSUME CollaborationInv, NEW q \in OtherRequest, CommitReject(q)
  PROVE  SharingInv'
<1>1. /\ Acts(q, "reject") /\ Move(acting[q].proposal, "proposed", "rejected") /\ Done(q)
      /\ UNCHANGED <<visibility, evidence>>
  BY DEF CommitReject
<1>2. acting[q].proposal \in Proposal
  BY <1>1, ActKinds DEF CollaborationInv, SharingInv, EndingOne
<1> QED
  BY <1>1, <1>2, DoneLock, LapseStep DEF Ended

LEMMA ExpireStep ==
  ASSUME CollaborationInv, NEW d \in Proposal, Expire(d)
  PROVE  SharingInv'
<1>1. Move(d, "proposed", "expired") /\ UNCHANGED <<memberVars, visibility, granted, evidence, acting>>
  BY DEF Expire
<1>2. /\ acting' \in [OtherRequest -> Acting \cup {NoRequest}] /\ ActLocks'
      /\ \A p \in OtherRequest, op \in {"propose", "accept"} : Acts(p, op)' => acting'[p] = acting[p] /\ Acts(p, op)
  BY <1>1 DEF memberVars, CollaborationInv, SharingInv, DelegationTypeOK, ActLocks, Acts
<1> QED
  BY <1>1, <1>2, LapseStep DEF Ended, memberVars

LEMMA CommitProposeStep ==
  ASSUME CollaborationInv, NEW q \in OtherRequest, CommitPropose(q)
  PROVE  SharingInv'
<1> DEFINE d == acting[q].proposal
           is == acting[q].is
<1>1. /\ Acts(q, "propose") /\ Done(q) /\ UNCHANGED <<visibility, evidence>>
      /\ delegation' = [delegation EXCEPT ![d] = is]
  BY DEF CommitPropose
<1>2. acting[q] \in Proposing /\ ProposalSound(q)
  BY <1>1, ActKinds DEF CollaborationInv, SharingInv, Proposals
<1>3. d \in Proposal /\ is \in Proposed /\ is.status = "proposed" /\ delegation[d] = NotProposed
  BY <1>2 DEF Proposing, ProposalSound
<1>4. /\ UNCHANGED <<role, owner, invited, doing, granted>>
      /\ acting' \in [OtherRequest -> Acting \cup {NoRequest}]
      /\ ActLocks'
      /\ \A p \in OtherRequest, op \in {"propose", "accept"} :
           Acts(p, op)' => acting'[p] = acting[p] /\ Acts(p, op) /\ p # q
  BY <1>1, DoneLock
<1>5. /\ \A e \in Proposal : e # d => delegation'[e] = delegation[e]
      /\ delegation'[d] = is
  BY <1>1, <1>3 DEF CollaborationInv, SharingInv, DelegationTypeOK
<1>6. DelegationTypeOK' /\ Unowned'
  BY <1>1, <1>3, <1>4 DEF CollaborationInv, SharingInv, DelegationTypeOK, Unowned
<1>7. OpenBetweenMembers'
  <2> SUFFICES ASSUME NEW e \in Proposal
               PROVE  /\ Status(e)' \in Open => \A a \in Parties(e)' : Active(a)'
                      /\ evidence'[e] # {} => Status(e)' = "accepted"
    BY DEF OpenBetweenMembers
  <2>1. CASE e = d
    <3>1. evidence[d] = {}
      BY <1>3 DEF CollaborationInv, SharingInv, OpenBetweenMembers, Status, NotProposed
    <3> QED
      BY <1>1, <1>2, <1>4, <1>5, <2>1, <3>1 DEF ProposalSound, Status, Parties, Active
  <2>2. CASE e # d
    BY <1>1, <1>4, <1>5, <2>2 DEF CollaborationInv, SharingInv, OpenBetweenMembers, Status, Parties, Active
  <2> QED
    BY <2>1, <2>2
<1>8. ASSUME NEW p \in OtherRequest, Acts(p, "propose")'
      PROVE  acting'[p] = acting[p] /\ Acts(p, "propose") /\ ProposalSound(p) /\ acting[p].proposal # d
  BY <1>1, <1>4, <1>8 DEF CollaborationInv, SharingInv, Proposals
<1>9. ASSUME NEW p \in OtherRequest, Acts(p, "propose")'
      PROVE  ProposalSound(p)'
  <2>1. acting'[p] = acting[p] /\ Acts(p, "propose") /\ ProposalSound(p) /\ acting[p].proposal # d
    BY <1>8, <1>9
  <2>2. acting[p].proposal \in Proposal
    BY <2>1, ActKinds DEF CollaborationInv, SharingInv, Proposing
  <2> QED
    BY <1>1, <1>4, <1>5, <2>1, <2>2, ProposalKept
<1>10. Proposals'
  BY <1>8, <1>9 DEF CollaborationInv, SharingInv, Proposals
<1>11. Accepts'
  <2> SUFFICES ASSUME NEW p \in OtherRequest, Acts(p, "accept")'
               PROVE  AcceptSound(p)'
    BY DEF Accepts
  <2>1. acting'[p] = acting[p] /\ Acts(p, "accept") /\ AcceptSound(p)
    BY <1>4 DEF CollaborationInv, SharingInv, Accepts
  <2>2. acting[p].proposal \in Proposal /\ delegation[acting[p].proposal] # NotProposed
    BY <2>1, ActKinds DEF CollaborationInv, SharingInv, AcceptingOne, AcceptSound
  <2> QED
    BY <1>1, <1>3, <1>4, <1>5, <2>1, <2>2, AcceptKept
<1> QED
  BY <1>4, <1>6, <1>7, <1>10, <1>11 DEF SharingInv

\* Explicit grants, and a request that is refused.
LEMMA GrantSteps ==
  ASSUME CollaborationInv, UNCHANGED <<role, owner, doing, delegation>>,
         acting' \in [OtherRequest -> Acting \cup {NoRequest}], ActLocks',
         \A p \in OtherRequest, op \in {"propose", "accept"} : Acts(p, op)' => acting'[p] = acting[p] /\ Acts(p, op),
         visibility' \in [Resource -> Visibility],
         granted' \in [Account \X Resource -> 0 .. MaxGrant],
         evidence' \in [Proposal -> SUBSET Resource],
         \A d \in Proposal : evidence'[d] \subseteq evidence[d],
         \A r \in Resource : owner[r] = NoAccount => visibility'[r] = visibility[r],
         \A r \in Resource :
           Held(r) => visibility'[r] = visibility[r] /\ \A a \in Account : granted'[<<a, r>>] = granted[<<a, r>>]
  PROVE  SharingInv'
<1>1. DelegationTypeOK'
  BY DEF CollaborationInv, SharingInv, DelegationTypeOK
<1>2. Proposals' /\ Accepts'
  BY RequestsKept
<1>3. Unowned'
  BY DEF CollaborationInv, SharingInv, Unowned
<1>4. OpenBetweenMembers'
  BY DEF CollaborationInv, SharingInv, OpenBetweenMembers, Status, Parties, Active
<1> QED
  BY <1>1, <1>2, <1>3, <1>4 DEF SharingInv

LEMMA RefuseStep ==
  ASSUME CollaborationInv, NEW q \in OtherRequest, Refuse(q)
  PROVE  SharingInv'
<1>1. Done(q) /\ UNCHANGED <<visibility, delegation, evidence>>
  BY DEF Refuse
<1>2. /\ UNCHANGED <<role, owner, invited, doing, granted>>
      /\ acting' \in [OtherRequest -> Acting \cup {NoRequest}]
      /\ ActLocks'
      /\ \A p \in OtherRequest, op \in {"propose", "accept"} :
           Acts(p, op)' => acting'[p] = acting[p] /\ Acts(p, op) /\ p # q
  BY <1>1, DoneLock
<1>3. DelegationTypeOK
  BY DEF CollaborationInv, SharingInv
<1> QED
  BY <1>1, <1>2, <1>3, GrantSteps DEF DelegationTypeOK

LEMMA CreateGrantStep ==
  ASSUME CollaborationInv, NEW by \in Account, NEW a \in Account, NEW r \in Resource, NEW narrow \in BOOLEAN,
         CreateGrant(by, a, r, narrow) \/ RevokeGrant(a, r)
  PROVE  SharingInv'
<1>1. RowsWritable({r}) /\ UNCHANGED <<role, owner, doing, holds, delegation, evidence, acting>>
  BY DEF CreateGrant, RevokeGrant, memberVars
<1>2. ~Held(r)
  BY <1>1, HeldRows
<1>3. DelegationTypeOK
  BY DEF CollaborationInv, SharingInv
<1>4. /\ granted' \in [Account \X Resource -> 0 .. MaxGrant]
      /\ \A s \in Resource : s # r => \A b \in Account : granted'[<<b, s>>] = granted[<<b, s>>]
  BY <1>3, DelegationAssumption DEF CreateGrant, RevokeGrant, DelegationTypeOK
<1>5. /\ visibility' \in [Resource -> Visibility]
      /\ \A s \in Resource : s # r => visibility'[s] = visibility[s]
      /\ owner[r] = NoAccount => visibility'[r] = visibility[r]
  BY <1>3 DEF CreateGrant, RevokeGrant, DelegationTypeOK, Visibility
<1>6. /\ ActLocks' /\ acting' \in [OtherRequest -> Acting \cup {NoRequest}]
      /\ \A p \in OtherRequest, op \in {"propose", "accept"} : Acts(p, op)' => acting'[p] = acting[p] /\ Acts(p, op)
  BY <1>1, <1>3 DEF CollaborationInv, SharingInv, ActLocks, Acts, DelegationTypeOK
<1> QED
  BY <1>1, <1>2, <1>3, <1>4, <1>5, <1>6, GrantSteps DEF DelegationTypeOK

\* The proposals that rest on the grant know that it expired; the others lose
\* nothing they rely on.
LEMMA ExpireGrantStep ==
  ASSUME CollaborationInv, NEW a \in Account, NEW r \in Resource, ExpireGrant(a, r)
  PROVE  SharingInv'
<1> DEFINE Rests(q) == Acts(q, "propose") /\ acting[q].is.from = a /\ acting[q].is.obligation = r
<1>1. /\ granted' = [granted EXCEPT ![<<a, r>>] = @ - 1]
      /\ UNCHANGED <<role, owner, doing, holds, visibility, delegation, evidence>>
      /\ DelegationTypeOK
  BY DEF ExpireGrant, memberVars, CollaborationInv, SharingInv
<1>2. \A q \in OtherRequest :
        acting'[q] = IF Rests(q) THEN [acting[q] EXCEPT !.lapsed = TRUE] ELSE acting[q]
  BY DEF ExpireGrant
<1>3. ASSUME NEW q \in OtherRequest
      PROVE  /\ acting'[q] \in Acting \cup {NoRequest}
             /\ acting'[q] = NoRequest <=> acting[q] = NoRequest
             /\ ~Rests(q) => acting'[q] = acting[q]
             /\ Rests(q) => /\ acting'[q].op = "propose" /\ acting'[q].lapsed
                            /\ acting'[q].proposal = acting[q].proposal
                            /\ acting'[q].is = acting[q].is
  <2>1. CASE Rests(q)
    <3>1. acting[q] \in Proposing /\ acting[q] # NoRequest
      BY <1>1, <2>1, ActKinds DEF Acts
    <3>2. acting'[q] = [acting[q] EXCEPT !.lapsed = TRUE]
      BY <1>2, <2>1
    <3>3. /\ acting'[q] \in Proposing
          /\ acting'[q].op = "propose" /\ acting'[q].lapsed
          /\ acting'[q].proposal = acting[q].proposal /\ acting'[q].is = acting[q].is
      BY <3>1, <3>2 DEF Proposing
    <3>4. acting'[q] \in Acting /\ acting'[q] # NoRequest
      BY <3>3, DelegationAssumption DEF Acting, Proposing
    <3> QED
      BY <2>1, <3>1, <3>3, <3>4
  <2>2. CASE ~Rests(q)
    BY <1>1, <1>2, <2>2 DEF DelegationTypeOK
  <2> QED
    BY <2>1, <2>2
<1>4. ASSUME NEW q \in OtherRequest, NEW op \in {"propose", "accept"}, Acts(q, op)'
      PROVE  Acts(q, op) /\ (op = "accept" => acting'[q] = acting[q])
  BY <1>3, <1>4 DEF Acts
<1> HIDE DEF Rests
<1>5. granted' \in [Account \X Resource -> 0 .. MaxGrant]
  BY <1>1, DelegationAssumption DEF ExpireGrant, DelegationTypeOK
<1>6. DelegationTypeOK'
  <2>1. acting' \in [OtherRequest -> Acting \cup {NoRequest}]
    BY <1>3 DEF ExpireGrant
  <2> QED
    BY <1>1, <1>5, <2>1 DEF DelegationTypeOK
<1>7. ActLocks'
  BY <1>1, <1>3 DEF CollaborationInv, SharingInv, ActLocks
<1>8. ASSUME NEW q \in OtherRequest, Acts(q, "propose")'
      PROVE  ProposalSound(q)'
  <2>1. Acts(q, "propose") /\ ProposalSound(q) /\ acting[q] \in Proposing
    BY <1>1, <1>4, <1>8, ActKinds DEF CollaborationInv, SharingInv, Proposals
  <2>2. CASE Rests(q)
    BY <1>1, <1>3, <2>1, <2>2 DEF ProposalSound, Active, ResourceFree, Serving, Idle
  <2>3. CASE ~Rests(q)
    <3>1. acting'[q] = acting[q]
      BY <1>3, <2>3
    <3>2. <<acting[q].is.from, acting[q].is.obligation>> # <<a, r>>
      BY <2>1, <2>3 DEF Rests
    <3>3. <<acting[q].is.from, acting[q].is.obligation>> \in Account \X Resource
      BY <2>1 DEF Proposing, Proposed, ProposalSound
    <3>4. granted'[<<acting[q].is.from, acting[q].is.obligation>>]
            = granted[<<acting[q].is.from, acting[q].is.obligation>>]
      BY <1>1, <3>2, <3>3 DEF DelegationTypeOK
    <3> QED
      BY <1>1, <2>1, <3>1, <3>4, ProposalKept
  <2> QED
    BY <2>2, <2>3
<1>9. Proposals'
  <2>1. ASSUME NEW q \in OtherRequest, Acts(q, "propose")'
        PROVE  Acts(q, "propose") /\ acting'[q].proposal = acting[q].proposal
    BY <1>3, <1>4, <2>1
  <2> QED
    BY <1>8, <2>1 DEF CollaborationInv, SharingInv, Proposals
<1>10. Accepts'
  <2> SUFFICES ASSUME NEW q \in OtherRequest, Acts(q, "accept")'
               PROVE  AcceptSound(q)'
    BY DEF Accepts
  <2>1. acting'[q] = acting[q] /\ AcceptSound(q)
    BY <1>4 DEF CollaborationInv, SharingInv, Accepts
  <2> QED
    BY <1>1, <2>1 DEF AcceptSound, ResourceFree, Serving, Idle
<1>11. Unowned' /\ OpenBetweenMembers'
  BY <1>1 DEF CollaborationInv, SharingInv, Unowned, OpenBetweenMembers, Status, Parties, Active
<1> QED
  BY <1>6, <1>7, <1>9, <1>10, <1>11 DEF SharingInv

LEMMA RevokeEvidenceStep ==
  ASSUME CollaborationInv, NEW d \in Proposal, NEW r \in Resource, RevokeEvidence(d, r)
  PROVE  SharingInv'
<1>1. /\ evidence' = [evidence EXCEPT ![d] = @ \ {r}]
      /\ UNCHANGED <<role, owner, doing, holds, visibility, granted, delegation, acting>>
  BY DEF RevokeEvidence, memberVars
<1>2. DelegationTypeOK
  BY DEF CollaborationInv, SharingInv
<1>3. /\ evidence' \in [Proposal -> SUBSET Resource]
      /\ \A e \in Proposal : evidence'[e] \subseteq evidence[e]
  BY <1>1, <1>2 DEF DelegationTypeOK
<1>4. /\ ActLocks' /\ acting' \in [OtherRequest -> Acting \cup {NoRequest}]
      /\ \A p \in OtherRequest, op \in {"propose", "accept"} : Acts(p, op)' => acting'[p] = acting[p] /\ Acts(p, op)
  BY <1>1, <1>2 DEF CollaborationInv, SharingInv, ActLocks, Acts, DelegationTypeOK
<1> QED
  BY <1>1, <1>2, <1>3, <1>4, GrantSteps DEF DelegationTypeOK

-----------------------------------------------------------------------------
\* Every step keeps what Membership relies on: it is a step of Membership, or
\* takes or gives back a shared lock, or leaves its state alone.
LEMMA MemberInvKept ==
  ASSUME CollaborationInv, CollaborationNext
  PROVE  MemberInv'
<1> USE DEF CollaborationInv
<1>1. CASE MembersNext
  BY <1>1, MembersStep
<1>2. ASSUME NEW p \in MemberRequest, RemoveAndCancel(p) \/ OwnAndShow(p)
      PROVE  MemberInv'
  BY <1>2, CommitRemoveStep, CommitOwnerStep DEF RemoveAndCancel, OwnAndShow
<1>3. ASSUME NEW p \in MemberRequest, NEW by \in Account, NEW r \in Resource, CheckCreate(p, by, r)
      PROVE  MemberInv'
  BY <1>3, CheckCreateStep
<1>4. ASSUME NEW p \in MemberRequest, NEW by \in Account, NEW r \in Resource, NEW a \in Account,
             LockedTransfer(p, by, r, a)
      PROVE  MemberInv'
  BY <1>4, CheckTransferStep DEF LockedTransfer
<1>5. CASE DelegationNext
  <2>1. ASSUME NEW q \in OtherRequest, NEW request, Act(q, request)
        PROVE  MemberInv'
    BY <2>1, OtherStep DEF Act
  <2>2. ASSUME NEW q \in OtherRequest, Done(q)
        PROVE  MemberInv'
    BY <2>2, OtherStep DEF Done
  <2>3. ASSUME NEW q \in OtherRequest, NEW d \in Proposal, NEW from \in Account, NEW to \in Account,
               NEW r \in Resource, NEW more \in SUBSET Resource, CheckPropose(q, d, from, to, r, more)
        PROVE  MemberInv'
    BY <2>1, <2>3 DEF CheckPropose
  <2>4. ASSUME NEW q \in OtherRequest, NEW d \in Proposal, CheckAcceptDelegation(q, d)
        PROVE  MemberInv'
    BY <2>1, <2>4 DEF CheckAcceptDelegation
  <2>5. ASSUME NEW q \in OtherRequest, NEW d \in Proposal, NEW op, NEW before, NEW party,
               CheckEnd(q, d, op, before, party)
        PROVE  MemberInv'
    BY <2>1, <2>5 DEF CheckEnd
  <2>6. ASSUME NEW q \in OtherRequest,
               \/ CommitPropose(q) \/ CommitAcceptDelegation(q) \/ CommitReject(q)
               \/ CommitEnd(q, "complete", "completed") \/ CommitEnd(q, "revoke", "revoked")
               \/ Refuse(q)
        PROVE  MemberInv'
    BY <2>2, <2>6 DEF CommitPropose, CommitAcceptDelegation, CommitReject, CommitEnd, Refuse
  <2>7. ASSUME NEW d \in Proposal, Expire(d) \/ \E r \in Resource : RevokeEvidence(d, r)
        PROVE  MemberInv'
    BY <2>7, StutterStep DEF Expire, RevokeEvidence
  <2>8. ASSUME NEW a \in Account, NEW r \in Resource,
               RevokeGrant(a, r) \/ ExpireGrant(a, r)
                 \/ \E by \in Account, narrow \in BOOLEAN : CreateGrant(by, a, r, narrow)
        PROVE  MemberInv'
    BY <2>8, StutterStep DEF RevokeGrant, ExpireGrant, CreateGrant
  <2> QED
    BY <1>5, <2>3, <2>4, <2>5, <2>6, <2>7, <2>8 DEF DelegationNext
<1> QED
  BY <1>1, <1>2, <1>3, <1>4, <1>5 DEF CollaborationNext

LEMMA SharingKept ==
  ASSUME CollaborationInv, CollaborationNext
  PROVE  SharingInv'
<1>1. CASE MembersNext /\ UNCHANGED sharingVars
  BY <1>1, MembersFrame, FrameKeeps
<1>2. ASSUME NEW p \in MemberRequest, RemoveAndCancel(p) \/ OwnAndShow(p)
      PROVE  SharingInv'
  BY <1>2, RemoveAndCancelStep, OwnAndShowStep
<1>3. ASSUME NEW p \in MemberRequest, NEW by \in Account, NEW r \in Resource,
             CheckCreate(p, by, r), UNCHANGED sharingVars
      PROVE  SharingInv'
  <2>1. owner[r] = NoAccount
    BY <1>3 DEF CheckCreate
  <2>2. Serve(p, [op |-> "own", of |-> by, resource |-> r]) /\ Take(p, "shared") /\ UNCHANGED <<role, owner>>
    BY <1>3 DEF CheckCreate
  <2> QED
    BY <1>3, <2>1, <2>2, CheckOwnFrame, FrameKeeps
<1>4. ASSUME NEW p \in MemberRequest, NEW by \in Account, NEW r \in Resource, NEW a \in Account,
             LockedTransfer(p, by, r, a)
      PROVE  SharingInv'
  <2>1. RowsWritable({r}) /\ UNCHANGED sharingVars
    BY <1>4 DEF LockedTransfer
  <2>2. Serve(p, [op |-> "own", of |-> a, resource |-> r]) /\ Take(p, "shared") /\ UNCHANGED <<role, owner>>
    BY <1>4 DEF LockedTransfer, CheckTransfer
  <2> QED
    BY <2>1, <2>2, CheckOwnFrame, FrameKeeps
<1>5. CASE DelegationNext
  <2>1. ASSUME NEW q \in OtherRequest, NEW d \in Proposal, NEW from \in Account, NEW to \in Account,
               NEW r \in Resource, NEW more \in SUBSET Resource, CheckPropose(q, d, from, to, r, more)
        PROVE  SharingInv'
    BY <2>1, ProposeStep
  <2>2. ASSUME NEW q \in OtherRequest, NEW d \in Proposal,
               \/ CheckAcceptDelegation(q, d)
               \/ \E op \in {"reject", "complete", "revoke"}, before \in Open,
                     party \in {delegation[d].from, delegation[d].to} : CheckEnd(q, d, op, before, party)
        PROVE  SharingInv'
    BY <2>2, AcceptStep, EndRequestStep
  <2>3. ASSUME NEW q \in OtherRequest,
               \/ CommitPropose(q) \/ CommitAcceptDelegation(q) \/ CommitReject(q)
               \/ CommitEnd(q, "complete", "completed") \/ CommitEnd(q, "revoke", "revoked")
               \/ Refuse(q)
        PROVE  SharingInv'
    BY <2>3, CommitProposeStep, CommitAcceptDelegationStep, CommitRejectStep, CommitEndStep, RefuseStep
  <2>4. ASSUME NEW d \in Proposal, Expire(d) \/ \E r \in Resource : RevokeEvidence(d, r)
        PROVE  SharingInv'
    BY <2>4, ExpireStep, RevokeEvidenceStep
  <2>5. ASSUME NEW a \in Account, NEW r \in Resource,
               RevokeGrant(a, r) \/ ExpireGrant(a, r)
                 \/ \E by \in Account, narrow \in BOOLEAN : CreateGrant(by, a, r, narrow)
        PROVE  SharingInv'
    BY <2>5, CreateGrantStep, ExpireGrantStep
  <2> QED
    BY <1>5, <2>1, <2>2, <2>3, <2>4, <2>5 DEF DelegationNext, Open
<1> QED
  BY <1>1, <1>2, <1>3, <1>4, <1>5 DEF CollaborationNext

LEMMA CollaborationStep ==
  ASSUME CollaborationInv, [CollaborationNext]_collaborationVars
  PROVE  CollaborationInv'
<1>1. CASE UNCHANGED collaborationVars
  <2>1. UNCHANGED memberVars /\ UNCHANGED sharingVars
    BY <1>1 DEF collaborationVars
  <2>2. MemberInv'
    BY <2>1, StutterStep DEF CollaborationInv
  <2>3. MemberFrame
    BY <2>1 DEF memberVars, MemberFrame, ResourceFree, Serving, Idle, Active
  <2> QED
    BY <2>1, <2>2, <2>3, FrameKeeps DEF CollaborationInv
<1>2. CASE CollaborationNext
  BY <1>2, MemberInvKept, SharingKept DEF CollaborationInv
<1> QED
  BY <1>1, <1>2

(* Members, removals, transfers, delegations and grants keep together what *)
(* each request in flight relies on.                                       *)
THEOREM CollaborationSafe == CollaborationSpec => []CollaborationInv
<1> QED
  BY InitSharing, CollaborationStep, PTL DEF CollaborationSpec

(* The members' guarantees hold with the delegations and grants around     *)
(* them: the workspace keeps an owner, whoever leaves or is demoted.       *)
THEOREM WorkspaceKeepsOwner == CollaborationSpec => []HasOwner
<1>1. CollaborationInv => HasOwner
  BY DEF CollaborationInv, MemberInv
<1> QED
  BY <1>1, CollaborationSafe, PTL

(* No resource is left with, or given to, a member who was removed.        *)
THEOREM ResourcesHaveMembers == CollaborationSpec => []RemovedOwnsNothing
<1>1. CollaborationInv => RemovedOwnsNothing
  BY DEF CollaborationInv, MemberInv
<1> QED
  BY <1>1, CollaborationSafe, PTL

(* Administrators who invite the same email at once make one invitation.   *)
THEOREM InvitationsUnique == CollaborationSpec => []OnePendingPerEmail
<1>1. CollaborationInv => OnePendingPerEmail
  BY DEF CollaborationInv, MemberInv
<1> QED
  BY <1>1, CollaborationSafe, PTL

(* Memberships, delegations and the requests about both are typed.         *)
THEOREM CollaborationTyped == CollaborationSpec => []CollaborationTypeOK
<1>1. CollaborationInv => CollaborationTypeOK
  BY DEF CollaborationInv, MemberInv, SharingInv, CollaborationTypeOK
<1> QED
  BY <1>1, CollaborationSafe, PTL

(* Open delegations have two active members, and only accepted ones grant. *)
THEOREM DelegationsBetweenMembers == CollaborationSpec => []OpenBetweenMembers
<1>1. CollaborationInv => OpenBetweenMembers
  BY DEF CollaborationInv, SharingInv
<1> QED
  BY <1>1, CollaborationSafe, PTL

-----------------------------------------------------------------------------
\* The steps that EndIsFinal and DelegatedWithAuthority allow.
FinalStep ==
  \A d \in Proposal :
    /\ Status(d) \in Ended => delegation'[d] = delegation[d]
    /\ delegation'[d].status = "accepted" => Status(d) \in Open
AuthorityStep ==
  \A d \in Proposal :
    /\ Status(d) = "none" /\ delegation'[d].status # "none" =>
         \/ May(delegation'[d].from, delegation'[d].obligation, "write")
         \/ \E q \in OtherRequest :
              Acts(q, "propose") /\ acting[q].proposal = d /\ acting[q].lapsed
    /\ \A r \in evidence'[d] \ evidence[d] :
         visibility[r] = "private" => owner[r] = delegation[d].from

LEMMA QuietStep ==
  ASSUME UNCHANGED delegation, \A d \in Proposal : evidence'[d] \subseteq evidence[d]
  PROVE  FinalStep /\ AuthorityStep
BY DEF FinalStep, AuthorityStep, Status, Open

\* A delegation that was open moves on.
LEMMA MovedStep ==
  ASSUME CollaborationInv, NEW d \in Proposal, NEW before \in Open, NEW after, Move(d, before, after),
         \A e \in Proposal :
           \A r \in evidence'[e] \ evidence[e] : visibility[r] = "private" => owner[r] = delegation[e].from
  PROVE  FinalStep /\ AuthorityStep
<1>1. \A e \in Proposal : e # d => delegation'[e] = delegation[e]
  BY DEF Move, CollaborationInv, SharingInv, DelegationTypeOK
<1>2. Status(d) \in Open
  BY DEF Move
<1> QED
  BY <1>1, <1>2 DEF FinalStep, AuthorityStep, Status, Open, Ended

LEMMA CommitProposeAllowed ==
  ASSUME CollaborationInv, NEW q \in OtherRequest, CommitPropose(q)
  PROVE  FinalStep /\ AuthorityStep
<1> DEFINE d == acting[q].proposal
           is == acting[q].is
<1>1. acting[q] \in Proposing /\ ProposalSound(q)
  BY ActKinds DEF CommitPropose, CollaborationInv, SharingInv, Proposals
<1>2. d \in Proposal /\ is \in Proposed /\ is.status = "proposed" /\ delegation[d] = NotProposed
  BY <1>1 DEF Proposing, ProposalSound
<1>3. is.from \in Account /\ is.obligation \in Resource
  BY <1>2 DEF Proposed
<1>4. May(is.from, is.obligation, "write") \/ acting[q].lapsed
  BY <1>1, <1>3, MayMeans DEF CollaborationInv, SharingInv, ProposalSound
<1>5. UNCHANGED evidence /\ delegation'[d] = is /\ \A e \in Proposal : e # d => delegation'[e] = delegation[e]
  BY <1>2 DEF CommitPropose, CollaborationInv, SharingInv, DelegationTypeOK
<1>6. FinalStep
  BY <1>2, <1>5 DEF FinalStep, Status, NotProposed, Open, Ended
<1>7. AuthorityStep
  BY <1>4, <1>5 DEF AuthorityStep, Status, CommitPropose
<1> QED
  BY <1>6, <1>7

LEMMA CommitAcceptAllowed ==
  ASSUME CollaborationInv, NEW q \in OtherRequest, CommitAcceptDelegation(q)
  PROVE  FinalStep /\ AuthorityStep
<1> DEFINE d == acting[q].proposal
<1>1. Acts(q, "accept") /\ Move(d, "proposed", "accepted") /\ evidence' = [evidence EXCEPT ![d] = acting[q].readable]
  BY DEF CommitAcceptDelegation
<1>2. acting[q] \in AcceptingOne /\ AcceptSound(q)
  BY <1>1, ActKinds DEF CollaborationInv, SharingInv, Accepts
<1>3. d \in Proposal
  BY <1>2 DEF AcceptingOne
<1>4. \A e \in Proposal :
        \A r \in evidence'[e] \ evidence[e] : visibility[r] = "private" => owner[r] = delegation[e].from
  BY <1>1, <1>2, <1>3 DEF AcceptSound, CollaborationInv, SharingInv, DelegationTypeOK
<1> QED
  BY <1>1, <1>3, <1>4, MovedStep DEF Open

LEMMA LapseAllowed ==
  ASSUME CollaborationInv, NEW q \in OtherRequest,
         CommitReject(q) \/ \E op \in {"complete", "revoke"}, after \in {"completed", "revoked"} : CommitEnd(q, op, after)
  PROVE  FinalStep /\ AuthorityStep
<1> DEFINE d == acting[q].proposal
<1>1. d \in Proposal
  BY ActKinds DEF CommitReject, CommitEnd, CollaborationInv, SharingInv, EndingOne
<1>2. \A e \in Proposal : evidence'[e] \subseteq evidence[e]
  BY <1>1 DEF CommitReject, CommitEnd, CollaborationInv, SharingInv, DelegationTypeOK
<1> QED
  BY <1>1, <1>2, MovedStep DEF CommitReject, CommitEnd, Open

LEMMA RemovalAllowed ==
  ASSUME CollaborationInv, NEW p \in MemberRequest, RemoveAndCancel(p)
  PROVE  FinalStep /\ AuthorityStep
<1> DEFINE cancelled == {d \in Proposal : Status(d) \in Open /\ doing[p].of \in Parties(d)}
<1>1. /\ delegation' = [d \in Proposal |->
            IF d \in cancelled THEN [delegation[d] EXCEPT !.status = "cancelled"] ELSE delegation[d]]
      /\ evidence' = [d \in Proposal |-> IF d \in cancelled THEN {} ELSE evidence[d]]
  BY DEF RemoveAndCancel
<1>2. \A d \in cancelled : delegation[d] \in Proposed /\ Status(d) \in Open
  BY DelegationKinds DEF CollaborationInv, SharingInv, Open, Status, NotProposed
<1> QED
  BY <1>1, <1>2 DEF FinalStep, AuthorityStep, Status, Open, Ended, Proposed

LEMMA AllowedStep ==
  ASSUME CollaborationInv, [CollaborationNext]_collaborationVars
  PROVE  FinalStep /\ AuthorityStep
<1>1. CASE UNCHANGED sharingVars
  BY <1>1, QuietStep DEF sharingVars
<1>2. ASSUME NEW p \in MemberRequest, RemoveAndCancel(p) \/ OwnAndShow(p)
      PROVE  FinalStep /\ AuthorityStep
  BY <1>2, RemovalAllowed, QuietStep DEF OwnAndShow
<1>3. CASE DelegationNext
  <2>1. ASSUME NEW q \in OtherRequest, NEW request, Act(q, request) \/ Refuse(q)
        PROVE  FinalStep /\ AuthorityStep
    BY <2>1, QuietStep DEF Act, Refuse
  <2>2. ASSUME NEW q \in OtherRequest, NEW d \in Proposal, NEW from \in Account, NEW to \in Account,
               NEW r \in Resource, NEW more \in SUBSET Resource, CheckPropose(q, d, from, to, r, more)
        PROVE  FinalStep /\ AuthorityStep
    BY <2>1, <2>2 DEF CheckPropose
  <2>3. ASSUME NEW q \in OtherRequest, NEW d \in Proposal, CheckAcceptDelegation(q, d)
        PROVE  FinalStep /\ AuthorityStep
    BY <2>1, <2>3 DEF CheckAcceptDelegation
  <2>4. ASSUME NEW q \in OtherRequest, NEW d \in Proposal, NEW op, NEW before, NEW party,
               CheckEnd(q, d, op, before, party)
        PROVE  FinalStep /\ AuthorityStep
    BY <2>1, <2>4 DEF CheckEnd
  <2>5. ASSUME NEW q \in OtherRequest,
               \/ CommitPropose(q) \/ CommitAcceptDelegation(q) \/ CommitReject(q)
               \/ CommitEnd(q, "complete", "completed") \/ CommitEnd(q, "revoke", "revoked")
        PROVE  FinalStep /\ AuthorityStep
    BY <2>5, CommitProposeAllowed, CommitAcceptAllowed, LapseAllowed
  <2>6. ASSUME NEW d \in Proposal, Expire(d)
        PROVE  FinalStep /\ AuthorityStep
    BY <2>6, MovedStep DEF Expire, Open
  <2>7. ASSUME NEW d \in Proposal, NEW r \in Resource, RevokeEvidence(d, r)
        PROVE  FinalStep /\ AuthorityStep
    BY <2>7, QuietStep DEF RevokeEvidence, CollaborationInv, SharingInv, DelegationTypeOK
  <2>8. ASSUME NEW a \in Account, NEW r \in Resource,
               RevokeGrant(a, r) \/ ExpireGrant(a, r)
                 \/ \E by \in Account, narrow \in BOOLEAN : CreateGrant(by, a, r, narrow)
        PROVE  FinalStep /\ AuthorityStep
    BY <2>8, QuietStep DEF RevokeGrant, ExpireGrant, CreateGrant
  <2> QED
    BY <1>3, <2>1, <2>2, <2>3, <2>4, <2>5, <2>6, <2>7, <2>8 DEF DelegationNext
<1> QED
  BY <1>1, <1>2, <1>3 DEF CollaborationNext, LockedTransfer, collaborationVars

(* An end is final and only a proposal is accepted, in whatever order a    *)
(* reject, an accept, a lapse and a removal commit.                        *)
THEOREM EndsAreFinal == CollaborationSpec => EndIsFinal
<1>1. CollaborationInv /\ [CollaborationNext]_collaborationVars => [FinalStep]_collaborationVars
  BY AllowedStep
<1> QED
  BY <1>1, CollaborationSafe, PTL DEF CollaborationSpec, EndIsFinal, FinalStep

(* Whoever hands an obligation on may write it when that commits, or might *)
(* when the request checked, by a grant that has expired since; and an     *)
(* accept opens no private resource but the delegator's own.               *)
THEOREM DelegationsAuthorized == CollaborationSpec => DelegatedWithAuthority
<1>1. CollaborationInv /\ [CollaborationNext]_collaborationVars => [AuthorityStep]_collaborationVars
  BY AllowedStep
<1> QED
  BY <1>1, CollaborationSafe, PTL DEF CollaborationSpec, DelegatedWithAuthority, AuthorityStep
=============================================================================
