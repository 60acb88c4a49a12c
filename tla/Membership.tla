----------------------------- MODULE Membership -----------------------------
(***************************************************************************)
(* The members of one workspace: role changes and removals                 *)
(* (identity/membership_removal.py), invitations (identity/invitations.py, *)
(* identity/accounts.py), and the ownership of its resources               *)
(* (platform/authz_grants.py, and the create endpoints of every domain).   *)
(*                                                                         *)
(* A request that ends in one UPDATE runs in a transaction of several      *)
(* statements: it checks, under the locks it took, and commits in a later  *)
(* step.  Role changes and removals read the role of their caller in an    *)
(* earlier transaction still, before they wait for the exclusive lock.  A  *)
(* check that fails, a lock_timeout or an error ends a request (Abandon).  *)
(***************************************************************************)
EXTENDS FiniteSets, Naturals

CONSTANTS
  Account, Resource,
  Invitation,        \* places for invitations that are still pending
  MemberRequest,     \* places for requests in flight
  OtherRequest,      \* those of other components that take the membership lock
  Assignable,        \* the roles that requests name
  NoAccount, NoRequest

Role == {"owner", "admin", "member", "viewer"}
Admin == {"owner", "admin"}
Writer == Role \ {"viewer"}

LockHolder == MemberRequest \cup OtherRequest

VARIABLES
  role,      \* workspace_memberships: the role of an active member, or "none"
  owner,     \* owner_id of each resource, NoAccount while it does not exist
  invited,   \* invitations: for whom, as what and by whom, while pending
  doing,     \* the request each place serves, with what it has read
  holds      \* the workspace's membership advisory lock

memberVars == <<role, owner, invited, doing, holds>>

Active(a) == role[a] # "none"
Owners == {a \in Account : role[a] = "owner"}
Owned(a) == {r \in Resource : owner[r] = a}

Offer == [for : Account, as : Role, by : Account]
NoOffer == [for |-> NoAccount]
Pending(i) == invited[i] # NoOffer

Asked ==
       [op : {"change"}, of : Account, to : Role, asOwner : BOOLEAN, checked : BOOLEAN]
  \cup [op : {"remove"}, of : Account, asOwner : BOOLEAN, checked : BOOLEAN]
  \cup [op : {"invite"}, offer : Offer, checked : BOOLEAN]
  \cup [op : {"accept"}, of : Account, invitation : Invitation, as : Role]
  \cup [op : {"own"}, of : Account, resource : Resource]

ASSUME MembershipAssumption ==
  /\ Assignable \subseteq Role
  /\ NoAccount \notin Account
  /\ NoRequest \notin Asked
  /\ MemberRequest \cap OtherRequest = {}

MembershipTypeOK ==
  /\ role \in [Account -> Role \cup {"none"}]
  /\ owner \in [Resource -> Account \cup {NoAccount}]
  /\ invited \in [Invitation -> Offer \cup {NoOffer}]
  /\ doing \in [MemberRequest -> Asked \cup {NoRequest}]
  /\ holds \in [LockHolder -> {"nothing", "shared", "exclusive"}]

\* create_workspace: its creator is its owner.
MembershipInit ==
  /\ \E a \in Account : role = [b \in Account |-> IF b = a THEN "owner" ELSE "none"]
  /\ owner = [r \in Resource |-> NoAccount]
  /\ invited = [i \in Invitation |-> NoOffer]
  /\ doing = [p \in MemberRequest |-> NoRequest]
  /\ holds = [p \in LockHolder |-> "nothing"]

-----------------------------------------------------------------------------
Idle(p) == doing[p] = NoRequest
Serving(p, op) == ~Idle(p) /\ doing[p].op = op
Checked(p, op) == Serving(p, op) /\ doing[p].checked

\* Mutant: a create does not wait for a removal in flight.
SharedFreeAlways == TRUE

SharedFree == \A p \in LockHolder : holds[p] # "exclusive"
\* Mutant: the membership lock of a removal or role change is shared.
ExclusiveFreeShared == TRUE

ExclusiveFree == \A p \in LockHolder : holds[p] = "nothing"

Serve(p, request) == doing' = [doing EXCEPT ![p] = request]
Take(p, mode) == holds' = [holds EXCEPT ![p] = mode]
\* A transaction ends, and with it the locks it holds.
End(p) == Serve(p, NoRequest) /\ Take(p, "nothing")

\* An error, a refused check, or 409 MEMBERSHIP_CHANGE_BUSY.
Abandon(p) ==
  /\ ~Idle(p)
  /\ End(p)
  /\ UNCHANGED <<role, owner, invited>>

-----------------------------------------------------------------------------
\* update_member_role_endpoint: the first read of the caller's role.
AskChange(p, by, a, r) ==
  /\ Idle(p)
  /\ role[by] \in Admin
  /\ r = "owner" => role[by] = "owner"
  /\ Serve(p, [op |-> "change", of |-> a, to |-> r, asOwner |-> role[by] = "owner", checked |-> FALSE])
  /\ UNCHANGED <<role, owner, invited, holds>>

\* remove_member_endpoint: anyone may ask to leave.
AskRemove(p, by, a) ==
  /\ Idle(p)
  /\ role[by] \in Admin \/ (Active(by) /\ by = a)
  /\ Serve(p, [op |-> "remove", of |-> a, asOwner |-> role[by] = "owner", checked |-> FALSE])
  /\ UNCHANGED <<role, owner, invited, holds>>

SoleOwner(a) == Owners \ {a} = {}

\* An owner is changed for an owner only, and never the last one.
MayTakeFrom(p) ==
  role[doing[p].of] = "owner" => doing[p].asOwner /\ ~SoleOwner(doing[p].of)

CheckUnderLock(p) ==
  /\ ExclusiveFree
  /\ Active(doing[p].of)
  /\ Take(p, "exclusive")
  /\ Serve(p, [doing[p] EXCEPT !.checked = TRUE])
  /\ UNCHANGED <<role, owner, invited>>

CheckChange(p) ==
  /\ Serving(p, "change")
  /\ ~doing[p].checked
  /\ IF doing[p].to = "owner" THEN role[doing[p].of] = "owner" => doing[p].asOwner
                              ELSE MayTakeFrom(p)
  /\ CheckUnderLock(p)
CommitChange(p) ==
  /\ Checked(p, "change")
  /\ role' = [role EXCEPT ![doing[p].of] = doing[p].to]
  /\ End(p)
  /\ UNCHANGED <<owner, invited>>

CheckRemove(p) ==
  /\ Serving(p, "remove")
  /\ ~doing[p].checked
  /\ MayTakeFrom(p)
  /\ Owned(doing[p].of) = {}
  /\ CheckUnderLock(p)
\* Mutant: the membership's status is written to its role.
CommitRemoveMarked(p) ==
  /\ Checked(p, "remove")
  /\ role' = [role EXCEPT ![doing[p].of] = "removed"]
  /\ End(p)
  /\ UNCHANGED <<owner, invited>>

CommitRemove(p) ==
  /\ Checked(p, "remove")
  /\ role' = [role EXCEPT ![doing[p].of] = "none"]
  /\ End(p)
  /\ UNCHANGED <<owner, invited>>

-----------------------------------------------------------------------------
\* create_invitation_endpoint, up to the advisory lock of workspace and email.
AskInvite(p, by, a, r) ==
  /\ Idle(p)
  /\ role[by] \in Admin
  /\ r = "owner" => role[by] = "owner"
  /\ ~Active(a)
  /\ Serve(p, [op |-> "invite", offer |-> [for |-> a, as |-> r, by |-> by], checked |-> FALSE])
  /\ UNCHANGED <<role, owner, invited, holds>>

\* Mutant: the pending invitations are looked for without a lock.
EmailFreeAlways(a) == TRUE

EmailFree(a) ==
  \A p \in MemberRequest : Checked(p, "invite") => doing[p].offer.for # a
NonePending(a) == \A i \in Invitation : invited[i].for # a

CheckInvite(p) ==
  /\ Serving(p, "invite")
  /\ ~doing[p].checked
  /\ EmailFree(doing[p].offer.for)
  /\ NonePending(doing[p].offer.for)
  /\ Serve(p, [doing[p] EXCEPT !.checked = TRUE])
  /\ UNCHANGED <<role, owner, invited, holds>>
CommitInvite(p, i) ==
  /\ Checked(p, "invite")
  /\ ~Pending(i)
  /\ invited' = [invited EXCEPT ![i] = doing[p].offer]
  /\ End(p)
  /\ UNCHANGED <<role, owner>>

\* The lock of the invitation's row, and of a membership row or its unique key.
RowFree(i) == \A p \in MemberRequest : Serving(p, "accept") => doing[p].invitation # i
MembershipFree(a) == \A p \in MemberRequest : Serving(p, "accept") => doing[p].of # a

\* accept_invitation_endpoint, or create_account_endpoint of a new account;
\* neither takes the membership lock.
CheckAccept(p, i) ==
  /\ Idle(p)
  /\ Pending(i)
  /\ RowFree(i)
  /\ invited[i].as = "owner" => role[invited[i].by] = "owner"
  /\ MembershipFree(invited[i].for)
  /\ ~Active(invited[i].for)
  /\ Serve(p, [op |-> "accept", of |-> invited[i].for, invitation |-> i, as |-> invited[i].as])
  /\ UNCHANGED <<role, owner, invited, holds>>
CommitAccept(p) ==
  /\ Serving(p, "accept")
  /\ role' = [role EXCEPT ![doing[p].of] = doing[p].as]
  /\ invited' = [invited EXCEPT ![doing[p].invitation] = NoOffer]
  /\ End(p)
  /\ UNCHANGED owner

\* reject_invitation_endpoint, and the passing of expires_at.
RejectInvitation(i) ==
  /\ Pending(i)
  /\ RowFree(i)
  /\ invited' = [invited EXCEPT ![i] = NoOffer]
  /\ UNCHANGED <<role, owner, doing, holds>>
\* revoke_invitation_endpoint
RevokeInvitation(by, i) == role[by] \in Admin /\ RejectInvitation(i)

-----------------------------------------------------------------------------
ResourceFree(r) == \A p \in MemberRequest : Serving(p, "own") => doing[p].resource # r

\* A create endpoint: lock_membership_for_write with the role action "write".
CheckCreate(p, by, r) ==
  /\ Idle(p)
  /\ SharedFree
  /\ role[by] \in Writer
  /\ owner[r] = NoAccount
  /\ ResourceFree(r)
  /\ Take(p, "shared")
  /\ Serve(p, [op |-> "own", of |-> by, resource |-> r])
  /\ UNCHANGED <<role, owner, invited>>
\* create_ownership_transfer_endpoint
CheckTransfer(p, by, r, a) ==
  /\ Idle(p)
  /\ SharedFree
  /\ owner[r] # NoAccount
  /\ owner[r] = by \/ role[by] \in Admin
  /\ ResourceFree(r)
  /\ Active(a)
  /\ Take(p, "shared")
  /\ Serve(p, [op |-> "own", of |-> a, resource |-> r])
  /\ UNCHANGED <<role, owner, invited>>
CommitOwner(p) ==
  /\ Serving(p, "own")
  /\ owner' = [owner EXCEPT ![doing[p].resource] = doing[p].of]
  /\ End(p)
  /\ UNCHANGED <<role, invited>>

-----------------------------------------------------------------------------
\* Everything but the removal itself and what is done to a resource.
MembersNext ==
  \/ \E p \in MemberRequest :
       \/ \E by, a \in Account :
            \/ AskRemove(p, by, a)
            \/ \E r \in Assignable : AskChange(p, by, a, r) \/ AskInvite(p, by, a, r)
       \/ \E i \in Invitation : CommitInvite(p, i) \/ CheckAccept(p, i)
       \/ CheckChange(p) \/ CommitChange(p) \/ CheckRemove(p)
       \/ CheckInvite(p) \/ CommitAccept(p) \/ Abandon(p)
  \/ \E i \in Invitation :
       RejectInvitation(i) \/ \E by \in Account : RevokeInvitation(by, i)

MembershipNext ==
  \/ MembersNext
  \/ \E p \in MemberRequest :
       \/ CommitRemove(p)
       \/ CommitOwner(p)
       \/ \E by \in Account, r \in Resource :
            CheckCreate(p, by, r) \/ \E a \in Account : CheckTransfer(p, by, r, a)

MembershipSpec == MembershipInit /\ [][MembershipNext]_memberVars

-----------------------------------------------------------------------------
(* The workspace keeps an active owner, whoever leaves, is removed or is   *)
(* demoted at the same time as whom (_is_sole_active_owner under the lock).*)
HasOwner == Owners # {}

(* A resource belongs to an active member: whoever creates one or is given *)
(* one cannot be removed in between (lock_membership_shared).              *)
RemovedOwnsNothing == \A r \in Resource : owner[r] # NoAccount => Active(owner[r])

(* At most one pending invitation of an email, however many administrators *)
(* invite it at once (create_invitation_endpoint).                         *)
OnePendingPerEmail ==
  \A i, j \in Invitation : Pending(i) /\ Pending(j) /\ invited[i].for = invited[j].for => i = j
=============================================================================
