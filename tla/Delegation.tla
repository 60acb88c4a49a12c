----------------------------- MODULE Delegation -----------------------------
(***************************************************************************)
(* Delegations (collaboration/delegations.py), explicit grants             *)
(* (platform/authz_grants.py) and the decision authorize makes from them   *)
(* (platform/authz.py), together with the members, removals and transfers  *)
(* of Membership, whose membership lock they share.                        *)
(*                                                                         *)
(* A delegation request takes the shared membership lock and the locks of  *)
(* the resource rows it reads, checks, and commits in a later step.  What  *)
(* its Idempotency-Key adds is the subject of WriteProtocol.               *)
(***************************************************************************)
EXTENDS Membership

CONSTANTS
  Proposal,   \* places for delegations, each used once
  MaxGrant    \* bound: active explicit grants of an account on a resource

VARIABLES
  visibility,  \* of each resource
  granted,     \* resource_grants of create_grant still active, read and write
  delegation,  \* parties, obligation, evidence and status of each delegation
  evidence,    \* resource_grants still active that an accepted delegation made
  acting       \* the delegation request each of OtherRequest serves; history: has a
               \* grant on what it proposes expired under it

sharingVars == <<visibility, granted, delegation, evidence, acting>>
collaborationVars == <<memberVars, sharingVars>>

Visibility == {"private", "shared_explicitly", "workspace"}
Open == {"proposed", "accepted"}
Ended == {"rejected", "expired", "cancelled", "completed", "revoked"}

NotProposed == [status |-> "none"]
Proposed == [status : Open \cup Ended, from : Account, to : Account,
             obligation : Resource, evidence : SUBSET Resource]
Acting ==
       [op : {"propose"}, proposal : Proposal, is : Proposed, lapsed : BOOLEAN]
  \cup [op : {"accept"}, proposal : Proposal, readable : SUBSET Resource]
  \cup [op : {"reject", "complete", "revoke"}, proposal : Proposal]

ASSUME DelegationAssumption == MaxGrant \in Nat /\ NoRequest \notin Acting

DelegationTypeOK ==
  /\ visibility \in [Resource -> Visibility]
  /\ granted \in [Account \X Resource -> 0 .. MaxGrant]
  /\ delegation \in [Proposal -> Proposed \cup {NotProposed}]
  /\ evidence \in [Proposal -> SUBSET Resource]
  /\ acting \in [OtherRequest -> Acting \cup {NoRequest}]

CollaborationInit ==
  /\ MembershipInit
  /\ visibility = [r \in Resource |-> "private"]
  /\ granted = [g \in Account \X Resource |-> 0]
  /\ delegation = [d \in Proposal |-> NotProposed]
  /\ evidence = [d \in Proposal |-> {}]
  /\ acting = [q \in OtherRequest |-> NoRequest]

-----------------------------------------------------------------------------
Status(d) == delegation[d].status
Parties(d) == {delegation[d].from, delegation[d].to}
Granting(a, r) == {d \in Proposal : delegation[d] # NotProposed /\ delegation[d].to = a /\ r \in evidence[d]}

\* The active grants of an account on a resource that name an action.
Grants(a, r, action) ==
  granted[<<a, r>>] + (IF action = "read" THEN Cardinality(Granting(a, r)) ELSE 0)

\* authorize: _active_grant_exists asks for one_or_none, and so fails where
\* two grants match.
Authorize(a, r, action) ==
  IF ~Active(a) THEN "no"
  ELSE IF owner[r] = a THEN "yes"
  ELSE IF visibility[r] = "private" THEN "no"
  ELSE IF visibility[r] = "workspace" THEN (IF action = "read" \/ role[a] \in Writer THEN "yes" ELSE "no")
  ELSE IF Grants(a, r, action) = 0 THEN "no"
  ELSE IF Grants(a, r, action) = 1 THEN "yes" ELSE "error"
May(a, r, action) == Authorize(a, r, action) = "yes"
MayManage(a, r) == owner[r] = a \/ role[a] \in Admin

\* Row locks: FOR UPDATE of a transfer in flight or of the evidence of an
\* accept, FOR SHARE of what a proposal names.
SharedRows(q) ==
  IF acting[q] # NoRequest /\ acting[q].op = "propose" THEN acting[q].is.evidence ELSE {}
UpdatedRows(q) ==
  IF acting[q] # NoRequest /\ acting[q].op = "accept" THEN delegation[acting[q].proposal].evidence ELSE {}
RowsReadable(rs) ==
  /\ \A r \in rs : ResourceFree(r)
  /\ \A q \in OtherRequest : UpdatedRows(q) \cap rs = {}
\* Mutant: what a proposal names is read without FOR SHARE.
RowsWritableUnread(rs) == RowsReadable(rs)

RowsWritable(rs) ==
  /\ RowsReadable(rs)
  /\ \A q \in OtherRequest : SharedRows(q) \cap rs = {}

-----------------------------------------------------------------------------
Act(q, request) ==
  /\ acting[q] = NoRequest
  /\ SharedFree
  /\ Take(q, "shared")
  /\ acting' = [acting EXCEPT ![q] = request]
  /\ UNCHANGED <<role, owner, invited, doing, visibility, granted, delegation, evidence>>
Acts(q, op) == acting[q] # NoRequest /\ acting[q].op = op
Done(q) ==
  /\ acting' = [acting EXCEPT ![q] = NoRequest]
  /\ Take(q, "nothing")
  /\ UNCHANGED <<role, owner, invited, doing, granted>>
\* An error or a refused check.
Refuse(q) == acting[q] # NoRequest /\ Done(q) /\ UNCHANGED <<visibility, delegation, evidence>>

\* create_delegation_endpoint
CheckPropose(q, d, from, to, r, more) ==
  /\ delegation[d] = NotProposed
  /\ \A p \in OtherRequest : Acts(p, "propose") => acting[p].proposal # d
  /\ from # to
  /\ owner[r] # NoAccount
  /\ RowsReadable({r} \cup more)
  /\ May(from, r, "write")
  /\ \A s \in {r} \cup more : May(from, s, "read")
  /\ Active(to)
  /\ Act(q, [op |-> "propose", proposal |-> d,
             is |-> [status |-> "proposed", from |-> from, to |-> to,
                     obligation |-> r, evidence |-> {r} \cup more],
             lapsed |-> FALSE])
CommitPropose(q) ==
  /\ Acts(q, "propose")
  /\ delegation' = [delegation EXCEPT ![acting[q].proposal] = acting[q].is]
  /\ Done(q)
  /\ UNCHANGED <<visibility, evidence>>

\* accept_delegation_endpoint, _grant_evidence: what the delegator can still
\* read, decided under the locks of the rows; a decision that fails, fails it.
CheckAcceptDelegation(q, d) ==
  /\ Status(d) = "proposed"
  /\ Active(delegation[d].to)
  /\ \A p \in OtherRequest : Acts(p, "accept") => acting[p].proposal # d
  /\ RowsWritable(delegation[d].evidence)
  /\ \A r \in delegation[d].evidence : Authorize(delegation[d].from, r, "read") # "error"
  /\ Act(q, [op |-> "accept", proposal |-> d,
             readable |-> {r \in delegation[d].evidence : May(delegation[d].from, r, "read")}])

\* reject (the recipient), complete (the recipient), revoke (the delegator).
CheckEnd(q, d, op, before, party) ==
  /\ Status(d) = before
  /\ Active(party)
  /\ Act(q, [op |-> op, proposal |-> d])

\* Mutant: the UPDATE does not ask for the status that was read.
MoveAnyStatus(d, before, after) ==
  delegation' = [delegation EXCEPT ![d].status = after]

\* The conditional UPDATE: the row is locked from then to the commit.
Move(d, before, after) ==
  /\ Status(d) = before
  /\ delegation' = [delegation EXCEPT ![d].status = after]
UnderAccept(d) == \E q \in OtherRequest : Acts(q, "accept") /\ acting[q].proposal = d

CommitAcceptDelegation(q) ==
  /\ Acts(q, "accept")
  /\ Move(acting[q].proposal, "proposed", "accepted")
  /\ evidence' = [evidence EXCEPT ![acting[q].proposal] = acting[q].readable]
  /\ visibility' = [r \in Resource |->
       IF r \in acting[q].readable /\ visibility[r] = "private" THEN "shared_explicitly" ELSE visibility[r]]
  /\ Done(q)
\* Mutant: a status the table does not know.
CommitDecline(q) ==
  /\ Acts(q, "reject")
  /\ ~UnderAccept(acting[q].proposal)
  /\ Move(acting[q].proposal, "proposed", "declined")
  /\ Done(q)
  /\ UNCHANGED <<visibility, evidence>>

CommitReject(q) ==
  /\ Acts(q, "reject")
  /\ ~UnderAccept(acting[q].proposal)
  /\ Move(acting[q].proposal, "proposed", "rejected")
  /\ Done(q)
  /\ UNCHANGED <<visibility, evidence>>
\* _revoke_evidence_grants, in the transaction that ends the delegation.
CommitEnd(q, op, after) ==
  /\ Acts(q, op)
  /\ Move(acting[q].proposal, "accepted", after)
  /\ evidence' = [evidence EXCEPT ![acting[q].proposal] = {}]
  /\ Done(q)
  /\ UNCHANGED visibility

\* _maybe_expire_single, _expire_due: any read of a delegation past due_at,
\* without the membership lock.
Expire(d) ==
  /\ ~UnderAccept(d)
  /\ Move(d, "proposed", "expired")
  /\ UNCHANGED <<memberVars, visibility, granted, evidence, acting>>

-----------------------------------------------------------------------------
\* create_grant_endpoint, without the membership lock: the row is locked first.
CreateGrant(by, a, r, narrow) ==
  /\ owner[r] # NoAccount
  /\ RowsWritable({r})
  /\ MayManage(by, r)
  /\ Active(a)
  /\ visibility[r] = "workspace" => narrow
  /\ granted[<<a, r>>] < MaxGrant
  /\ granted' = [granted EXCEPT ![<<a, r>>] = @ + 1]
  /\ visibility' = [visibility EXCEPT ![r] = "shared_explicitly"]
  /\ UNCHANGED <<memberVars, delegation, evidence, acting>>

\* A grant's expires_at passes, and no lock keeps it: a proposal that was allowed
\* by it goes on.  Grants made by a delegation do not expire.
ExpireGrant(a, r) ==
  /\ granted[<<a, r>>] > 0
  /\ granted' = [granted EXCEPT ![<<a, r>>] = @ - 1]
  /\ acting' = [q \in OtherRequest |->
       IF Acts(q, "propose") /\ acting[q].is.from = a /\ acting[q].is.obligation = r
         THEN [acting[q] EXCEPT !.lapsed = TRUE] ELSE acting[q]]
  /\ UNCHANGED <<memberVars, visibility, delegation, evidence>>

\* revoke_grant_endpoint, by the grant's maker, the resource's owner or an
\* administrator: an explicit grant, or one made by a delegation.  Whoever may do
\* it, the grant may be gone.
RevokeGrant(a, r) ==
  /\ RowsWritable({r})
  /\ granted[<<a, r>>] > 0
  /\ granted' = [granted EXCEPT ![<<a, r>>] = @ - 1]
  /\ UNCHANGED <<memberVars, visibility, delegation, evidence, acting>>
RevokeEvidence(d, r) ==
  /\ r \in evidence[d]
  /\ RowsWritable({r})
  /\ evidence' = [evidence EXCEPT ![d] = @ \ {r}]
  /\ UNCHANGED <<memberVars, visibility, granted, delegation, acting>>

\* Mutant: only what was delegated to the removed member is cancelled.
RemoveAndCancelReceived(p) ==
  /\ CommitRemove(p)
  /\ LET cancelled == {d \in Proposal : Status(d) \in Open /\ doing[p].of = delegation[d].to}
     IN /\ delegation' = [d \in Proposal |->
             IF d \in cancelled THEN [delegation[d] EXCEPT !.status = "cancelled"] ELSE delegation[d]]
        /\ evidence' = [d \in Proposal |-> IF d \in cancelled THEN {} ELSE evidence[d]]
  /\ UNCHANGED <<visibility, granted, acting>>

\* remove_member_endpoint: cancel_delegations_for_removed_member in the
\* transaction of the removal.
RemoveAndCancel(p) ==
  /\ CommitRemove(p)
  /\ LET cancelled == {d \in Proposal : Status(d) \in Open /\ doing[p].of \in Parties(d)}
     IN /\ delegation' = [d \in Proposal |->
             IF d \in cancelled THEN [delegation[d] EXCEPT !.status = "cancelled"] ELSE delegation[d]]
        /\ evidence' = [d \in Proposal |-> IF d \in cancelled THEN {} ELSE evidence[d]]
  /\ UNCHANGED <<visibility, granted, acting>>

\* Transfers wait for the rows; the create endpoints choose the visibility.
LockedTransfer(p, by, r, a) == RowsWritable({r}) /\ CheckTransfer(p, by, r, a) /\ UNCHANGED sharingVars
OwnAndShow(p) ==
  /\ CommitOwner(p)
  /\ \/ owner[doing[p].resource] # NoAccount /\ UNCHANGED visibility
     \/ /\ owner[doing[p].resource] = NoAccount
        /\ \E v \in {"private", "workspace"} : visibility' = [visibility EXCEPT ![doing[p].resource] = v]
  /\ UNCHANGED <<granted, delegation, evidence, acting>>

-----------------------------------------------------------------------------
DelegationNext ==
  \/ \E q \in OtherRequest :
       \/ \E d \in Proposal :
            \/ \E from, to \in Account, r \in Resource, more \in SUBSET Resource :
                 CheckPropose(q, d, from, to, r, more)
            \/ CheckAcceptDelegation(q, d)
            \/ \E op \in {"reject", "complete"} :
                 CheckEnd(q, d, op, IF op = "reject" THEN "proposed" ELSE "accepted", delegation[d].to)
            \/ CheckEnd(q, d, "revoke", "accepted", delegation[d].from)
       \/ CommitPropose(q) \/ CommitAcceptDelegation(q) \/ CommitReject(q)
       \/ CommitEnd(q, "complete", "completed") \/ CommitEnd(q, "revoke", "revoked")
       \/ Refuse(q)
  \/ \E d \in Proposal : Expire(d) \/ \E r \in Resource : RevokeEvidence(d, r)
  \/ \E a \in Account, r \in Resource :
       RevokeGrant(a, r) \/ ExpireGrant(a, r) \/ \E by \in Account, narrow \in BOOLEAN : CreateGrant(by, a, r, narrow)

CollaborationNext ==
  \/ MembersNext /\ UNCHANGED sharingVars
  \/ \E p \in MemberRequest :
       \/ RemoveAndCancel(p)
       \/ OwnAndShow(p)
       \/ \E by \in Account, r \in Resource :
            \/ CheckCreate(p, by, r) /\ UNCHANGED sharingVars
            \/ \E a \in Account : LockedTransfer(p, by, r, a)
  \/ DelegationNext

CollaborationSpec == CollaborationInit /\ [][CollaborationNext]_collaborationVars

(* Memberships, delegations and the requests about both have the fields    *)
(* that the tables and handlers give them.                                 *)
CollaborationTypeOK == MembershipTypeOK /\ DelegationTypeOK

-----------------------------------------------------------------------------
(* A delegation is open only between two active members, and what it       *)
(* granted lasts only while it is accepted: no accept slips past a removal *)
(* of either, and no end leaves its grants behind.                         *)
OpenBetweenMembers ==
  \A d \in Proposal :
    /\ Status(d) \in Open => \A a \in Parties(d) : Active(a)
    /\ evidence[d] # {} => Status(d) = "accepted"

(* A delegation that ended stays as it ended, and nothing but a proposal   *)
(* is accepted: a reject, an accept, a lapse and a removal may race.       *)
EndIsFinal ==
  [][\A d \in Proposal :
       /\ Status(d) \in Ended => delegation'[d] = delegation[d]
       /\ delegation'[d].status = "accepted" => Status(d) \in Open]_collaborationVars

(* An obligation is handed on only by one who may write it at that moment, *)
(* or might when the request checked, until a grant of theirs expired; and *)
(* accepting never opens a private resource for anyone but its owner: a    *)
(* transfer or a revoked grant that commits first is seen (_lock_resources).*)
DelegatedWithAuthority ==
  [][\A d \in Proposal :
       /\ Status(d) = "none" /\ delegation'[d].status # "none" =>
            \/ May(delegation'[d].from, delegation'[d].obligation, "write")
            \/ \E q \in OtherRequest :
                 Acts(q, "propose") /\ acting[q].proposal = d /\ acting[q].lapsed
       /\ \A r \in evidence'[d] \ evidence[d] :
            visibility[r] = "private" => owner[r] = delegation[d].from]_collaborationVars

(* An active grant gives what it names: its account is not refused, and    *)
(* not failed, for holding another grant as well.                          *)
GrantsCoexist ==
  \A a \in Account, r \in Resource :
    Active(a) /\ visibility[r] # "private" /\ Grants(a, r, "read") > 0 => May(a, r, "read")
=============================================================================
