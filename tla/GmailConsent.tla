---------------------------- MODULE GmailConsent -----------------------------
(***************************************************************************)
(* One Google account connected to workspaces: enrolment through Google's  *)
(* consent screen (personal/gmail_oauth.py), the consent to mirror mail    *)
(* (personal/domains.py), what a sync writes under it (gmail_adapter.py,   *)
(* gmail_action_detection.py), withdrawal with its purge                   *)
(* (gmail_revocation.py), and the calls that end the grant at Google after *)
(* the commit (platform/connector_security.py, under the default scope     *)
(* `global`: one call ends every credential of the account).               *)
(*                                                                         *)
(* A mailbox is the row of that account in one workspace, with the member  *)
(* who owns it.  A purge and a write exclude each other by the locks on    *)
(* the domain row and the connector row; a revocation's check and its call *)
(* are separate steps that nothing holds together.                         *)
(***************************************************************************)
EXTENDS Naturals, FiniteSets

CONSTANTS
  Mailbox,
  Caller,       \* places for the requests that end in a call to Google
  MaxMinted,    \* bound: credentials Google mints
  MaxHarm,      \* bound: processes that die, calls that fail, grants cut off
  NoCall, NoSync

VARIABLES
  member,      \* who is still an active member of the workspace
  consent,     \* personal_domains with its open domain_consents row
  connector,     \* connector_accounts.status
  credential,  \* the credential stored with it, 0 for none
  mail,        \* what is mirrored or derived from the mailbox
  sync,        \* the sync of each mailbox, and the part it writes next
  minted,      \* credentials minted so far
  accepted,     \* those Google accepts
  call,        \* what each caller still has to tell Google
  harm

gmailVars == <<member, consent, connector, credential, mail, sync, minted, accepted, call, harm>>
googleVars == <<minted, accepted>>

Part == {"message", "body", "evidence", "insight"}
Owed == [stage : {"minted", "queued", "cleared"}, box : Mailbox, credential : 1 .. MaxMinted,
            except : SUBSET Mailbox, live : SUBSET Mailbox]
Work == [part : Part, locked : BOOLEAN]

ASSUME GmailAssumption ==
  /\ MaxMinted \in Nat \ {0}
  /\ MaxHarm \in Nat
  /\ NoCall \notin Owed
  /\ NoSync \notin Work

GmailTypeOK ==
  /\ member \subseteq Mailbox
  /\ consent \in [Mailbox -> {"never", "given", "withdrawn"}]
  /\ connector \in [Mailbox -> {"none", "active", "error", "disconnected"}]
  /\ credential \in [Mailbox -> 0 .. MaxMinted]
  /\ mail \in [Mailbox -> SUBSET Part]
  /\ sync \in [Mailbox -> Work \cup {NoSync}]
  /\ minted \in 0 .. MaxMinted
  /\ accepted \subseteq 1 .. minted
  /\ call \in [Caller -> Owed \cup {NoCall}]
  /\ harm \in 0 .. MaxHarm

GmailInit ==
  /\ member = Mailbox
  /\ consent = [b \in Mailbox |-> "never"]
  /\ connector = [b \in Mailbox |-> "none"]
  /\ credential = [b \in Mailbox |-> 0]
  /\ mail = [b \in Mailbox |-> {}]
  /\ sync = [b \in Mailbox |-> NoSync]
  /\ minted = 0
  /\ accepted = {}
  /\ call = [c \in Caller |-> NoCall]
  /\ harm = 0

-----------------------------------------------------------------------------
Connected == {b \in Mailbox : connector[b] \in {"active", "error"}}

\* A write transaction holds the rows that a purge or a removal locks.
Writing == {b \in Mailbox : sync[b] # NoSync /\ sync[b].locked}

\* Mutant: a write asks for consent without locking the rows.
RowsFreeUnlocked(b) == TRUE
RowsFree(b) == b \notin Writing

At(c, stage) == call[c] # NoCall /\ call[c].stage = stage

Harm == harm < MaxHarm /\ harm' = harm + 1

Queue(c, b, k, except) ==
  call' = [call EXCEPT ![c] = [stage |-> "queued", box |-> b, credential |-> k, except |-> except, live |-> {}]]

\* The caller passed Google's consent screen and its code was exchanged.
Exchange(c, b) ==
  /\ call[c] = NoCall
  /\ b \in member
  /\ minted < MaxMinted
  /\ minted' = minted + 1
  /\ accepted' = accepted \cup {minted + 1}
  /\ call' = [call EXCEPT ![c] = [stage |-> "minted", box |-> b, credential |-> minted + 1,
                                  except |-> {}, live |-> {}]]
  /\ UNCHANGED <<member, consent, connector, credential, mail, sync, harm>>

\* The callback's transaction.  A row that is in use keeps its credential
\* and the new one is given up; any other row gets the new one and its old
\* one is given up.  Neither consent nor the domain is asked about.
Enrol(c) ==
  /\ At(c, "minted")
  /\ LET b == call[c].box
         k == call[c].credential IN
     /\ b \in member
     /\ RowsFree(b)
     /\ IF connector[b] = "active"
        THEN Queue(c, b, k, {}) /\ UNCHANGED <<connector, credential>>
        ELSE /\ connector' = [connector EXCEPT ![b] = "active"]
             /\ credential' = [credential EXCEPT ![b] = k]
             /\ IF credential[b] = 0
                THEN call' = [call EXCEPT ![c] = NoCall]
                ELSE Queue(c, b, credential[b], {})
  /\ UNCHANGED <<member, consent, mail, sync, googleVars, harm>>

\* Rejected by the adapter, refused (another Google account than the
\* caller's, a lost role or membership, another member's row) or failed in
\* the database: nothing is written and the new credential is given up.
GiveUpEnrolment(c) ==
  /\ At(c, "minted")
  /\ Queue(c, call[c].box, call[c].credential, {})
  /\ UNCHANGED <<member, consent, connector, credential, mail, sync, googleVars, harm>>

-----------------------------------------------------------------------------
\* Mutant: rows that are no longer in use count too.
CheckSafeAnyRow(c) ==
  /\ At(c, "queued")
  /\ call' = [call EXCEPT ![c] = IF {b \in Mailbox : connector[b] # "none"} \subseteq call[c].except
                                 THEN [@ EXCEPT !.stage = "cleared", !.live = Connected]
                                 ELSE NoCall]
  /\ UNCHANGED <<member, consent, connector, credential, mail, sync, googleVars, harm>>

\* Mutant: only the workspace's own row is looked for.
CheckSafeHere(c) ==
  /\ At(c, "queued")
  /\ call' = [call EXCEPT ![c] = IF Connected \cap {call[c].box} \subseteq call[c].except
                                 THEN [@ EXCEPT !.stage = "cleared", !.live = Connected]
                                 ELSE NoCall]
  /\ UNCHANGED <<member, consent, connector, credential, mail, sync, googleVars, harm>>

\* revoke_is_safe: no other row in use holds the same Google account.
CheckSafe(c) ==
  /\ At(c, "queued")
  /\ call' = [call EXCEPT ![c] = IF Connected \subseteq call[c].except
                                 THEN [@ EXCEPT !.stage = "cleared", !.live = Connected]
                                 ELSE NoCall]
  /\ UNCHANGED <<member, consent, connector, credential, mail, sync, googleVars, harm>>

\* The credentials of rows in use and of enrolments under way.
Wanted == {credential[b] : b \in Connected} \cup {call[c].credential : c \in {d \in Caller : At(d, "minted")}}

\* Google ends the whole grant the credential belongs to; one that is no
\* longer accepted changes nothing.  Ending one still wanted is counted.
Revoke(c) ==
  /\ At(c, "cleared")
  /\ accepted' = IF call[c].credential \in accepted THEN {} ELSE accepted
  /\ IF Wanted \cap (accepted \ accepted') # {} THEN Harm ELSE harm' = harm
  /\ call' = [call EXCEPT ![c] = NoCall]
  /\ UNCHANGED <<member, consent, connector, credential, mail, sync, minted>>

\* The process dies, the check fails, Google cannot be reached, or a
\* rejected callback does not know whose account it was.
LeaveGrant(c) ==
  /\ call[c] # NoCall
  /\ Harm
  /\ call' = [call EXCEPT ![c] = NoCall]
  /\ UNCHANGED <<member, consent, connector, credential, mail, sync, googleVars>>

-----------------------------------------------------------------------------
Enable(b) ==
  /\ b \in member
  /\ RowsFree(b)
  /\ consent' = [consent EXCEPT ![b] = "given"]
  /\ UNCHANGED <<member, connector, credential, mail, sync, googleVars, call, harm>>

\* A row in use becomes disconnected, and its credential is given up.
Disconnect(c, b) ==
  IF b \in Connected
  THEN /\ connector' = [connector EXCEPT ![b] = "disconnected"]
       /\ Queue(c, b, credential[b], {b})
  ELSE UNCHANGED <<connector, call>>

\* What the cascade deletes or empties.  Evidence is found through the messages
\* that are there, and stays where commitments or claims rest on it or another
\* owner has a message of the same id.
Purge(b) ==
  \E left \in SUBSET (mail[b] \cap {"evidence"}) :
    /\ "message" \notin mail[b] => left = mail[b] \cap {"evidence"}
    /\ mail' = [mail EXCEPT ![b] = left]

\* Disabling or deleting the domain, or revoking the consent.
Withdraw(c, b) ==
  /\ call[c] = NoCall
  /\ b \in member
  /\ consent[b] # "never"
  /\ RowsFree(b)
  /\ consent[b] = "given" \/ b \in Connected
  /\ consent' = [consent EXCEPT ![b] = "withdrawn"]
  /\ Purge(b)
  /\ Disconnect(c, b)
  /\ UNCHANGED <<member, credential, sync, googleVars, harm>>

\* The connector's own disable: only while no domain row says otherwise.
DisableConnector(c, b) ==
  /\ call[c] = NoCall
  /\ b \in member \cap Connected
  /\ consent[b] = "never"
  /\ RowsFree(b)
  /\ Disconnect(c, b)
  /\ UNCHANGED <<member, consent, credential, mail, sync, googleVars, harm>>

\* Under the exclusive membership lock; what was mirrored stays.
RemoveMember(c, b) ==
  /\ call[c] = NoCall
  /\ b \in member
  /\ RowsFree(b)
  /\ member' = member \ {b}
  /\ Disconnect(c, b)
  /\ UNCHANGED <<consent, credential, mail, sync, googleVars, harm>>

\* Only the bodies of one conversation, and with or without consent.
ForgetThread(b) ==
  /\ b \in member
  /\ "body" \in mail[b]
  /\ mail' = [mail EXCEPT ![b] = @ \ {"body"}]
  /\ UNCHANGED <<member, consent, connector, credential, sync, googleVars, call, harm>>

-----------------------------------------------------------------------------
\* require_active_members_locked and require_email_consent_locked.
MayWrite(b) == b \in member /\ consent[b] = "given" /\ b \in Connected

StopSync(b) == sync' = [sync EXCEPT ![b] = NoSync]

\* Google rejects the credential or fails: the row shows the error.
SyncFails(b) ==
  /\ sync[b] = NoSync
  /\ b \in member
  /\ connector[b] = "active"
  /\ connector' = [connector EXCEPT ![b] = "error"]
  /\ UNCHANGED <<member, consent, credential, mail, sync, googleVars, call, harm>>

\* A first message is fetched.
StartSync(b) ==
  /\ sync[b] = NoSync
  /\ MayWrite(b)
  /\ credential[b] \in accepted
  /\ connector' = [connector EXCEPT ![b] = "active"]
  /\ sync' = [sync EXCEPT ![b] = [part |-> "message", locked |-> FALSE]]
  /\ UNCHANGED <<member, consent, credential, mail, googleVars, call, harm>>

\* Each write takes the locks and asks again, and stops the sync if it may
\* not.
LockForWrite(b) ==
  /\ sync[b] # NoSync
  /\ RowsFree(b)
  /\ IF MayWrite(b) THEN sync' = [sync EXCEPT ![b].locked = TRUE] ELSE StopSync(b)
  /\ UNCHANGED <<member, consent, connector, credential, mail, googleVars, call, harm>>

Writes(b, part) == b \in Writing /\ sync[b].part = part
Put(b, part) == mail' = [mail EXCEPT ![b] = @ \cup {part}]
GoOn(b, part) == sync' = [sync EXCEPT ![b] = [part |-> part, locked |-> FALSE]]

CommitMessage(b) ==
  /\ Writes(b, "message")
  /\ Put(b, "message")
  /\ GoOn(b, "body")

\* An update of the message's row: without one, the sync of it ends.
CommitBody(b) ==
  /\ Writes(b, "body")
  /\ \/ "message" \in mail[b] /\ Put(b, "body") /\ GoOn(b, "evidence")
     \/ "message" \notin mail[b] /\ StopSync(b) /\ UNCHANGED mail

\* The model is asked about the message after this, if it is there.
CommitEvidence(b) ==
  /\ Writes(b, "evidence")
  /\ Put(b, "evidence")
  /\ IF "message" \in mail[b] THEN GoOn(b, "insight") ELSE StopSync(b)

\* Mutant: what is detected is something no row is for.
CommitDraft(b) == Writes(b, "insight") /\ Put(b, "draft") /\ StopSync(b)

\* The run of the model, and what it recommends.
CommitInsight(b) == Writes(b, "insight") /\ Put(b, "insight") /\ StopSync(b)

CommitWrite(b) ==
  /\ CommitMessage(b) \/ CommitBody(b) \/ CommitEvidence(b) \/ CommitInsight(b)
  /\ UNCHANGED <<member, consent, connector, credential, googleVars, call, harm>>

\* Any failure, or the death of the process.
AbandonSync(b) ==
  /\ sync[b] # NoSync
  /\ StopSync(b)
  /\ UNCHANGED <<member, consent, connector, credential, mail, googleVars, call, harm>>

-----------------------------------------------------------------------------
CallStep(c) ==
  \/ \E b \in Mailbox : Exchange(c, b) \/ Withdraw(c, b) \/ DisableConnector(c, b) \/ RemoveMember(c, b)
  \/ Enrol(c) \/ GiveUpEnrolment(c) \/ CheckSafe(c) \/ Revoke(c) \/ LeaveGrant(c)

SyncStep(b) ==
  SyncFails(b) \/ StartSync(b) \/ LockForWrite(b) \/ CommitWrite(b) \/ AbandonSync(b)

GmailNext ==
  \/ \E c \in Caller : CallStep(c)
  \/ \E b \in Mailbox : Enable(b) \/ ForgetThread(b) \/ SyncStep(b)

GmailSpec == GmailInit /\ [][GmailNext]_gmailVars

-----------------------------------------------------------------------------
\* Mail and what the model made of it are kept only under the owner's
\* consent: a withdrawal leaves nothing, and no write that was under way
\* lands behind it.  (Evidence is excepted: the purge finds it through its
\* message, and a sync that outlives a withdrawal and a new consent may
\* register it without one.)
MailUnderConsent ==
  \A b \in Mailbox : consent[b] # "given" => mail[b] \subseteq {"evidence"}

\* Once everyone who owed Google a call has made it and no row is in use,
\* no grant is left: whoever skipped the call for a row in use left it to
\* that row's own end.
GrantsEnd ==
  harm = 0 /\ Connected = {} /\ (\A c \in Caller : call[c] = NoCall) => accepted = {}

\* A revocation ends the grant of a row in use only if the row came into
\* use after the check, or is the row the check excepted: the check never
\* overlooks one.
RevocationSpares ==
  \A b \in Connected : credential[b] \in accepted /\ credential[b] \notin accepted' =>
    \E c \in Caller : call[c] # NoCall /\ call'[c] = NoCall /\ (b \notin call[c].live \/ b \in call[c].except)
SpareConnected == [][RevocationSpares]_gmailVars
=============================================================================
