-------------------------- MODULE GmailConsentProofs --------------------------
(***************************************************************************)
(* Consent holds against the syncs, and the calls to Google leave no grant *)
(* behind and overlook no row -- for any mailboxes of the account, callers *)
(* and credentials.                                                        *)
(*                                                                         *)
(* The strengthening (GmailInv): a write transaction holds the rows that   *)
(* let it write; a cleared revocation saw no row but the one it excepts;   *)
(* and, while nothing went wrong, rows in use and enrolments hold          *)
(* credentials that Google accepts, and a grant without a row in use has a *)
(* call coming that ends it.                                               *)
(***************************************************************************)
EXTENDS GmailConsent, TLAPS

HeldRows == \A b \in Writing : MayWrite(b)
Cleared == \A c \in Caller : At(c, "cleared") => call[c].live \subseteq call[c].except
Enrolled == \A b \in Connected : credential[b] # 0
Kept == harm = 0 => Wanted \subseteq accepted
Owing ==
  harm = 0 /\ accepted # {} =>
    Connected # {} \/ \E c \in Caller : call[c] # NoCall /\ call[c].credential \in accepted

\* The inductive invariant.
GmailInv ==
  /\ GmailTypeOK
  /\ HeldRows
  /\ MailUnderConsent
  /\ Cleared
  /\ Enrolled
  /\ Kept
  /\ Owing

-----------------------------------------------------------------------------
LEMMA CallKinds ==
  ASSUME GmailTypeOK, NEW c \in Caller, call[c] # NoCall
  PROVE  call[c] \in Owed
BY DEF GmailTypeOK

LEMMA WantedMeans ==
  Wanted \subseteq accepted <=>
    /\ \A b \in Connected : credential[b] \in accepted
    /\ \A c \in Caller : At(c, "minted") => call[c].credential \in accepted
BY DEF Wanted

LEMMA InitGmail == GmailInit => GmailInv
<1> SUFFICES ASSUME GmailInit PROVE GmailInv
  OBVIOUS
<1>1. GmailTypeOK
  BY GmailAssumption DEF GmailInit, GmailTypeOK
<1>2. Connected = {} /\ Writing = {} /\ \A c \in Caller : call[c] = NoCall
  BY DEF GmailInit, Connected, Writing
<1>3. HeldRows /\ MailUnderConsent /\ Cleared /\ Enrolled /\ Owing
  BY <1>2 DEF GmailInit, HeldRows, MailUnderConsent, Cleared, Enrolled, Owing, At
<1>4. Kept
  BY <1>2 DEF Kept, Wanted, At
<1> QED
  BY <1>1, <1>3, <1>4 DEF GmailInv

-----------------------------------------------------------------------------
\* A request that owes Google a call about k.
LEMMA Queued ==
  ASSUME GmailTypeOK, NEW c \in Caller, NEW b \in Mailbox, NEW k \in 1 .. MaxMinted,
         NEW except \in SUBSET Mailbox, Queue(c, b, k, except)
  PROVE  /\ call' \in [Caller -> Owed \cup {NoCall}]
         /\ call'[c] # NoCall /\ call'[c].credential = k /\ call'[c].stage = "queued"
         /\ \A d \in Caller \ {c} : call'[d] = call[d]
<1> DEFINE owed == [stage |-> "queued", box |-> b, credential |-> k, except |-> except, live |-> {}]
<1>1. owed \in Owed
  BY DEF Owed
<1>2. call' = [call EXCEPT ![c] = owed]
  BY DEF Queue
<1> HIDE DEF owed
<1>3. call'[c] = owed
  BY <1>2 DEF GmailTypeOK
<1>4. call' \in [Caller -> Owed \cup {NoCall}]
  BY <1>1, <1>2 DEF GmailTypeOK
<1>5. \A d \in Caller \ {c} : call'[d] = call[d]
  BY <1>2 DEF GmailTypeOK
<1>6. owed # NoCall /\ owed.credential = k /\ owed.stage = "queued"
  BY <1>1, GmailAssumption DEF owed
<1> QED
  BY <1>3, <1>4, <1>5, <1>6

\* A request that has ended owes nothing.
LEMMA Dropped ==
  ASSUME GmailTypeOK, NEW c \in Caller, call' = [call EXCEPT ![c] = NoCall]
  PROVE  /\ call' \in [Caller -> Owed \cup {NoCall}]
         /\ call'[c] = NoCall
         /\ \A d \in Caller \ {c} : call'[d] = call[d]
BY DEF GmailTypeOK

-----------------------------------------------------------------------------
LEMMA ExchangeKeeps ==
  ASSUME GmailInv, NEW c \in Caller, NEW b \in Mailbox, Exchange(c, b)
  PROVE  GmailInv'
<1> DEFINE k == minted + 1
           owed == [stage |-> "minted", box |-> b, credential |-> k, except |-> {}, live |-> {}]
<1>1. k \in 1 .. MaxMinted /\ k \in Nat
  BY GmailAssumption DEF GmailInv, GmailTypeOK, Exchange
<1>2. owed \in Owed
  BY <1>1 DEF Owed
<1>3. call' = [call EXCEPT ![c] = owed] /\ accepted' = accepted \cup {k} /\ minted' = k
  BY DEF Exchange
<1>4. owed # NoCall /\ owed.credential = k /\ owed.stage = "minted"
  BY <1>2, GmailAssumption
<1> HIDE DEF owed
<1>5. call'[c] = owed /\ \A d \in Caller \ {c} : call'[d] = call[d]
  BY <1>3 DEF GmailInv, GmailTypeOK
<1>6. GmailTypeOK'
  <2>1. call' \in [Caller -> Owed \cup {NoCall}]
    BY <1>2, <1>3 DEF GmailInv, GmailTypeOK
  <2>2. minted' \in 0 .. MaxMinted /\ accepted' \subseteq 1 .. minted'
    BY <1>1, <1>3 DEF GmailInv, GmailTypeOK
  <2> QED
    BY <2>1, <2>2 DEF Exchange, GmailInv, GmailTypeOK
<1>7. HeldRows' /\ MailUnderConsent' /\ Enrolled'
  BY DEF Exchange, GmailInv, HeldRows, MailUnderConsent, Enrolled, Writing, MayWrite, Connected
<1>8. Cleared'
  BY <1>4, <1>5 DEF GmailInv, Cleared, At
<1>9. Kept'
  BY <1>3, <1>4, <1>5, WantedMeans DEF Exchange, GmailInv, Kept, Wanted, Connected, At
<1>10. Owing'
  BY <1>3, <1>4, <1>5 DEF Owing
<1> QED
  BY <1>6, <1>7, <1>8, <1>9, <1>10 DEF GmailInv

LEMMA EnrolKeeps ==
  ASSUME GmailInv, NEW c \in Caller, Enrol(c)
  PROVE  GmailInv'
<1> DEFINE b == call[c].box
           k == call[c].credential
<1>1. call[c] \in Owed /\ b \in Mailbox /\ k \in 1 .. MaxMinted
  BY CallKinds DEF GmailInv, Enrol, At, Owed
<1>2. harm = 0 => k \in accepted
  BY WantedMeans DEF GmailInv, Enrol, Kept
<1> HIDE DEF b, k
<1>3. /\ RowsFree(b)
      /\ UNCHANGED <<member, consent, mail, sync, minted, accepted, harm>>
  BY DEF Enrol, b, googleVars
<1>4. CASE connector[b] = "active"
  <2>1. Queue(c, b, k, {}) /\ UNCHANGED <<connector, credential>>
    BY <1>4 DEF Enrol, b, k
  <2>2. /\ call' \in [Caller -> Owed \cup {NoCall}]
        /\ call'[c] # NoCall /\ call'[c].credential = k /\ call'[c].stage = "queued"
        /\ \A d \in Caller \ {c} : call'[d] = call[d]
    BY <1>1, <2>1, Queued DEF GmailInv
  <2>3. b \in Connected'
    BY <1>1, <1>4, <2>1 DEF Connected
  <2>4. GmailTypeOK' /\ HeldRows' /\ MailUnderConsent' /\ Enrolled'
    BY <1>3, <2>1, <2>2
       DEF GmailInv, GmailTypeOK, HeldRows, MailUnderConsent, Enrolled, Writing, MayWrite, Connected
  <2>5. Cleared'
    BY <2>2 DEF GmailInv, Cleared, At
  <2>6. Kept'
    BY <1>3, <2>1, <2>2, WantedMeans DEF GmailInv, Kept, Wanted, Connected, At
  <2> QED
    BY <2>3, <2>4, <2>5, <2>6 DEF GmailInv, Owing
<1>5. CASE connector[b] # "active"
  <2>1. /\ connector' = [connector EXCEPT ![b] = "active"]
        /\ credential' = [credential EXCEPT ![b] = k]
        /\ IF credential[b] = 0
           THEN call' = [call EXCEPT ![c] = NoCall]
           ELSE Queue(c, b, credential[b], {})
    BY <1>5 DEF Enrol, b, k
  <2>2. /\ call' \in [Caller -> Owed \cup {NoCall}]
        /\ call'[c] = NoCall \/ call'[c].stage = "queued"
        /\ \A d \in Caller \ {c} : call'[d] = call[d]
    <3>1. CASE credential[b] = 0
      BY <2>1, <3>1, Dropped DEF GmailInv
    <3>2. CASE credential[b] # 0
      <4>1. credential[b] \in 1 .. MaxMinted
        BY <1>1, <3>2 DEF GmailInv, GmailTypeOK
      <4>2. Queue(c, b, credential[b], {})
        BY <2>1, <3>2
      <4> QED
        BY <1>1, <4>1, <4>2, Queued DEF GmailInv
    <3> QED
      BY <3>1, <3>2
  <2>3. /\ connector'[b] = "active" /\ credential'[b] = k
        /\ \A a \in Mailbox \ {b} : connector'[a] = connector[a] /\ credential'[a] = credential[a]
        /\ connector' \in [Mailbox -> {"none", "active", "error", "disconnected"}]
        /\ credential' \in [Mailbox -> 0 .. MaxMinted]
    BY <1>1, <2>1 DEF GmailInv, GmailTypeOK
  <2>4. Connected' = Connected \cup {b}
    BY <1>1, <2>3 DEF Connected
  <2>5. GmailTypeOK'
    BY <1>3, <2>2, <2>3 DEF GmailInv, GmailTypeOK
  <2>6. HeldRows' /\ MailUnderConsent' /\ Enrolled'
    <3>1. Writing' = Writing /\ b \notin Writing
      BY <1>3 DEF Writing, RowsFree
    <3>2. HeldRows'
      BY <1>3, <2>4, <3>1 DEF GmailInv, HeldRows, MayWrite
    <3>3. MailUnderConsent'
      BY <1>3 DEF GmailInv, MailUnderConsent
    <3>4. Enrolled'
      BY <1>1, <2>3, <2>4 DEF GmailInv, Enrolled, Connected
    <3> QED
      BY <3>2, <3>3, <3>4
  <2>7. Cleared'
    BY <2>2 DEF GmailInv, Cleared, At
  <2>8. Kept'
    <3> SUFFICES ASSUME harm = 0 PROVE (Wanted \subseteq accepted)'
      BY <1>3 DEF Kept
    <3>1. Wanted \subseteq accepted
      BY DEF GmailInv, Kept
    <3>2. \A a \in Connected' : credential'[a] \in accepted
      BY <1>2, <2>3, <2>4, <3>1, WantedMeans DEF Connected
    <3>3. \A d \in Caller : At(d, "minted")' => call'[d].credential \in accepted
      BY <2>2, <3>1, WantedMeans DEF At
    <3> QED
      BY <1>3, <3>2, <3>3 DEF Wanted
  <2> QED
    BY <2>4, <2>5, <2>6, <2>7, <2>8 DEF GmailInv, Owing
<1> QED
  BY <1>4, <1>5

LEMMA GiveUpEnrolmentKeeps ==
  ASSUME GmailInv, NEW c \in Caller, GiveUpEnrolment(c)
  PROVE  GmailInv'
<1>1. call[c] \in Owed /\ call[c].box \in Mailbox /\ call[c].credential \in 1 .. MaxMinted
  BY CallKinds DEF GmailInv, GiveUpEnrolment, At, Owed
<1>2. /\ Queue(c, call[c].box, call[c].credential, {})
      /\ UNCHANGED <<member, consent, connector, credential, mail, sync, minted, accepted, harm>>
  BY DEF GiveUpEnrolment, googleVars
<1>3. /\ call' \in [Caller -> Owed \cup {NoCall}]
      /\ call'[c] # NoCall /\ call'[c].credential = call[c].credential /\ call'[c].stage = "queued"
      /\ \A d \in Caller \ {c} : call'[d] = call[d]
  BY <1>1, <1>2, Queued DEF GmailInv
<1>4. GmailTypeOK' /\ HeldRows' /\ MailUnderConsent' /\ Enrolled'
  BY <1>2, <1>3
     DEF GmailInv, GmailTypeOK, HeldRows, MailUnderConsent, Enrolled, Writing, MayWrite, Connected
<1>5. Cleared'
  BY <1>3 DEF GmailInv, Cleared, At
<1>6. Kept'
  BY <1>2, <1>3, WantedMeans DEF GmailInv, Kept, Wanted, Connected, At
<1>7. Owing'
  BY <1>2, <1>3 DEF GmailInv, Owing, Connected
<1> QED
  BY <1>4, <1>5, <1>6, <1>7 DEF GmailInv

LEMMA CheckSafeKeeps ==
  ASSUME GmailInv, NEW c \in Caller, CheckSafe(c)
  PROVE  GmailInv'
<1> DEFINE cleared == [call[c] EXCEPT !.stage = "cleared", !.live = Connected]
<1>1. call[c] \in Owed /\ call[c] # NoCall
  BY CallKinds DEF GmailInv, CheckSafe, At
<1>2. /\ cleared \in Owed
      /\ cleared.live = Connected /\ cleared.except = call[c].except
      /\ cleared.stage = "cleared" /\ cleared.credential = call[c].credential
  BY <1>1 DEF Owed, Connected
<1>3. cleared # NoCall
  BY <1>2, GmailAssumption
<1>4. /\ call' = [call EXCEPT ![c] = IF Connected \subseteq call[c].except THEN cleared ELSE NoCall]
      /\ UNCHANGED <<member, consent, connector, credential, mail, sync, minted, accepted, harm>>
  BY DEF CheckSafe, googleVars
<1> HIDE DEF cleared
<1>5. /\ call' \in [Caller -> Owed \cup {NoCall}]
      /\ call'[c] = IF Connected \subseteq call[c].except THEN cleared ELSE NoCall
      /\ \A d \in Caller \ {c} : call'[d] = call[d]
  BY <1>2, <1>4 DEF GmailInv, GmailTypeOK
<1>6. GmailTypeOK' /\ HeldRows' /\ MailUnderConsent' /\ Enrolled'
  BY <1>4, <1>5
     DEF GmailInv, GmailTypeOK, HeldRows, MailUnderConsent, Enrolled, Writing, MayWrite, Connected
<1>7. Cleared'
  BY <1>2, <1>5 DEF GmailInv, Cleared, At
<1>8. Kept'
  BY <1>2, <1>4, <1>5, WantedMeans DEF GmailInv, Kept, Wanted, Connected, At
<1>9. Owing'
  BY <1>2, <1>3, <1>4, <1>5 DEF GmailInv, Owing, Connected
<1> QED
  BY <1>6, <1>7, <1>8, <1>9 DEF GmailInv

LEMMA HarmCounts ==
  ASSUME GmailTypeOK, Harm
  PROVE  harm' \in 0 .. MaxHarm /\ harm' # 0
BY GmailAssumption DEF GmailTypeOK, Harm

LEMMA RevokeKeeps ==
  ASSUME GmailInv, NEW c \in Caller, Revoke(c)
  PROVE  GmailInv'
<1>1. /\ call' \in [Caller -> Owed \cup {NoCall}]
      /\ call'[c] = NoCall
      /\ \A d \in Caller \ {c} : call'[d] = call[d]
  BY Dropped DEF GmailInv, Revoke
<1>2. /\ accepted' = IF call[c].credential \in accepted THEN {} ELSE accepted
      /\ IF Wanted \cap (accepted \ accepted') # {} THEN Harm ELSE harm' = harm
      /\ UNCHANGED <<member, consent, connector, credential, mail, sync, minted>>
  BY DEF Revoke
<1>3. harm' \in 0 .. MaxHarm /\ (harm' = 0 => harm = 0)
  BY <1>2, HarmCounts DEF GmailInv, GmailTypeOK
<1>4. GmailTypeOK' /\ HeldRows' /\ MailUnderConsent' /\ Enrolled'
  BY <1>1, <1>2, <1>3
     DEF GmailInv, GmailTypeOK, HeldRows, MailUnderConsent, Enrolled, Writing, MayWrite, Connected
<1>5. Cleared'
  BY <1>1 DEF GmailInv, Cleared, At
<1>6. Kept'
  <2> SUFFICES ASSUME harm' = 0 PROVE (Wanted \subseteq accepted)'
    BY DEF Kept
  <2>1. Wanted \subseteq accepted
    BY <1>3 DEF GmailInv, Kept
  <2>2. Wanted \cap (accepted \ accepted') = {}
    BY <1>2, HarmCounts DEF GmailInv
  <2>3. Wanted' \subseteq Wanted
    BY <1>1, <1>2 DEF Wanted, Connected, At
  <2> QED
    BY <2>1, <2>2, <2>3
<1>7. Owing'
  BY <1>1, <1>2, <1>3 DEF GmailInv, Owing, Connected
<1> QED
  BY <1>4, <1>5, <1>6, <1>7 DEF GmailInv

LEMMA LeaveGrantKeeps ==
  ASSUME GmailInv, NEW c \in Caller, LeaveGrant(c)
  PROVE  GmailInv'
<1>1. /\ call' \in [Caller -> Owed \cup {NoCall}]
      /\ call'[c] = NoCall
      /\ \A d \in Caller \ {c} : call'[d] = call[d]
  BY Dropped DEF GmailInv, LeaveGrant
<1>2. /\ harm' \in 0 .. MaxHarm /\ harm' # 0
      /\ UNCHANGED <<member, consent, connector, credential, mail, sync, minted, accepted>>
  BY HarmCounts DEF GmailInv, LeaveGrant, googleVars
<1>3. GmailTypeOK' /\ HeldRows' /\ MailUnderConsent' /\ Enrolled'
  BY <1>1, <1>2
     DEF GmailInv, GmailTypeOK, HeldRows, MailUnderConsent, Enrolled, Writing, MayWrite, Connected
<1>4. Cleared'
  BY <1>1 DEF GmailInv, Cleared, At
<1> QED
  BY <1>2, <1>3, <1>4 DEF GmailInv, Kept, Owing

-----------------------------------------------------------------------------
\* Whoever ends a row in use owes the call that ends its grant.
LEMMA DisconnectKeeps ==
  ASSUME GmailInv, NEW c \in Caller, NEW b \in Mailbox,
         call[c] = NoCall, Disconnect(c, b), UNCHANGED <<credential, minted, accepted, harm>>
  PROVE  /\ connector' \in [Mailbox -> {"none", "active", "error", "disconnected"}]
         /\ call' \in [Caller -> Owed \cup {NoCall}]
         /\ \A a \in Mailbox \ {b} : connector'[a] = connector[a]
         /\ Cleared' /\ Enrolled' /\ Kept' /\ Owing'
<1>1. CASE b \notin Connected
  <2>1. UNCHANGED <<connector, call>>
    BY <1>1 DEF Disconnect
  <2> QED
    BY <2>1 DEF GmailInv, GmailTypeOK, Cleared, Enrolled, Kept, Owing, Wanted, Connected, At
<1>2. CASE b \in Connected
  <2>1. connector' = [connector EXCEPT ![b] = "disconnected"] /\ Queue(c, b, credential[b], {b})
    BY <1>2 DEF Disconnect
  <2>2. credential[b] \in 1 .. MaxMinted
    BY <1>2 DEF GmailInv, GmailTypeOK, Enrolled
  <2>3. /\ call' \in [Caller -> Owed \cup {NoCall}]
        /\ call'[c] # NoCall /\ call'[c].credential = credential[b] /\ call'[c].stage = "queued"
        /\ \A d \in Caller \ {c} : call'[d] = call[d]
    BY <2>1, <2>2, Queued DEF GmailInv
  <2>4. /\ connector' \in [Mailbox -> {"none", "active", "error", "disconnected"}]
        /\ \A a \in Mailbox \ {b} : connector'[a] = connector[a]
        /\ connector'[b] = "disconnected"
    BY <2>1 DEF GmailInv, GmailTypeOK
  <2>5. Connected' \subseteq Connected
    BY <2>4 DEF Connected
  <2>6. Cleared' /\ Enrolled'
    BY <2>3, <2>5 DEF GmailInv, Cleared, Enrolled, At
  <2>7. Kept'
    BY <2>3, <2>5, WantedMeans DEF GmailInv, Kept, Wanted, At
  <2>8. harm = 0 => credential[b] \in accepted
    BY <1>2, WantedMeans DEF GmailInv, Kept
  <2>9. Owing'
    BY <2>3, <2>8 DEF Owing
  <2> QED
    BY <2>3, <2>4, <2>6, <2>7, <2>9
<1> QED
  BY <1>1, <1>2

LEMMA EndKeeps ==
  ASSUME GmailInv, NEW c \in Caller, NEW b \in Mailbox,
         Withdraw(c, b) \/ DisableConnector(c, b) \/ RemoveMember(c, b)
  PROVE  GmailInv'
<1>1. /\ call[c] = NoCall /\ Disconnect(c, b) /\ RowsFree(b)
      /\ UNCHANGED <<credential, sync, minted, accepted, harm>>
  BY DEF Withdraw, DisableConnector, RemoveMember, googleVars
<1>2. /\ connector' \in [Mailbox -> {"none", "active", "error", "disconnected"}]
      /\ call' \in [Caller -> Owed \cup {NoCall}]
      /\ \A a \in Mailbox \ {b} : connector'[a] = connector[a]
      /\ Cleared' /\ Enrolled' /\ Kept' /\ Owing'
  BY <1>1, DisconnectKeeps
<1>3. /\ member' \subseteq Mailbox
      /\ \A a \in Mailbox \ {b} : (a \in member' <=> a \in member) /\ consent'[a] = consent[a]
      /\ consent' \in [Mailbox -> {"never", "given", "withdrawn"}]
      /\ mail' \in [Mailbox -> SUBSET Part]
      /\ MailUnderConsent'
  <2>1. CASE Withdraw(c, b)
    <3>1. PICK left \in SUBSET (mail[b] \cap {"evidence"}) : mail' = [mail EXCEPT ![b] = left]
      BY <2>1 DEF Withdraw, Purge
    <3>0. consent' = [consent EXCEPT ![b] = "withdrawn"] /\ member' = member
      BY <2>1 DEF Withdraw
    <3>2. consent'[b] = "withdrawn" /\ \A a \in Mailbox \ {b} : consent'[a] = consent[a] /\ mail'[a] = mail[a]
      BY <3>0, <3>1 DEF GmailInv, GmailTypeOK
    <3>3. mail'[b] \subseteq {"evidence"}
      BY <3>1 DEF GmailInv, GmailTypeOK
    <3>4. MailUnderConsent'
      BY <3>2, <3>3 DEF GmailInv, MailUnderConsent
    <3> QED
      BY <3>0, <3>1, <3>2, <3>4 DEF GmailInv, GmailTypeOK, Part
  <2>2. CASE DisableConnector(c, b)
    BY <2>2 DEF DisableConnector, GmailInv, GmailTypeOK, MailUnderConsent
  <2>3. CASE RemoveMember(c, b)
    BY <2>3 DEF RemoveMember, GmailInv, GmailTypeOK, MailUnderConsent
  <2> QED
    BY <2>1, <2>2, <2>3
<1>4. GmailTypeOK'
  BY <1>1, <1>2, <1>3 DEF GmailInv, GmailTypeOK
<1>5. HeldRows'
  <2>1. Writing' = Writing /\ b \notin Writing
    BY <1>1 DEF Writing, RowsFree
  <2> QED
    BY <1>2, <1>3, <2>1 DEF GmailInv, HeldRows, MayWrite, Writing, Connected
<1> QED
  BY <1>2, <1>3, <1>4, <1>5 DEF GmailInv

-----------------------------------------------------------------------------
\* Steps that make no row come into use or go out of it, and no call.
LEMMA QuietKeeps ==
  ASSUME GmailInv, Connected' = Connected, UNCHANGED <<credential, minted, accepted, call, harm>>
  PROVE  Cleared' /\ Enrolled' /\ Kept' /\ Owing'
BY DEF GmailInv, Cleared, Enrolled, Kept, Owing, Wanted, At

LEMMA EnableKeeps ==
  ASSUME GmailInv, NEW b \in Mailbox, Enable(b)
  PROVE  GmailInv'
<1>1. /\ RowsFree(b) /\ consent' = [consent EXCEPT ![b] = "given"]
      /\ UNCHANGED <<member, connector, credential, mail, sync, minted, accepted, call, harm>>
  BY DEF Enable, googleVars
<1>2. consent'[b] = "given" /\ \A a \in Mailbox \ {b} : consent'[a] = consent[a]
  BY <1>1 DEF GmailInv, GmailTypeOK
<1>3. GmailTypeOK'
  BY <1>1 DEF GmailInv, GmailTypeOK
<1>4. HeldRows'
  BY <1>1, <1>2 DEF GmailInv, HeldRows, Writing, RowsFree, MayWrite, Connected
<1>5. MailUnderConsent'
  BY <1>1, <1>2 DEF GmailInv, MailUnderConsent
<1>6. Cleared' /\ Enrolled' /\ Kept' /\ Owing'
  BY <1>1, QuietKeeps DEF Connected
<1> QED
  BY <1>3, <1>4, <1>5, <1>6 DEF GmailInv

LEMMA ForgetThreadKeeps ==
  ASSUME GmailInv, NEW b \in Mailbox, ForgetThread(b)
  PROVE  GmailInv'
<1>1. /\ mail' = [mail EXCEPT ![b] = @ \ {"body"}]
      /\ UNCHANGED <<member, consent, connector, credential, sync, minted, accepted, call, harm>>
  BY DEF ForgetThread, googleVars
<1>2. mail' \in [Mailbox -> SUBSET Part] /\ \A a \in Mailbox : mail'[a] \subseteq mail[a]
  BY <1>1 DEF GmailInv, GmailTypeOK
<1>3. GmailTypeOK' /\ HeldRows' /\ MailUnderConsent'
  BY <1>1, <1>2 DEF GmailInv, GmailTypeOK, HeldRows, MailUnderConsent, Writing, MayWrite, Connected
<1>4. Cleared' /\ Enrolled' /\ Kept' /\ Owing'
  BY <1>1, QuietKeeps DEF Connected
<1> QED
  BY <1>3, <1>4 DEF GmailInv

LEMMA SyncFailsKeeps ==
  ASSUME GmailInv, NEW b \in Mailbox, SyncFails(b)
  PROVE  GmailInv'
<1>1. /\ sync[b] = NoSync /\ connector[b] = "active" /\ connector' = [connector EXCEPT ![b] = "error"]
      /\ UNCHANGED <<member, consent, credential, mail, sync, minted, accepted, call, harm>>
  BY DEF SyncFails, googleVars
<1>2. Connected' = Connected
  BY <1>1 DEF GmailInv, GmailTypeOK, Connected
<1>3. GmailTypeOK' /\ HeldRows' /\ MailUnderConsent'
  BY <1>1, <1>2 DEF GmailInv, GmailTypeOK, HeldRows, MailUnderConsent, Writing, MayWrite
<1>4. Cleared' /\ Enrolled' /\ Kept' /\ Owing'
  BY <1>1, <1>2, QuietKeeps
<1> QED
  BY <1>3, <1>4 DEF GmailInv

LEMMA StartSyncKeeps ==
  ASSUME GmailInv, NEW b \in Mailbox, StartSync(b)
  PROVE  GmailInv'
<1> DEFINE work == [part |-> "message", locked |-> FALSE]
<1>1. /\ MayWrite(b) /\ connector' = [connector EXCEPT ![b] = "active"] /\ sync' = [sync EXCEPT ![b] = work]
      /\ UNCHANGED <<member, consent, credential, mail, minted, accepted, call, harm>>
  BY DEF StartSync, googleVars
<1>2. work \in Work /\ ~work.locked
  BY DEF Work, Part
<1> HIDE DEF work
<1>3. Connected' = Connected
  BY <1>1 DEF GmailInv, GmailTypeOK, Connected, MayWrite
<1>4. Writing' \subseteq Writing
  BY <1>1, <1>2 DEF GmailInv, GmailTypeOK, Writing
<1>5. GmailTypeOK' /\ HeldRows' /\ MailUnderConsent'
  BY <1>1, <1>2, <1>3, <1>4 DEF GmailInv, GmailTypeOK, HeldRows, MailUnderConsent, MayWrite
<1>6. Cleared' /\ Enrolled' /\ Kept' /\ Owing'
  BY <1>1, <1>3, QuietKeeps
<1> QED
  BY <1>5, <1>6 DEF GmailInv

LEMMA StopSyncLocks ==
  ASSUME GmailTypeOK, NEW b \in Mailbox, StopSync(b)
  PROVE  sync' \in [Mailbox -> Work \cup {NoSync}] /\ Writing' \subseteq Writing
BY DEF GmailTypeOK, StopSync, Writing

LEMMA LockForWriteKeeps ==
  ASSUME GmailInv, NEW b \in Mailbox, LockForWrite(b)
  PROVE  GmailInv'
<1>1. /\ sync[b] # NoSync
      /\ IF MayWrite(b) THEN sync' = [sync EXCEPT ![b].locked = TRUE] ELSE StopSync(b)
      /\ UNCHANGED <<member, consent, connector, credential, mail, minted, accepted, call, harm>>
  BY DEF LockForWrite, googleVars
<1>2. /\ sync' \in [Mailbox -> Work \cup {NoSync}]
      /\ \A a \in Writing' : a \in Writing \/ MayWrite(a)
  <2>1. CASE MayWrite(b)
    <3>1. [sync[b] EXCEPT !.locked = TRUE] \in Work
      BY <1>1 DEF GmailInv, GmailTypeOK, Work
    <3>2. sync' = [sync EXCEPT ![b] = [sync[b] EXCEPT !.locked = TRUE]]
      BY <1>1, <2>1
    <3> QED
      BY <2>1, <3>1, <3>2 DEF GmailInv, GmailTypeOK, Writing
  <2>2. CASE ~MayWrite(b)
    BY <1>1, <2>2, StopSyncLocks DEF GmailInv
  <2> QED
    BY <2>1, <2>2
<1>3. GmailTypeOK' /\ HeldRows' /\ MailUnderConsent'
  BY <1>1, <1>2 DEF GmailInv, GmailTypeOK, HeldRows, MailUnderConsent, MayWrite, Connected
<1>4. Cleared' /\ Enrolled' /\ Kept' /\ Owing'
  BY <1>1, QuietKeeps DEF Connected
<1> QED
  BY <1>3, <1>4 DEF GmailInv

LEMMA GoOnLocks ==
  ASSUME GmailTypeOK, NEW b \in Mailbox, NEW part \in Part, GoOn(b, part)
  PROVE  sync' \in [Mailbox -> Work \cup {NoSync}] /\ Writing' \subseteq Writing
<1> DEFINE work == [part |-> part, locked |-> FALSE]
<1>1. work \in Work /\ ~work.locked
  BY DEF Work
<1>2. sync' = [sync EXCEPT ![b] = work]
  BY DEF GoOn
<1> HIDE DEF work
<1> QED
  BY <1>1, <1>2 DEF GmailTypeOK, Writing

LEMMA CommitWriteKeeps ==
  ASSUME GmailInv, NEW b \in Mailbox, CommitWrite(b)
  PROVE  GmailInv'
<1>1. /\ b \in Writing
      /\ UNCHANGED <<member, consent, connector, credential, minted, accepted, call, harm>>
      /\ mail' = mail \/ \E p \in Part : Put(b, p)
      /\ StopSync(b) \/ \E p \in Part : GoOn(b, p)
  BY DEF CommitWrite, CommitMessage, CommitBody, CommitEvidence, CommitInsight, Writes, Part, googleVars
<1>2. sync' \in [Mailbox -> Work \cup {NoSync}] /\ Writing' \subseteq Writing
  BY <1>1, StopSyncLocks, GoOnLocks DEF GmailInv
<1>3. mail' \in [Mailbox -> SUBSET Part] /\ \A a \in Mailbox \ {b} : mail'[a] = mail[a]
  BY <1>1 DEF GmailInv, GmailTypeOK, Put
<1>4. consent[b] = "given"
  BY <1>1 DEF GmailInv, HeldRows, MayWrite
<1>5. GmailTypeOK' /\ HeldRows' /\ MailUnderConsent'
  BY <1>1, <1>2, <1>3, <1>4 DEF GmailInv, GmailTypeOK, HeldRows, MailUnderConsent, MayWrite, Connected
<1>6. Cleared' /\ Enrolled' /\ Kept' /\ Owing'
  BY <1>1, QuietKeeps DEF Connected
<1> QED
  BY <1>5, <1>6 DEF GmailInv

LEMMA AbandonSyncKeeps ==
  ASSUME GmailInv, NEW b \in Mailbox, AbandonSync(b)
  PROVE  GmailInv'
<1>1. /\ StopSync(b)
      /\ UNCHANGED <<member, consent, connector, credential, mail, minted, accepted, call, harm>>
  BY DEF AbandonSync, googleVars
<1>2. sync' \in [Mailbox -> Work \cup {NoSync}] /\ Writing' \subseteq Writing
  BY <1>1, StopSyncLocks DEF GmailInv
<1>3. GmailTypeOK' /\ HeldRows' /\ MailUnderConsent'
  BY <1>1, <1>2 DEF GmailInv, GmailTypeOK, HeldRows, MailUnderConsent, MayWrite, Connected
<1>4. Cleared' /\ Enrolled' /\ Kept' /\ Owing'
  BY <1>1, QuietKeeps DEF Connected
<1> QED
  BY <1>3, <1>4 DEF GmailInv

-----------------------------------------------------------------------------
LEMMA GmailStep == GmailInv /\ [GmailNext]_gmailVars => GmailInv'
<1> SUFFICES ASSUME GmailInv, [GmailNext]_gmailVars PROVE GmailInv'
  OBVIOUS
<1>1. ASSUME NEW c \in Caller, CallStep(c) PROVE GmailInv'
  BY <1>1, ExchangeKeeps, EndKeeps, EnrolKeeps, GiveUpEnrolmentKeeps, CheckSafeKeeps, RevokeKeeps, LeaveGrantKeeps
     DEF CallStep
<1>2. ASSUME NEW b \in Mailbox, Enable(b) \/ ForgetThread(b) \/ SyncStep(b) PROVE GmailInv'
  BY <1>2, EnableKeeps, ForgetThreadKeeps, SyncFailsKeeps, StartSyncKeeps, LockForWriteKeeps, CommitWriteKeeps,
     AbandonSyncKeeps DEF SyncStep
<1>3. CASE UNCHANGED gmailVars
  <2>1. UNCHANGED <<member, consent, connector, credential, mail, sync, minted, accepted, call, harm>>
    BY <1>3 DEF gmailVars
  <2>2. GmailTypeOK' /\ HeldRows' /\ MailUnderConsent'
    BY <2>1 DEF GmailInv, GmailTypeOK, HeldRows, MailUnderConsent, Writing, MayWrite, Connected
  <2>3. Cleared' /\ Enrolled' /\ Kept' /\ Owing'
    BY <2>1, QuietKeeps DEF Connected
  <2> QED
    BY <2>2, <2>3 DEF GmailInv
<1> QED
  BY <1>1, <1>2, <1>3 DEF GmailNext

\* The inductive invariant holds for any mailboxes, callers and bounds.
THEOREM GmailSafe == GmailSpec => []GmailInv
  BY InitGmail, GmailStep, PTL DEF GmailSpec

(* The rows, syncs and calls have the fields that the code gives them.     *)
THEOREM GmailTyped == GmailSpec => []GmailTypeOK
<1>1. GmailInv => GmailTypeOK
  BY DEF GmailInv
<1> QED
  BY <1>1, GmailSafe, PTL

(* Without consent no mail is left, and none lands behind a withdrawal.    *)
THEOREM ConsentHolds == GmailSpec => []MailUnderConsent
<1>1. GmailInv => MailUnderConsent
  BY DEF GmailInv
<1> QED
  BY <1>1, GmailSafe, PTL

(* Whoever skips a call to Google leaves it to a row in use, whose own end *)
(* makes it: no grant outlives them all.                                   *)
THEOREM GrantsEndHolds == GmailSpec => []GrantsEnd
<1>1. GmailInv => GrantsEnd
  BY DEF GmailInv, GrantsEnd, Owing
<1> QED
  BY <1>1, GmailSafe, PTL

LEMMA SpareStep ==
  ASSUME GmailInv, GmailNext
  PROVE  RevocationSpares
<1>1. ASSUME NEW b \in Connected, credential[b] \in accepted, credential[b] \notin accepted'
      PROVE  \E c \in Caller : call[c] # NoCall /\ call'[c] = NoCall /\ (b \notin call[c].live \/ b \in call[c].except)
  <2>1. PICK c \in Caller : Revoke(c)
    BY <1>1 DEF GmailNext, CallStep, SyncStep, googleVars, Exchange, Withdraw, DisableConnector, RemoveMember,
                Enrol, GiveUpEnrolment, CheckSafe, LeaveGrant, Enable, ForgetThread, SyncFails, StartSync,
                LockForWrite, CommitWrite, AbandonSync
  <2>2. call[c] # NoCall /\ call'[c] = NoCall
    BY <2>1, Dropped DEF Revoke, At, GmailInv
  <2>3. call[c].live \subseteq call[c].except
    BY <2>1 DEF Revoke, GmailInv, Cleared
  <2> QED
    BY <2>2, <2>3
<1> QED
  BY <1>1 DEF RevocationSpares

(* A revocation ends the grant of a row in use only if the row was not in  *)
(* use when it looked, or is the one it excepted.                          *)
THEOREM RevocationsSpare == GmailSpec => SpareConnected
<1>1. GmailInv /\ [GmailNext]_gmailVars => [RevocationSpares]_gmailVars
  BY SpareStep
<1> QED
  BY <1>1, GmailSafe, PTL DEF GmailSpec, SpareConnected
=============================================================================
