----------------------- MODULE AccountLifecycleProofs -----------------------
(***************************************************************************)
(* Theorems about AccountLifecycle for any accounts and requests: types,   *)
(* one invitation for each account, no account without an e-mail, and the  *)
(* redeemer of a token is the one who can sign in; then, from what the     *)
(* requests know of each other, which login a deletion leaves behind, why  *)
(* a token may not be redeemable and what brings a deleted account back;   *)
(* and that no requests wait for each other's rows in a circle.            *)
(***************************************************************************)
EXTENDS AccountLifecycle, TLAPS

IsSent(r) == req[r] # NotSent
Pending(r) == req[r].pc \notin {"committed", "failed"}

(* Accounts and their invitations.                                         *)
InvitationInv ==
    \A a \in Accounts :
        /\ account[a] = "absent" => invitations[a] = {}
        /\ account[a] # "absent" => \E i \in Invitation : invitations[a] = {i}
        /\ account[a] = "live" => \A i \in invitations[a] : ~i.deleted
        /\ \A i \in invitations[a] :
              /\ i.token \in mailed
              /\ i.token \in Requests => IsSent(i.token)

(* What a request that is under way knows of its account.                  *)
IsCreate(r) == IsSent(r) /\ req[r].kind = "create"

CreateOk(r) ==
    /\ req[r].token = r
    /\ Pending(r) => account[req[r].account] = "absent"
    /\ req[r].pc = "ready" => r \in mailed
    /\ \A q \in Requests :
          IsCreate(q) /\ req[q].account = req[r].account => q = r

CreateInv == \A r \in Requests : IsCreate(r) => CreateOk(r)

IsReader(r) == IsSent(r) /\ req[r].kind \in {"resend", "verify", "delete"}

HasToken(a, t) == \A i \in invitations[a] : i.token = t

ReaderOk(r) ==
    /\ account[req[r].account] # "absent"
    /\ req[r].kind = "resend" => req[r].token # r
    /\ req[r].kind = "verify" =>
          /\ HasToken(req[r].account, req[r].token)
          /\ \E i \in Invitation : /\ req[r].seen = {i}
                                   /\ i.token = req[r].token
                                   /\ ~i.deleted

ReaderInv == \A r \in Requests : IsReader(r) => ReaderOk(r)

EffectInv == \A r \in effects : IsSent(r)

(* The login of an account no deletion has touched is of the request that  *)
(* made it, with the password it set.                                      *)
Untouched(a) ==
    \A d \in effects : ~(req[d].kind = "delete" /\ req[d].account = a)

IsVerify(r, a) == IsSent(r) /\ req[r].kind = "verify" /\ req[r].account = a

IsRedeemer(r, a) == IsVerify(r, a) /\ req[r].pc = "committed"

HasPassword(a, t) == login[a] # NoLogin /\ login[a].password = t

IsPermanent(a) == login[a] # NoLogin /\ login[a].permanent

VerifyOk(r, a) ==
    /\ req[r].pc \in {"userCreated", "passwordSet", "ready", "committed"} => r \in effects
    /\ r \in effects => HasPassword(a, r)
    /\ req[r].pc \in {"passwordSet", "ready", "committed"} => IsPermanent(a)

IsUsed(a) == \E i \in invitations[a] : ~i.isValid

UsedOk(a) == IsUsed(a) => \/ login[a] = [permanent |-> TRUE, password |-> a]
                          \/ \E r \in Requests : IsRedeemer(r, a)

LoginInv ==
    \A a \in Accounts : Untouched(a) =>
        /\ \A r \in Requests : IsVerify(r, a) => VerifyOk(r, a)
        /\ UsedOk(a)

IInv == TypeOK /\ InvitationInv /\ CreateInv /\ ReaderInv /\ EffectInv /\ LoginInv
-----------------------------------------------------------------------------
(* A request that was sent is a record with these fields.                  *)
LEMMA SentRecord ==
  ASSUME TypeOK, NEW r \in Requests, IsSent(r)
  PROVE  /\ req[r] \in Sent
         /\ req[r].kind \in Kinds
         /\ req[r].pc \in Pcs
         /\ req[r].account \in Accounts
         /\ req[r].token \in Tokens
         /\ req[r].seen \in SUBSET Invitation
         /\ req[r].done \in SUBSET Requests
  BY DEF TypeOK, IsSent, Sent

(* Whoever is at a step has been sent.                                     *)
LEMMA PcSent ==
  ASSUME NEW r \in Requests, req[r].pc # "idle"
  PROVE  IsSent(r)
  BY DEF IsSent, NotSent

(* q is the same request as before, at the same step unless it is r.       *)
Same(q) == /\ req'[q] \in Sent
           /\ req'[q].kind = req[q].kind
           /\ req'[q].account = req[q].account
           /\ req'[q].token = req[q].token
           /\ req'[q].seen = req[q].seen
           /\ req'[q].done = req[q].done

(* Moving r to another step changes nothing else.                          *)
LEMMA GotoStep ==
  ASSUME TypeOK, NEW r \in Requests, IsSent(r), NEW pc \in Pcs, Goto(r, pc)
  PROVE  /\ req' \in [Requests -> Sent \cup {NotSent}]
         /\ Same(r) /\ req'[r].pc = pc
         /\ \A q \in Requests \ {r} : req'[q] = req[q]
         /\ \A q \in Requests : IsSent(q)' <=> IsSent(q)
         /\ \A a \in Accounts, kind \in Kinds : OfKind(a, kind)' = OfKind(a, kind)
<1> DEFINE new == [req[r] EXCEPT !.pc = pc]
<1>1. req[r] \in Sent
  BY SentRecord
<1>2. new \in Sent /\ new.pc = pc /\ new.kind = req[r].kind
      /\ new.account = req[r].account /\ new.token = req[r].token
      /\ new.seen = req[r].seen /\ new.done = req[r].done
  BY <1>1 DEF Sent
<1>3. req' = [req EXCEPT ![r] = new]
  BY DEF Goto
<1> HIDE DEF new
<1>4. req'[r] = new /\ \A q \in Requests \ {r} : req'[q] = req[q]
  BY <1>3 DEF TypeOK
<1>5. req' \in [Requests -> Sent \cup {NotSent}]
  BY <1>2, <1>3 DEF TypeOK
<1>6. new # NotSent
  BY <1>2 DEF NotSent, Pcs
<1>7. \A q \in Requests : IsSent(q)' <=> IsSent(q)
  BY <1>4, <1>6 DEF IsSent
<1>8. \A a \in Accounts, kind \in Kinds : OfKind(a, kind)' = OfKind(a, kind)
  BY <1>2, <1>4, <1>7 DEF OfKind, IsSent
<1>9. QED
  BY <1>2, <1>4, <1>5, <1>7, <1>8 DEF Same

(* Starting r makes its record and changes nothing else.                   *)
LEMMA BeginStep ==
  ASSUME TypeOK, NEW r \in Requests, NEW kind \in Kinds, NEW pc \in Pcs,
         NEW a \in Accounts, NEW t \in Tokens, NEW seen \in SUBSET Invitation,
         Begin(r, kind, pc, a, t, seen)
  PROVE  /\ req' \in [Requests -> Sent \cup {NotSent}]
         /\ ~IsSent(r) /\ IsSent(r)'
         /\ req'[r].kind = kind /\ req'[r].pc = pc /\ req'[r].account = a
         /\ req'[r].token = t /\ req'[r].seen = seen
         /\ \A q \in Requests \ {r} : req'[q] = req[q]
         /\ \A b \in Accounts, k \in Kinds :
               OfKind(b, k)' = OfKind(b, k)
                                 \cup (IF b = a /\ k = kind THEN {r} ELSE {})
         /\ UNCHANGED <<rows, locks, outside>>
<1> DEFINE new == [kind |-> kind, pc |-> pc, account |-> a, token |-> t,
                   seen |-> seen, done |-> UNION {Committed(a, k) : k \in Kinds}]
<1>1. UNION {Committed(a, k) : k \in Kinds} \in SUBSET Requests
  BY DEF Committed, OfKind
<1>2. /\ new \in Sent /\ new.kind = kind /\ new.pc = pc /\ new.account = a
      /\ new.token = t /\ new.seen = seen
  BY <1>1 DEF Sent
<1>3. /\ req' = [req EXCEPT ![r] = new]
      /\ req[r] = NotSent
      /\ UNCHANGED <<rows, locks, outside>>
  BY DEF Begin
<1> HIDE DEF new
<1>4. req'[r] = new /\ \A q \in Requests \ {r} : req'[q] = req[q]
  BY <1>3 DEF TypeOK
<1>5. req' \in [Requests -> Sent \cup {NotSent}]
  BY <1>2, <1>3 DEF TypeOK
<1>6. new # NotSent
  BY <1>2 DEF NotSent, Pcs
<1>7. ~IsSent(r) /\ IsSent(r)'
  BY <1>3, <1>4, <1>6 DEF IsSent
<1>8. ASSUME NEW b \in Accounts, NEW k \in Kinds
      PROVE  OfKind(b, k)' = OfKind(b, k)
                               \cup (IF b = a /\ k = kind THEN {r} ELSE {})
  BY <1>2, <1>3, <1>4, <1>6 DEF OfKind
<1>9. QED
  BY <1>2, <1>3, <1>4, <1>5, <1>7, <1>8
-----------------------------------------------------------------------------
(* A step that starts a request.                                           *)
LEMMA StartStep ==
  ASSUME TypeOK, NEW r \in Requests, Start(r)
  PROVE  \E kind \in Kinds, pc \in {"read", "written"}, a \in Accounts,
            t \in Tokens, seen \in SUBSET Invitation :
           /\ Begin(r, kind, pc, a, t, seen)
           /\ kind = "create" => /\ account[a] = "absent"
                                 /\ OfKind(a, "create") = {}
                                 /\ t = r
           /\ kind \in {"resend", "verify", "delete"} => account[a] = "live"
           /\ kind = "resend" => Visible(a) = {} \/ \E i \in Visible(a) : t = i.token
           /\ kind = "verify" => /\ pc = "read"
                                 /\ \E i \in Visible(a) : seen = {i} /\ t = i.token
<1>1. PICK a \in Accounts : \/ Create(r, a)
                            \/ Resend(r, a)
                            \/ VerifyRead(r, a)
                            \/ RenameRead(r, a)
                            \/ DeleteRead(r, a)
  BY DEF Start
<1>2. /\ Visible(a) \in SUBSET Invitation
      /\ \A i \in Visible(a) : i.token \in Tokens /\ {i} \in SUBSET Invitation
      /\ r \in Tokens
      /\ {} \in SUBSET Invitation
  BY DEF TypeOK, Visible, Invitation, Tokens
<1>3. CASE Create(r, a)
  BY <1>2, <1>3 DEF Create, Kinds
<1>4. CASE Resend(r, a)
  BY <1>2, <1>4 DEF Resend, Kinds
<1>5. CASE VerifyRead(r, a)
  <2>1. PICK i \in Visible(a) : Begin(r, "verify", "read", a, i.token, {i})
    BY <1>5 DEF VerifyRead
  <2>2. account[a] = "live" /\ "verify" \in Kinds
    BY <1>5 DEF VerifyRead, Kinds
  <2>3. QED
    BY <1>2, <2>1, <2>2
<1>6. CASE RenameRead(r, a)
  BY <1>2, <1>6 DEF RenameRead, Kinds
<1>7. CASE DeleteRead(r, a)
  BY <1>2, <1>7 DEF DeleteRead, Kinds
<1>8. QED
  BY <1>1, <1>3, <1>4, <1>5, <1>6, <1>7

(* A step of a request that goes on or fails moves it, and only it.        *)
LEMMA MoveStep ==
  ASSUME NEW r \in Requests, Proceed(r) \/ Fail(r)
  PROVE  IsSent(r) /\ \E pc \in Pcs : Goto(r, pc)
<1>1. IsSent(r)
  BY PcSent DEF Proceed, Fail, Mail, VerifyCreateUser, VerifySetPassword,
     VerifyRevoke, RenameWrite, DeletePerson, DeleteAccount, DeleteUser, Commit, At, IsSent
<1>2. \E pc \in Pcs : Goto(r, pc)
  BY DEF Proceed, Fail, Mail, VerifyCreateUser, VerifySetPassword,
     VerifyRevoke, RenameWrite, DeletePerson, DeleteAccount, DeleteUser, Commit, Throw, Pcs
<1>3. QED
  BY <1>1, <1>2
-----------------------------------------------------------------------------
(* What a transaction leaves of its account's rows.                        *)
LEMMA RowsAfter ==
  ASSUME TypeOK, NEW r \in Requests, IsSent(r)
  PROVE  /\ AccountAfter(r) \in RowStates
         /\ PersonAfter(r) \in RowStates
         /\ InvitationsAfter(r) \in SUBSET Invitation
<1>1. /\ req[r].account \in Accounts /\ req[r].kind \in Kinds
      /\ req[r].seen \in SUBSET Invitation
  BY SentRecord
<1>2. account[req[r].account] \in RowStates /\ person[req[r].account] \in RowStates
  BY <1>1 DEF TypeOK
<1>3. AccountAfter(r) \in RowStates /\ PersonAfter(r) \in RowStates
  BY <1>2 DEF AccountAfter, PersonAfter, RowStates
<1>4. InvitationsAfter(r) \in SUBSET Invitation
  <2> DEFINE now == invitations[req[r].account]
             new == [token |-> r, isValid |-> TRUE, deleted |-> FALSE]
             tokens == {i.token : i \in req[r].seen}
             removed == {[i EXCEPT !.deleted = @ \/ i.token \in tokens] : i \in now}
             revoked == {Revoked(i) : i \in req[r].seen}
  <2>1. now \in SUBSET Invitation
    BY <1>1 DEF TypeOK
  <2>2. new \in Invitation
    BY DEF Invitation, Tokens
  <2>3. removed \in SUBSET Invitation
    BY <2>1 DEF Invitation
  <2>4. revoked \in SUBSET Invitation
    BY <1>1 DEF Revoked, Invitation
  <2>5. InvitationsAfter(r) =
          CASE req[r].kind = "create" -> {new}
            [] req[r].kind = "resend" /\ req[r].token = r -> now \cup {new}
            [] req[r].kind = "verify" -> {i \in now : i.token \notin tokens} \cup revoked
            [] req[r].kind = "delete" -> removed
            [] OTHER -> now
    BY DEF InvitationsAfter
  <2> HIDE DEF now, new, tokens, removed, revoked
  <2>6. QED
    BY <1>1, <2>1, <2>2, <2>3, <2>4, <2>5 DEF Kinds
<1>5. QED
  BY <1>3, <1>4

(* Freed locks are locks.                                                  *)
LEMMA FreeType ==
  ASSUME NEW r \in Requests, NEW lock \in [Accounts -> Requests \cup {Nobody}]
  PROVE  Free(lock, r) \in [Accounts -> Requests \cup {Nobody}]
  BY DEF Free

(* Locks keep their types when a request goes on or fails.                 *)
LEMMA LockTypes ==
  ASSUME TypeOK, NEW r \in Requests, Proceed(r) \/ Fail(r)
  PROVE  /\ personLock' \in [Accounts -> Requests \cup {Nobody}]
         /\ inviteLock' \in [Accounts -> Requests \cup {Nobody}]
<1>1. /\ personLock \in [Accounts -> Requests \cup {Nobody}]
      /\ inviteLock \in [Accounts -> Requests \cup {Nobody}]
      /\ Free(personLock, r) \in [Accounts -> Requests \cup {Nobody}]
      /\ Free(inviteLock, r) \in [Accounts -> Requests \cup {Nobody}]
  BY FreeType DEF TypeOK
<1>2. /\ \/ personLock' \in {personLock, Free(personLock, r)}
         \/ personLock' = [personLock EXCEPT ![req[r].account] = r]
      /\ \/ inviteLock' \in {inviteLock, Free(inviteLock, r)}
         \/ inviteLock' = [inviteLock EXCEPT ![req[r].account] = r]
  BY DEF Proceed, Fail, Throw, Mail, VerifyCreateUser, VerifySetPassword,
     VerifyRevoke, RenameWrite, DeletePerson, DeleteAccount, DeleteUser, Commit,
     locks, outside
<1>3. QED
  BY <1>1, <1>2

(* Every step keeps the types.                                             *)
LEMMA TypeStep ==
  ASSUME TypeOK, [Next]_vars
  PROVE  TypeOK'
<1>1. ASSUME NEW r \in Requests, Start(r)
      PROVE  TypeOK'
  <2>1. PICK kind \in Kinds, pc \in {"read", "written"}, a \in Accounts,
             t \in Tokens, seen \in SUBSET Invitation :
             Begin(r, kind, pc, a, t, seen)
    BY <1>1, StartStep
  <2>2. /\ req' \in [Requests -> Sent \cup {NotSent}]
        /\ UNCHANGED <<rows, locks, outside>>
    BY <2>1, BeginStep DEF Pcs
  <2>3. QED
    BY <2>2 DEF TypeOK, rows, locks, outside
<1>2. ASSUME NEW r \in Requests, Proceed(r) \/ Fail(r)
      PROVE  TypeOK'
  <2>1. IsSent(r) /\ req' \in [Requests -> Sent \cup {NotSent}]
    BY <1>2, MoveStep, GotoStep
  <2>2. /\ personLock' \in [Accounts -> Requests \cup {Nobody}]
        /\ inviteLock' \in [Accounts -> Requests \cup {Nobody}]
    BY <1>2, LockTypes
  <2>3. req[r].account \in Accounts /\ req[r].token \in Tokens
    BY <2>1, SentRecord
  <2>4. /\ account' \in [Accounts -> RowStates]
        /\ person' \in [Accounts -> RowStates]
        /\ invitations' \in [Accounts -> SUBSET Invitation]
    <3>1. CASE Commit(r)
      <4>1. /\ AccountAfter(r) \in RowStates
            /\ PersonAfter(r) \in RowStates
            /\ InvitationsAfter(r) \in SUBSET Invitation
        BY <2>1, RowsAfter
      <4>2. QED
        BY <3>1, <4>1 DEF TypeOK, Commit
    <3>2. CASE ~Commit(r)
      BY <1>2, <3>2 DEF TypeOK, Proceed, Fail, Mail, VerifyCreateUser,
         VerifySetPassword, VerifyRevoke, RenameWrite, DeletePerson,
         DeleteAccount, DeleteUser, rows
    <3>3. QED
      BY <3>1, <3>2
  <2>5. /\ signedIn' \subseteq Accounts
        /\ mailed' \subseteq Tokens
        /\ effects' \subseteq Requests
    BY <1>2, <2>3 DEF TypeOK, Proceed, Fail, Mail, VerifyCreateUser,
       VerifySetPassword, VerifyRevoke, RenameWrite, DeletePerson,
       DeleteAccount, DeleteUser, Commit, outside
  <2>6. login' \in [Accounts -> Logins \cup {NoLogin}]
    <3>1. /\ [permanent |-> FALSE, password |-> r] \in Logins
          /\ [permanent |-> TRUE, password |-> r] \in Logins
      BY DEF Logins, Tokens
    <3>2. \/ login' = login
          \/ \E l \in Logins \cup {NoLogin} :
                login' = [login EXCEPT ![req[r].account] = l]
      BY <1>2, <3>1 DEF Proceed, Fail, Mail, VerifyCreateUser,
         VerifySetPassword, VerifyRevoke, RenameWrite, DeletePerson,
         DeleteAccount, DeleteUser, Commit, outside
    <3>3. QED
      BY <3>2 DEF TypeOK
  <2>7. QED
    BY <2>1, <2>2, <2>4, <2>5, <2>6 DEF TypeOK
<1>3. ASSUME NEW a \in Accounts, SignIn(a)
      PROVE  TypeOK'
  BY <1>3 DEF TypeOK, SignIn, rows, locks
<1>4. CASE UNCHANGED vars
  BY <1>4 DEF TypeOK, vars
<1>5. QED
  BY <1>1, <1>2, <1>3, <1>4 DEF Next

(* The initial states have their types.                                    *)
LEMMA TypeInit == Init => TypeOK
<1> SUFFICES ASSUME NEW start, start \subseteq Founders \cup Invited, StartWith(start)
             PROVE  TypeOK
  BY DEF Init
<1>1. \A a \in Accounts : PastInvitation(a) \in Invitation
  BY DEF PastInvitation, Invitation, Tokens
<1>2. /\ account \in [Accounts -> RowStates]
      /\ person \in [Accounts -> RowStates]
      /\ personLock \in [Accounts -> Requests \cup {Nobody}]
      /\ inviteLock \in [Accounts -> Requests \cup {Nobody}]
  BY DEF StartWith, RowStates
<1>3. invitations \in [Accounts -> SUBSET Invitation]
  BY <1>1 DEF StartWith
<1>4. login \in [Accounts -> Logins \cup {NoLogin}]
  BY DEF StartWith, Logins, Tokens
<1>5. /\ signedIn \subseteq Accounts
      /\ mailed \subseteq Tokens
      /\ effects \subseteq Requests
      /\ req \in [Requests -> Sent \cup {NotSent}]
  BY StartAssumption DEF StartWith, Tokens, StartAssumption
<1>6. QED
  BY <1>2, <1>3, <1>4, <1>5 DEF TypeOK

(* Type correctness.                                                       *)
THEOREM TypeCorrect == Spec => []TypeOK
  BY TypeInit, TypeStep, PTL DEF Spec
-----------------------------------------------------------------------------
(* What the steps change besides req: the rows at a commit, mailed when an *)
(* e-mail goes out, and the logins at the Cognito calls.                   *)
LEMMA RowsFrame ==
  ASSUME NEW r \in Requests, Proceed(r) \/ Fail(r), ~Commit(r)
  PROVE  UNCHANGED rows
  BY DEF Proceed, Fail, Mail, VerifyCreateUser, VerifySetPassword,
     VerifyRevoke, RenameWrite, DeletePerson, DeleteAccount, DeleteUser

LEMMA MailFrame ==
  ASSUME NEW r \in Requests, Proceed(r) \/ Fail(r)
  PROVE  /\ mailed \subseteq mailed'
         /\ ~Mail(r) => mailed' = mailed
  BY DEF Proceed, Fail, Mail, VerifyCreateUser, VerifySetPassword,
     VerifyRevoke, RenameWrite, DeletePerson, DeleteAccount, DeleteUser,
     Commit, outside

(* An account that is read by a request stays in the database.             *)
LEMMA Monotone ==
  ASSUME IInv, [Next]_vars
  PROVE  /\ mailed \subseteq mailed'
         /\ \A q \in Requests : IsSent(q) => IsSent(q)'
         /\ \A a \in Accounts : account[a] # "absent" => account'[a] # "absent"
<1>1. ASSUME NEW r \in Requests, Start(r)
      PROVE  /\ mailed \subseteq mailed'
             /\ \A q \in Requests : IsSent(q) => IsSent(q)'
             /\ \A a \in Accounts : account[a] # "absent" => account'[a] # "absent"
  <2>1. PICK kind \in Kinds, pc \in {"read", "written"}, a \in Accounts,
             t \in Tokens, seen \in SUBSET Invitation :
             Begin(r, kind, pc, a, t, seen)
    BY <1>1, StartStep DEF IInv
  <2>2. /\ ~IsSent(r)
        /\ \A q \in Requests \ {r} : req'[q] = req[q]
        /\ UNCHANGED <<rows, locks, outside>>
    BY <2>1, BeginStep DEF Pcs, IInv
  <2>3. QED
    BY <2>2 DEF rows, outside, IsSent
<1>2. ASSUME NEW r \in Requests, Proceed(r) \/ Fail(r)
      PROVE  /\ mailed \subseteq mailed'
             /\ \A q \in Requests : IsSent(q) => IsSent(q)'
             /\ \A a \in Accounts : account[a] # "absent" => account'[a] # "absent"
  <2>1. IsSent(r) /\ \A q \in Requests : IsSent(q)' <=> IsSent(q)
    BY <1>2, MoveStep, GotoStep DEF IInv
  <2>2. mailed \subseteq mailed'
    BY <1>2, MailFrame
  <2>3. ASSUME Commit(r), NEW a \in Accounts, account[a] # "absent"
        PROVE  account'[a] # "absent"
    <3>1. account' = [account EXCEPT ![req[r].account] = AccountAfter(r)]
      BY <2>3 DEF Commit
    <3>2. \/ AccountAfter(r) \in {"live", "deleted"}
          \/ AccountAfter(r) = account[req[r].account]
      BY DEF AccountAfter
    <3>3. QED
      BY <2>3, <3>1, <3>2 DEF IInv, TypeOK
  <2>4. QED
    BY <1>2, <2>1, <2>2, <2>3, RowsFrame DEF rows
<1>3. ASSUME NEW a \in Accounts, SignIn(a)
      PROVE  UNCHANGED <<mailed, req, account>>
  BY <1>3 DEF SignIn, rows
<1>4. CASE UNCHANGED vars
  BY <1>4 DEF vars, IsSent
<1>5. QED
  BY <1>1, <1>2, <1>3, <1>4 DEF Next, IsSent

(* The invitation of an account outside the database is the one its        *)
(* creation inserts; every other commit keeps the token.                   *)
LEMMA CommitInvitation ==
  ASSUME IInv, NEW r \in Requests, IsSent(r), Commit(r)
  PROVE  LET a == req[r].account
         IN  \/ /\ req[r].kind = "create"
                /\ account[a] = "absent"
                /\ r \in mailed
                /\ AccountAfter(r) = "live"
                /\ InvitationsAfter(r) =
                      {[token |-> r, isValid |-> TRUE, deleted |-> FALSE]}
             \/ /\ req[r].kind = "verify"
                /\ AccountAfter(r) = account[a]
                /\ account[a] # "absent"
                /\ \E i \in Invitation, j \in Invitation :
                      /\ invitations[a] = {i}
                      /\ InvitationsAfter(r) = {j}
                      /\ j.token = i.token
                      /\ ~j.isValid
                      /\ ~j.deleted
             \/ /\ req[r].kind = "delete"
                /\ AccountAfter(r) = "deleted"
                /\ account[a] # "absent"
                /\ \E i \in Invitation, j \in Invitation :
                      /\ invitations[a] = {i}
                      /\ InvitationsAfter(r) = {j}
                      /\ j.token = i.token
                      /\ j.isValid = i.isValid
             \/ /\ req[r].kind \in {"resend", "rename"}
                /\ AccountAfter(r) = account[a]
                /\ InvitationsAfter(r) = invitations[a]
<1> DEFINE a == req[r].account
           now == invitations[a]
           tokens == {i.token : i \in req[r].seen}
<1>1. req[r].kind \in Kinds /\ a \in Accounts
  BY SentRecord DEF IInv
<1>2. req[r].pc = "ready"
  BY DEF Commit
<1>3. CASE req[r].kind = "create"
  <2>1. account[a] = "absent" /\ r \in mailed
    BY <1>2, <1>3 DEF IInv, CreateInv, CreateOk, IsCreate, Pending
  <2>2. /\ AccountAfter(r) = "live"
        /\ InvitationsAfter(r) = {[token |-> r, isValid |-> TRUE, deleted |-> FALSE]}
    BY <1>3 DEF AccountAfter, InvitationsAfter
  <2>3. QED
    BY <1>3, <2>1, <2>2
<1>4. CASE req[r].kind = "verify"
  <2>1. /\ account[a] # "absent"
        /\ \E i \in Invitation : /\ req[r].seen = {i}
                                 /\ i.token = req[r].token
                                 /\ ~i.deleted
        /\ \A i \in now : i.token = req[r].token
    BY <1>4 DEF IInv, ReaderInv, IsReader, ReaderOk, HasToken
  <2>2. PICK s \in Invitation : /\ req[r].seen = {s}
                                /\ s.token = req[r].token
                                /\ ~s.deleted
    BY <2>1
  <2>3. PICK i \in Invitation : now = {i}
    BY <1>1, <2>1 DEF IInv, InvitationInv
  <2>4. /\ Revoked(s) \in Invitation
        /\ Revoked(s).token = s.token
        /\ ~Revoked(s).isValid
        /\ ~Revoked(s).deleted
    BY <2>2 DEF Revoked, Invitation
  <2>5. InvitationsAfter(r) =
           {k \in now : k.token \notin tokens} \cup {Revoked(k) : k \in req[r].seen}
    BY <1>4 DEF InvitationsAfter
  <2>6. {k \in now : k.token \notin tokens} = {}
    BY <2>1, <2>2
  <2>7. {Revoked(k) : k \in req[r].seen} = {Revoked(s)}
    BY <2>2
  <2>8. InvitationsAfter(r) = {Revoked(s)} /\ Revoked(s).token = i.token
    BY <2>1, <2>2, <2>3, <2>4, <2>5, <2>6, <2>7
  <2>9. AccountAfter(r) = account[a]
    BY <1>4 DEF AccountAfter
  <2>10. QED
    BY <1>4, <2>1, <2>3, <2>4, <2>8, <2>9
<1>5. CASE req[r].kind = "delete"
  <2>1. account[a] # "absent"
    BY <1>5 DEF IInv, ReaderInv, IsReader, ReaderOk
  <2>2. PICK i \in Invitation : now = {i}
    BY <1>1, <2>1 DEF IInv, InvitationInv
  <2> DEFINE flag == i.deleted \/ i.token \in tokens
             j == [i EXCEPT !.deleted = flag]
  <2>3. InvitationsAfter(r) =
           {[k EXCEPT !.deleted = @ \/ k.token \in tokens] : k \in now}
    BY <1>5 DEF InvitationsAfter
  <2>4. InvitationsAfter(r) = {j}
    BY <2>2, <2>3
  <2>5. flag \in BOOLEAN
    OBVIOUS
  <2> HIDE DEF flag
  <2>6. j \in Invitation /\ j.token = i.token /\ j.isValid = i.isValid
    BY <2>5 DEF Invitation
  <2>7. AccountAfter(r) = "deleted"
    BY <1>5 DEF AccountAfter
  <2>8. QED
    BY <1>5, <2>1, <2>2, <2>4, <2>6, <2>7
<1>6. CASE req[r].kind \in {"resend", "rename"}
  <2>1. AccountAfter(r) = account[a]
    BY <1>6 DEF AccountAfter
  <2>2. ~(req[r].kind = "resend" /\ req[r].token = r)
    BY <1>6 DEF IInv, ReaderInv, IsReader, ReaderOk
  <2>3. InvitationsAfter(r) = now
    BY <1>6, <2>2 DEF InvitationsAfter
  <2>4. QED
    BY <1>6, <2>1, <2>3
<1>7. QED
  BY <1>1, <1>3, <1>4, <1>5, <1>6 DEF Kinds
-----------------------------------------------------------------------------
(* Every step keeps the invitations in order.                              *)
LEMMA InvitationStep ==
  ASSUME IInv, [Next]_vars
  PROVE  InvitationInv'
<1>1. /\ mailed \subseteq mailed'
      /\ \A q \in Requests : IsSent(q) => IsSent(q)'
  BY Monotone
<1>2. CASE UNCHANGED rows
  BY <1>1, <1>2 DEF IInv, InvitationInv, rows, IsSent
<1>3. ASSUME NEW r \in Requests, Commit(r)
      PROVE  InvitationInv'
  <2> DEFINE a == req[r].account
  <2>1. IsSent(r)
    BY <1>3, PcSent DEF Commit
  <2>2. a \in Accounts /\ r \in Requests
    BY <2>1, SentRecord DEF IInv
  <2>3. /\ account'[a] = AccountAfter(r)
        /\ invitations'[a] = InvitationsAfter(r)
        /\ \A b \in Accounts \ {a} : /\ account'[b] = account[b]
                                     /\ invitations'[b] = invitations[b]
    BY <1>3, <2>2 DEF Commit, IInv, TypeOK
  <2> DEFINE Good(b) ==
        /\ account'[b] = "absent" => invitations'[b] = {}
        /\ account'[b] # "absent" => \E i \in Invitation : invitations'[b] = {i}
        /\ account'[b] = "live" => \A i \in invitations'[b] : ~i.deleted
        /\ \A i \in invitations'[b] :
              /\ i.token \in mailed'
              /\ i.token \in Requests => IsSent(i.token)'
  <2>4. ASSUME NEW b \in Accounts \ {a}
        PROVE  Good(b)
    BY <1>1, <2>3 DEF IInv, InvitationInv
  <2>5. Good(a)
    <3>1. /\ account[a] = "absent" => invitations[a] = {}
          /\ account[a] # "absent" => \E i \in Invitation : invitations[a] = {i}
          /\ account[a] = "live" => \A i \in invitations[a] : ~i.deleted
          /\ \A i \in invitations[a] :
                /\ i.token \in mailed
                /\ i.token \in Requests => IsSent(i.token)
      BY <2>2 DEF IInv, InvitationInv
    <3>2. CASE req[r].kind = "create"
      <4> DEFINE new == [token |-> r, isValid |-> TRUE, deleted |-> FALSE]
      <4>1. /\ r \in mailed
            /\ AccountAfter(r) = "live"
            /\ InvitationsAfter(r) = {new}
        BY <1>3, <2>1, <3>2, CommitInvitation
      <4>2. new \in Invitation /\ new.token = r /\ ~new.deleted
        BY DEF Invitation, Tokens
      <4> HIDE DEF new
      <4>3. QED
        BY <1>1, <2>1, <2>3, <4>1, <4>2
    <3>3. CASE req[r].kind = "verify"
      <4>1. PICK i \in Invitation, j \in Invitation :
                /\ invitations[a] = {i}
                /\ InvitationsAfter(r) = {j}
                /\ j.token = i.token
                /\ ~j.deleted
        BY <1>3, <2>1, <3>3, CommitInvitation
      <4>2. AccountAfter(r) = account[a] /\ account[a] # "absent"
        BY <1>3, <2>1, <3>3, CommitInvitation
      <4>3. QED
        BY <1>1, <2>3, <3>1, <4>1, <4>2
    <3>4. CASE req[r].kind = "delete"
      <4>1. PICK i \in Invitation, j \in Invitation :
                /\ invitations[a] = {i}
                /\ InvitationsAfter(r) = {j}
                /\ j.token = i.token
        BY <1>3, <2>1, <3>4, CommitInvitation
      <4>2. AccountAfter(r) = "deleted"
        BY <1>3, <2>1, <3>4, CommitInvitation
      <4>3. QED
        BY <1>1, <2>3, <3>1, <4>1, <4>2
    <3>5. CASE req[r].kind \in {"resend", "rename"}
      <4>1. AccountAfter(r) = account[a] /\ InvitationsAfter(r) = invitations[a]
        BY <1>3, <2>1, <3>5, CommitInvitation
      <4>2. QED
        BY <1>1, <2>3, <3>1, <4>1
    <3>6. QED
      BY <2>1, <3>2, <3>3, <3>4, <3>5, SentRecord DEF IInv, Kinds
  <2>6. \A b \in Accounts : Good(b)
    BY <2>4, <2>5
  <2>7. QED
    BY <2>6 DEF InvitationInv, IsSent
<1>4. ASSUME NEW r \in Requests, Start(r)
      PROVE  UNCHANGED rows
  BY <1>4, StartStep, BeginStep DEF IInv, Pcs
<1>5. QED
  BY <1>2, <1>3, <1>4, RowsFrame DEF Next, SignIn, rows, vars
-----------------------------------------------------------------------------
(* A commit touches the row of its own account only.                       *)
LEMMA AccountAtCommit ==
  ASSUME IInv, NEW r \in Requests, Commit(r)
  PROVE  /\ IsSent(r) /\ req[r].account \in Accounts
         /\ account'[req[r].account] = AccountAfter(r)
         /\ invitations'[req[r].account] = InvitationsAfter(r)
         /\ \A b \in Accounts \ {req[r].account} :
               account'[b] = account[b] /\ invitations'[b] = invitations[b]
<1>1. IsSent(r)
  BY PcSent DEF Commit
<1>2. req[r].account \in Accounts
  BY <1>1, SentRecord DEF IInv
<1>3. QED
  BY <1>1, <1>2 DEF Commit, IInv, TypeOK

(* A creation is ready to commit only after its e-mail.                    *)
LEMMA ReadyAfterMail ==
  ASSUME IInv, NEW r \in Requests, Proceed(r) \/ Fail(r), IsSent(r),
         req[r].kind = "create", req'[r].pc = "ready"
  PROVE  r \in mailed'
<1>1. ~Fail(r) /\ ~Commit(r)
  BY GotoStep DEF Fail, Throw, Commit, IInv, Pcs
<1>2. Mail(r)
  BY <1>1 DEF Proceed, VerifyCreateUser, VerifySetPassword, VerifyRevoke,
     RenameWrite, DeletePerson, DeleteAccount, DeleteUser, At
<1>3. req[r].token = r
  BY DEF IInv, CreateInv, CreateOk, IsCreate
<1>4. QED
  BY <1>2, <1>3 DEF Mail

(* A creation that starts is the only one of its account.                  *)
LEMMA CreateAtStart ==
  ASSUME IInv, NEW r \in Requests, Start(r)
  PROVE  CreateInv'
<1>1. PICK kind \in Kinds, pc \in {"read", "written"}, a \in Accounts,
           t \in Tokens, seen \in SUBSET Invitation :
           /\ Begin(r, kind, pc, a, t, seen)
           /\ kind = "create" => /\ account[a] = "absent"
                                 /\ OfKind(a, "create") = {}
                                 /\ t = r
  BY StartStep DEF IInv
<1>2. /\ ~IsSent(r)
      /\ req'[r].kind = kind /\ req'[r].pc = pc /\ req'[r].account = a
      /\ req'[r].token = t
      /\ \A q \in Requests \ {r} : req'[q] = req[q]
      /\ account' = account /\ mailed' = mailed
  BY <1>1, BeginStep DEF Pcs, IInv, rows, outside
<1>3. kind = "create" =>
        \A q \in Requests : IsCreate(q) => req[q].account # a
  BY <1>1 DEF OfKind, IsCreate, IsSent
<1>4. \A q \in Requests \ {r} : IsCreate(q)' <=> IsCreate(q)
  BY <1>2 DEF IsCreate, IsSent
<1>5. IsCreate(r)' => kind = "create"
  BY <1>2 DEF IsCreate
<1>6. ASSUME IsCreate(r)'
      PROVE  CreateOk(r)'
  BY <1>1, <1>2, <1>3, <1>4, <1>5, <1>6 DEF CreateOk
<1>7. ASSUME NEW q \in Requests \ {r}, IsCreate(q)'
      PROVE  CreateOk(q)'
  <2>1. IsCreate(q) /\ req'[q] = req[q]
    BY <1>2, <1>4, <1>7
  <2>2. CreateOk(q)
    BY <2>1 DEF IInv, CreateInv
  <2>3. IsCreate(r)' => req'[r].account # req'[q].account
    BY <1>2, <1>3, <1>5, <2>1
  <2>4. QED
    BY <1>2, <1>4, <2>1, <2>2, <2>3 DEF CreateOk, Pending
<1>8. QED
  BY <1>6, <1>7 DEF CreateInv

(* Whoever goes on or fails had not ended.                                 *)
LEMMA MovePending ==
  ASSUME IInv, NEW r \in Requests, Proceed(r) \/ Fail(r)
  PROVE  Pending(r)
<1>1. req[r].pc \in {"read", "written", "userCreated", "passwordSet",
                     "personDeleted", "accountDeleted", "ready"}
  BY MoveStep, SentRecord DEF IInv, Proceed, Fail, Mail, VerifyCreateUser,
     VerifySetPassword, VerifyRevoke, RenameWrite, DeletePerson,
     DeleteAccount, DeleteUser, Commit, At, Pcs
<1>2. QED
  BY <1>1 DEF Pending

(* While a creation is open its account stays out of the database.         *)
LEMMA AbsentAtCommit ==
  ASSUME IInv, NEW r \in Requests, Commit(r), NEW q \in Requests \ {r},
         IsCreate(q), Pending(q)
  PROVE  account'[req[q].account] = "absent"
<1>1. /\ req[q].account \in Accounts
      /\ account[req[q].account] = "absent"
  BY SentRecord DEF IInv, CreateInv, CreateOk, IsCreate
<1>2. SUFFICES ASSUME req[r].account = req[q].account
               PROVE  AccountAfter(r) = "absent"
  BY <1>1, AccountAtCommit
<1>3. IsSent(r)
  BY AccountAtCommit
<1>4. req[r].kind # "create"
  BY <1>2, <1>3 DEF IInv, CreateInv, CreateOk, IsCreate
<1>5. req[r].kind \notin {"resend", "verify", "delete"}
  BY <1>1, <1>2, <1>3 DEF IInv, ReaderInv, IsReader, ReaderOk
<1>6. QED
  BY <1>1, <1>2, <1>3, <1>4, <1>5, SentRecord DEF IInv, Kinds, AccountAfter

(* A creation that goes on stays in order.                                 *)
LEMMA CreateAtMove ==
  ASSUME IInv, NEW r \in Requests, Proceed(r) \/ Fail(r)
  PROVE  CreateInv'
<1>1. /\ IsSent(r) /\ Same(r)
      /\ \A q \in Requests \ {r} : req'[q] = req[q]
      /\ \A q \in Requests : IsSent(q)' <=> IsSent(q)
  BY MoveStep, GotoStep DEF IInv
<1>2. Pending(r)
  BY MovePending
<1>3. \A q \in Requests : /\ IsCreate(q)' <=> IsCreate(q)
                          /\ req'[q].account = req[q].account
                          /\ req'[q].token = req[q].token
  BY <1>1 DEF IsCreate, Same
<1>4. ASSUME NEW q \in Requests, IsCreate(q)'
      PROVE  CreateOk(q)'
  <2>1. IsCreate(q) /\ IsSent(q) /\ (Pending(q)' => Pending(q))
    BY <1>1, <1>2, <1>3, <1>4 DEF Pending, IsCreate
  <2>2. CreateOk(q)
    BY <2>1 DEF IInv, CreateInv
  <2>3. req'[q].pc = "ready" => q \in mailed'
    <3>1. CASE q = r
      BY <2>1, <3>1, ReadyAfterMail DEF IsCreate
    <3>2. CASE q # r
      BY <1>1, <2>2, <3>2, MailFrame DEF CreateOk
    <3>3. QED
      BY <3>1, <3>2
  <2>4. Pending(q)' => account'[req[q].account] = "absent"
    <3>1. CASE ~Commit(r)
      BY <2>1, <2>2, <3>1, RowsFrame DEF rows, CreateOk
    <3>2. CASE Commit(r) /\ q = r
      <4>1. req'[r].pc = "committed"
        BY <1>1, <3>2, GotoStep DEF IInv, Commit, Pcs
      <4>2. QED
        BY <3>2, <4>1 DEF Pending
    <3>3. CASE Commit(r) /\ q # r
      BY <2>1, <3>3, AbsentAtCommit
    <3>4. QED
      BY <3>1, <3>2, <3>3
  <2>5. QED
    BY <1>3, <2>2, <2>3, <2>4 DEF CreateOk
<1>5. QED
  BY <1>4 DEF CreateInv

(* Every step keeps creations in order.                                    *)
LEMMA CreateStep ==
  ASSUME IInv, [Next]_vars
  PROVE  CreateInv'
<1>1. CASE (\E a \in Accounts : SignIn(a)) \/ UNCHANGED vars
  <2>1. UNCHANGED <<req, account, mailed>>
    BY <1>1 DEF SignIn, vars, rows
  <2>2. QED
    BY <2>1 DEF IInv, CreateInv, CreateOk, IsCreate, IsSent, Pending
<1>2. QED
  BY <1>1, CreateAtStart, CreateAtMove DEF Next
-----------------------------------------------------------------------------
(* The token of an account in the database never changes.                  *)
LEMMA TokenStays ==
  ASSUME IInv, NEW r \in Requests, Proceed(r) \/ Fail(r),
         NEW a \in Accounts, account[a] # "absent",
         NEW t, HasToken(a, t)
  PROVE  HasToken(a, t)'
<1>1. CASE ~Commit(r)
  BY <1>1, RowsFrame DEF rows, HasToken
<1>2. CASE Commit(r) /\ req[r].account # a
  BY <1>2, AccountAtCommit DEF HasToken
<1>3. CASE Commit(r) /\ req[r].account = a
  <2>1. /\ IsSent(r)
        /\ invitations'[a] = InvitationsAfter(r)
    BY <1>3, AccountAtCommit
  <2>2. \/ \E i \in Invitation, j \in Invitation :
              /\ invitations[a] = {i}
              /\ InvitationsAfter(r) = {j}
              /\ j.token = i.token
        \/ InvitationsAfter(r) = invitations[a]
    BY <1>3, <2>1, CommitInvitation
  <2>3. QED
    BY <2>1, <2>2 DEF HasToken
<1>4. QED
  BY <1>1, <1>2, <1>3

(* A request that starts reads an account in the database.                 *)
LEMMA ReaderAtStart ==
  ASSUME IInv, NEW r \in Requests, Start(r)
  PROVE  ReaderInv'
<1>1. PICK kind \in Kinds, pc \in {"read", "written"}, a \in Accounts,
           t \in Tokens, seen \in SUBSET Invitation :
        /\ Begin(r, kind, pc, a, t, seen)
        /\ kind \in {"resend", "verify", "delete"} => account[a] = "live"
        /\ kind = "resend" => Visible(a) = {} \/ \E i \in Visible(a) : t = i.token
        /\ kind = "verify" => \E i \in Visible(a) : seen = {i} /\ t = i.token
  BY StartStep DEF IInv
<1>2. /\ ~IsSent(r)
      /\ req'[r].kind = kind /\ req'[r].account = a
      /\ req'[r].token = t /\ req'[r].seen = seen
      /\ \A q \in Requests \ {r} : req'[q] = req[q]
      /\ account' = account /\ invitations' = invitations
  BY <1>1, BeginStep DEF Pcs, IInv, rows
<1>3. /\ account[a] # "absent" => \E i \in Invitation : invitations[a] = {i}
      /\ account[a] = "live" => \A i \in invitations[a] : ~i.deleted
      /\ \A i \in invitations[a] : i.token \in Requests => IsSent(i.token)
  BY DEF IInv, InvitationInv
<1>4. ASSUME IsReader(r)'
      PROVE  ReaderOk(r)'
  <2>1. account[a] = "live" /\ kind \in {"resend", "verify", "delete"}
    BY <1>1, <1>2, <1>4 DEF IsReader
  <2>2. PICK i \in Invitation : invitations[a] = {i} /\ ~i.deleted
    BY <1>3, <2>1
  <2>3. Visible(a) = {i}
    BY <2>2 DEF Visible, Active
  <2>4. kind = "resend" => t # r
    BY <1>1, <1>2, <1>3, <2>2, <2>3
  <2>5. kind = "verify" => t = i.token /\ seen = {i}
    BY <1>1, <2>3
  <2>6. kind = "verify" => HasToken(a, t)'
    BY <1>2, <2>2, <2>5 DEF HasToken
  <2>7. QED
    BY <1>2, <2>1, <2>2, <2>4, <2>5, <2>6 DEF ReaderOk, HasToken
<1>5. ASSUME NEW q \in Requests \ {r}, IsReader(q)'
      PROVE  ReaderOk(q)'
  <2>1. IsReader(q) /\ req'[q] = req[q]
    BY <1>2, <1>5 DEF IsReader, IsSent
  <2>2. ReaderOk(q)
    BY <2>1 DEF IInv, ReaderInv
  <2>3. QED
    BY <1>2, <2>1, <2>2 DEF ReaderOk, HasToken
<1>6. QED
  BY <1>4, <1>5 DEF ReaderInv

(* What a request has read stays true while others go on.                  *)
LEMMA ReaderAtMove ==
  ASSUME IInv, NEW r \in Requests, Proceed(r) \/ Fail(r)
  PROVE  ReaderInv'
<1>1. /\ IsSent(r) /\ Same(r)
      /\ \A q \in Requests \ {r} : req'[q] = req[q]
      /\ \A q \in Requests : IsSent(q)' <=> IsSent(q)
  BY MoveStep, GotoStep DEF IInv
<1>2. ASSUME NEW q \in Requests, IsReader(q)'
      PROVE  ReaderOk(q)'
  <2>1. /\ IsReader(q)
        /\ req'[q].kind = req[q].kind
        /\ req'[q].account = req[q].account
        /\ req'[q].token = req[q].token
        /\ req'[q].seen = req[q].seen
    BY <1>1, <1>2 DEF IsReader, Same
  <2>2. ReaderOk(q) /\ req[q].account \in Accounts
    BY <2>1, SentRecord DEF IInv, ReaderInv, IsReader
  <2>3. account'[req[q].account] # "absent"
    BY <2>2, Monotone DEF ReaderOk, Next
  <2>4. req[q].kind = "verify" => HasToken(req[q].account, req[q].token)'
    <3>1. SUFFICES ASSUME req[q].kind = "verify"
                   PROVE  \A i \in invitations'[req[q].account] : i.token = req[q].token
      BY <2>1 DEF HasToken
    <3>2. \A t : \A a \in Accounts : account[a] # "absent" /\ HasToken(a, t) => HasToken(a, t)'
      BY TokenStays
    <3>3. QED
      BY <2>2, <3>1, <3>2 DEF ReaderOk, HasToken
  <2>5. QED
    BY <2>1, <2>2, <2>3, <2>4 DEF ReaderOk, HasToken
<1>3. QED
  BY <1>2 DEF ReaderInv

(* Every step keeps what requests have read.                               *)
LEMMA ReaderStep ==
  ASSUME IInv, [Next]_vars
  PROVE  ReaderInv'
<1>1. CASE (\E a \in Accounts : SignIn(a)) \/ UNCHANGED vars
  <2>1. UNCHANGED <<req, account, invitations>>
    BY <1>1 DEF SignIn, vars, rows
  <2>2. QED
    BY <2>1 DEF IInv, ReaderInv, ReaderOk, IsReader, IsSent, HasToken
<1>2. QED
  BY <1>1, ReaderAtStart, ReaderAtMove DEF Next
-----------------------------------------------------------------------------
(* A request that starts has made no change in Cognito, and starts a       *)
(* verification before its first call.                                     *)
LEMMA LoginAtStart ==
  ASSUME IInv, NEW r \in Requests, Start(r)
  PROVE  EffectInv' /\ LoginInv'
<1>1. PICK kind \in Kinds, pc \in {"read", "written"}, b \in Accounts,
           t \in Tokens, seen \in SUBSET Invitation :
        /\ Begin(r, kind, pc, b, t, seen)
        /\ kind = "verify" => pc = "read"
  BY StartStep DEF IInv
<1>2. /\ ~IsSent(r)
      /\ req'[r].kind = kind /\ req'[r].pc = pc
      /\ \A q \in Requests \ {r} : req'[q] = req[q]
      /\ effects' = effects /\ login' = login /\ invitations' = invitations
  BY <1>1, BeginStep DEF Pcs, IInv, rows, outside
<1>3. effects \subseteq Requests \ {r}
  BY <1>2 DEF IInv, TypeOK, EffectInv
<1>4. EffectInv'
  BY <1>2, <1>3 DEF IInv, EffectInv, IsSent
<1>5. ASSUME NEW a \in Accounts, Untouched(a)'
      PROVE  /\ \A q \in Requests : IsVerify(q, a)' => VerifyOk(q, a)'
             /\ UsedOk(a)'
  <2>1. Untouched(a)
    BY <1>2, <1>3, <1>5 DEF Untouched
  <2>2. /\ \A q \in Requests : IsVerify(q, a) => VerifyOk(q, a)
        /\ UsedOk(a)
    BY <2>1 DEF IInv, LoginInv
  <2>3. ASSUME IsVerify(r, a)'
        PROVE  VerifyOk(r, a)'
    BY <1>1, <1>2, <1>3, <2>3 DEF IsVerify, VerifyOk
  <2>4. ASSUME NEW q \in Requests \ {r}, IsVerify(q, a)'
        PROVE  VerifyOk(q, a)'
    BY <1>2, <2>2, <2>4 DEF IsVerify, VerifyOk, IsSent, HasPassword, IsPermanent
  <2>5. \A q \in Requests : IsRedeemer(q, a) => IsRedeemer(q, a)'
    BY <1>2 DEF IsRedeemer, IsVerify, IsSent
  <2>6. UsedOk(a)'
    BY <1>2, <2>2, <2>5 DEF UsedOk, IsUsed
  <2>7. QED
    BY <2>3, <2>4, <2>6
<1>6. QED
  BY <1>4, <1>5 DEF LoginInv

(* An invitation becomes used by the commit of a verification only.        *)
LEMMA UsedByVerify ==
  ASSUME IInv, NEW r \in Requests, Proceed(r) \/ Fail(r),
         NEW a \in Accounts, IsUsed(a)'
  PROVE  IsUsed(a) \/ IsRedeemer(r, a)'
<1>1. CASE ~Commit(r)
  BY <1>1, RowsFrame DEF rows, IsUsed
<1>2. CASE Commit(r) /\ req[r].account # a
  BY <1>2, AccountAtCommit DEF IsUsed
<1>3. CASE Commit(r) /\ req[r].account = a
  <2>1. IsSent(r) /\ invitations'[a] = InvitationsAfter(r)
    BY <1>3, AccountAtCommit
  <2>2. IsSent(r)' /\ Same(r) /\ req'[r].pc = "committed"
    BY <1>3, <2>1, GotoStep DEF IInv, Commit, Pcs
  <2>3. CASE req[r].kind = "create"
    <3>1. InvitationsAfter(r) = {[token |-> r, isValid |-> TRUE, deleted |-> FALSE]}
      BY <1>3, <2>1, <2>3, CommitInvitation
    <3>2. QED
      BY <2>1, <3>1 DEF IsUsed
  <2>4. CASE req[r].kind = "verify"
    BY <1>3, <2>2, <2>4 DEF IsRedeemer, IsVerify, Same
  <2>5. CASE req[r].kind = "delete"
    <3>1. PICK i \in Invitation, j \in Invitation :
             /\ invitations[a] = {i}
             /\ InvitationsAfter(r) = {j}
             /\ j.isValid = i.isValid
      BY <1>3, <2>1, <2>5, CommitInvitation
    <3>2. QED
      BY <2>1, <3>1 DEF IsUsed
  <2>6. CASE req[r].kind \in {"resend", "rename"}
    BY <1>3, <2>1, <2>6, CommitInvitation DEF IsUsed
  <2>7. QED
    BY <2>1, <2>3, <2>4, <2>5, <2>6, SentRecord DEF IInv, Kinds
<1>4. QED
  BY <1>1, <1>2, <1>3

(* The Cognito calls that succeed; every other step changes no login.      *)
UserMade(r) == /\ At(r, "verify", "read")
               /\ login[req[r].account] = NoLogin
               /\ login' = [login EXCEPT ![req[r].account] =
                              [permanent |-> FALSE, password |-> r]]
               /\ effects' = effects \cup {r}
               /\ Goto(r, "userCreated")

PasswordSet(r) == /\ At(r, "verify", "userCreated")
                  /\ login' = [login EXCEPT ![req[r].account] =
                                 [permanent |-> TRUE, password |-> r]]
                  /\ effects' = effects
                  /\ Goto(r, "passwordSet")

UserGone(r) == /\ At(r, "delete", "accountDeleted")
               /\ login' = [login EXCEPT ![req[r].account] = NoLogin]
               /\ effects' = effects \cup {r}
               /\ Goto(r, "ready")

Quiet(r) == /\ login' = login /\ effects' = effects
            /\ \/ Goto(r, "failed")
               \/ req[r].kind # "verify"
               \/ req[r].pc \in {"passwordSet", "ready"}

LEMMA LoginCases ==
  ASSUME NEW r \in Requests, Proceed(r) \/ Fail(r)
  PROVE  UserMade(r) \/ PasswordSet(r) \/ UserGone(r) \/ Quiet(r)
<1>1. CASE Fail(r)
  BY <1>1 DEF Fail, Throw, Quiet, outside
<1>2. CASE Mail(r) \/ RenameWrite(r) \/ DeletePerson(r) \/ DeleteAccount(r)
  BY <1>2 DEF Mail, RenameWrite, DeletePerson, DeleteAccount, At, Quiet, outside
<1>3. CASE VerifyRevoke(r) \/ Commit(r)
  BY <1>3 DEF VerifyRevoke, Commit, At, Quiet, outside
<1>4. CASE VerifyCreateUser(r)
  BY <1>4 DEF VerifyCreateUser, UserMade, Throw, Quiet
<1>5. CASE VerifySetPassword(r)
  BY <1>5 DEF VerifySetPassword, PasswordSet, Throw, Quiet
<1>6. CASE DeleteUser(r)
  BY <1>6 DEF DeleteUser, UserGone, Throw, Quiet
<1>7. QED
  BY <1>1, <1>2, <1>3, <1>4, <1>5, <1>6 DEF Proceed

(* What every move leaves alone.                                           *)
LEMMA LoginFrame ==
  ASSUME IInv, NEW r \in Requests, Proceed(r) \/ Fail(r)
  PROVE  /\ IsSent(r) /\ req[r].account \in Accounts
         /\ \A q \in Requests \ {r} : req'[q] = req[q]
         /\ \A q \in Requests, a \in Accounts : IsVerify(q, a)' <=> IsVerify(q, a)
         /\ \A q \in Requests, a \in Accounts : IsRedeemer(q, a) => IsRedeemer(q, a)'
         /\ \A a \in Accounts : Untouched(a)' => Untouched(a)
         /\ effects \subseteq effects'
         /\ effects' \subseteq effects \cup {r}
<1>1. /\ IsSent(r) /\ Same(r)
      /\ \A q \in Requests \ {r} : req'[q] = req[q]
      /\ \A q \in Requests : IsSent(q)' <=> IsSent(q)
  BY MoveStep, GotoStep DEF IInv
<1>2. req[r].account \in Accounts
  BY <1>1, SentRecord DEF IInv
<1>3. \A q \in Requests : /\ req'[q].kind = req[q].kind
                          /\ req'[q].account = req[q].account
  BY <1>1 DEF Same
<1>4. \A q \in Requests, a \in Accounts : IsVerify(q, a)' <=> IsVerify(q, a)
  BY <1>1, <1>3 DEF IsVerify
<1>5. \A q \in Requests, a \in Accounts : IsRedeemer(q, a) => IsRedeemer(q, a)'
  BY <1>1, <1>4, MovePending DEF IsRedeemer, Pending
<1>6. effects \subseteq effects' /\ effects' \subseteq effects \cup {r}
  BY LoginCases DEF UserMade, PasswordSet, UserGone, Quiet
<1>7. \A a \in Accounts : Untouched(a)' => Untouched(a)
  BY <1>3, <1>6 DEF Untouched, IInv, TypeOK
<1>8. QED
  BY <1>1, <1>2, <1>4, <1>5, <1>6, <1>7

(* No user in Cognito is no user.                                          *)
LEMMA NoLoginIsNone ==
  ASSUME NEW p \in BOOLEAN, NEW t \in Tokens
  PROVE  [permanent |-> p, password |-> t] # NoLogin
<1>1. [permanent |-> p, password |-> t] \in
        [permanent: BOOLEAN, password: Accounts \cup Requests]
  BY DEF Tokens
<1>2. QED
  BY <1>1, MarkerAssumption DEF MarkerAssumption

(* The steps keep verifications and logins together.                       *)
LEMMA LoginAtMove ==
  ASSUME IInv, NEW r \in Requests, Proceed(r) \/ Fail(r),
         NEW a \in Accounts, Untouched(a)'
  PROVE  /\ \A q \in Requests : IsVerify(q, a)' => VerifyOk(q, a)'
         /\ UsedOk(a)'
<1> DEFINE b == req[r].account
<1>1. /\ IsSent(r) /\ b \in Accounts
      /\ \A q \in Requests \ {r} : req'[q] = req[q]
      /\ \A q \in Requests : IsVerify(q, a)' <=> IsVerify(q, a)
      /\ \A q \in Requests : IsRedeemer(q, a) => IsRedeemer(q, a)'
      /\ Untouched(a)
  BY LoginFrame
<1>2. /\ \A q \in Requests : IsVerify(q, a) => VerifyOk(q, a)
      /\ UsedOk(a)
  BY <1>1 DEF IInv, LoginInv
<1>3. IsUsed(a)' => IsUsed(a) \/ IsRedeemer(r, a)'
  BY UsedByVerify
<1>4. login \in [Accounts -> Logins \cup {NoLogin}]
  BY DEF IInv, TypeOK
<1>5. CASE Quiet(r)
  <2>1. ASSUME NEW q \in Requests, IsVerify(q, a)'
        PROVE  VerifyOk(q, a)'
    <3>1. IsVerify(q, a) /\ VerifyOk(q, a)
      BY <1>1, <1>2, <2>1
    <3>2. CASE q # r
      BY <1>1, <1>5, <3>1, <3>2 DEF VerifyOk, Quiet, HasPassword, IsPermanent
    <3>3. CASE q = r /\ Goto(r, "failed")
      <4>1. req'[r].pc = "failed"
        BY <1>1, <3>3, GotoStep DEF IInv, Pcs
      <4>2. QED
        BY <1>5, <3>1, <3>3, <4>1 DEF VerifyOk, Quiet, HasPassword, IsPermanent
    <3>4. CASE q = r /\ req[r].pc \in {"passwordSet", "ready"}
      BY <1>5, <3>1, <3>4 DEF VerifyOk, Quiet, HasPassword, IsPermanent
    <3>5. QED
      BY <1>5, <3>1, <3>2, <3>3, <3>4 DEF Quiet, IsVerify
  <2>2. UsedOk(a)'
    BY <1>1, <1>2, <1>3, <1>5 DEF UsedOk, Quiet
  <2>3. QED
    BY <2>1, <2>2
<1>6. CASE b # a /\ ~Quiet(r)
  <2>1. login'[a] = login[a]
    BY <1>4, <1>6, LoginCases DEF UserMade, PasswordSet, UserGone
  <2>2. ~IsVerify(r, a)
    BY <1>6 DEF IsVerify
  <2>3. ASSUME NEW q \in Requests, IsVerify(q, a)'
        PROVE  VerifyOk(q, a)'
    <3>1. q # r /\ VerifyOk(q, a) /\ req'[q] = req[q]
      BY <1>1, <1>2, <2>2, <2>3
    <3>2. q \in effects' <=> q \in effects
      BY <3>1, LoginFrame
    <3>3. QED
      BY <2>1, <3>1, <3>2 DEF VerifyOk, HasPassword, IsPermanent
  <2>4. UsedOk(a)'
    <3>1. ~IsRedeemer(r, a)'
      BY <1>1, <2>2 DEF IsRedeemer
    <3>2. QED
      BY <1>1, <1>2, <1>3, <2>1, <3>1 DEF UsedOk
  <2>5. QED
    BY <2>3, <2>4
<1>7. CASE b = a /\ UserMade(r)
  <2> DEFINE new == [permanent |-> FALSE, password |-> r]
  <2>1. login[a] = NoLogin /\ login'[a] = new
    BY <1>1, <1>4, <1>7 DEF UserMade
  <2>2. new # NoLogin /\ new.password = r
    BY NoLoginIsNone DEF Tokens
  <2> HIDE DEF new
  <2>3. req'[r].pc = "userCreated"
    BY <1>1, <1>7, GotoStep DEF IInv, UserMade, Pcs
  <2>4. \A q \in Requests : IsVerify(q, a) =>
           /\ q \notin effects
           /\ req[q].pc \notin {"userCreated", "passwordSet", "ready", "committed"}
    BY <1>2, <2>1 DEF VerifyOk, HasPassword
  <2>5. ASSUME NEW q \in Requests, IsVerify(q, a)'
        PROVE  VerifyOk(q, a)'
    <3>1. CASE q = r
      BY <1>7, <2>1, <2>2, <2>3, <3>1 DEF VerifyOk, HasPassword, IsPermanent, UserMade
    <3>2. CASE q # r
      BY <1>1, <1>7, <2>4, <2>5, <3>2 DEF VerifyOk, UserMade
    <3>3. QED
      BY <3>1, <3>2
  <2>6. ~IsUsed(a)
    <3>1. ~\E q \in Requests : IsRedeemer(q, a)
      BY <2>4 DEF IsRedeemer
    <3>2. login[a] # [permanent |-> TRUE, password |-> a]
      BY <2>1, NoLoginIsNone DEF Tokens
    <3>3. QED
      BY <1>2, <3>1, <3>2 DEF UsedOk
  <2>7. ~IsRedeemer(r, a)'
    BY <2>3 DEF IsRedeemer
  <2>8. QED
    BY <1>3, <2>5, <2>6, <2>7 DEF UsedOk
<1>8. CASE b = a /\ PasswordSet(r)
  <2> DEFINE new == [permanent |-> TRUE, password |-> r]
  <2>1. login'[a] = new
    BY <1>1, <1>4, <1>8 DEF PasswordSet
  <2>2. new # NoLogin /\ new.password = r /\ new.permanent
    BY NoLoginIsNone DEF Tokens
  <2> HIDE DEF new
  <2>3. req'[r].pc = "passwordSet"
    BY <1>1, <1>8, GotoStep DEF IInv, PasswordSet, Pcs
  <2>4. IsVerify(r, a) /\ req[r].pc = "userCreated"
    BY <1>8 DEF PasswordSet, At, IsVerify, IsSent
  <2>5. r \in effects /\ login[a] # NoLogin /\ login[a].password = r
    BY <1>2, <2>4 DEF VerifyOk, HasPassword
  <2>6. ASSUME NEW q \in Requests, IsVerify(q, a)'
        PROVE  VerifyOk(q, a)'
    <3>1. VerifyOk(q, a)
      BY <1>1, <1>2, <2>6
    <3>2. CASE q = r
      BY <1>8, <2>1, <2>2, <2>5, <3>2 DEF VerifyOk, HasPassword, IsPermanent, PasswordSet
    <3>3. CASE q # r
      <4>1. q \notin effects
        BY <2>5, <3>1, <3>3 DEF VerifyOk, HasPassword
      <4>2. req[q].pc \notin {"userCreated", "passwordSet", "ready", "committed"}
        BY <3>1, <4>1 DEF VerifyOk
      <4>3. QED
        BY <1>1, <1>8, <3>3, <4>1, <4>2 DEF VerifyOk, PasswordSet
    <3>4. QED
      BY <3>2, <3>3
  <2>7. UsedOk(a)'
    <3>1. login[a] # [permanent |-> TRUE, password |-> a]
      BY <2>5, DisjointAssumption DEF DisjointAssumption
    <3>2. IsUsed(a) => \E q \in Requests : IsRedeemer(q, a)
      BY <1>2, <3>1 DEF UsedOk
    <3>3. QED
      BY <1>1, <1>3, <3>2 DEF UsedOk
  <2>8. QED
    BY <2>6, <2>7
<1>9. CASE b = a /\ UserGone(r)
  BY <1>9, GotoStep, LoginFrame DEF UserGone, Untouched, At, Same, IInv, Pcs
<1>10. QED
  BY <1>5, <1>6, <1>7, <1>8, <1>9, LoginCases

(* Every step keeps the logins in order.                                   *)
LEMMA LoginStep ==
  ASSUME IInv, [Next]_vars
  PROVE  EffectInv' /\ LoginInv'
<1>1. ASSUME NEW r \in Requests, Proceed(r) \/ Fail(r)
      PROVE  EffectInv' /\ LoginInv'
  <2>1. /\ \A q \in Requests : IsSent(q) => IsSent(q)'
        /\ IsSent(r) /\ effects' \subseteq effects \cup {r}
        /\ effects \subseteq Requests
    BY <1>1, LoginFrame, Monotone DEF Next, IInv, TypeOK
  <2>2. EffectInv'
    BY <2>1 DEF IInv, EffectInv, IsSent
  <2>3. LoginInv'
    BY <1>1, LoginAtMove DEF LoginInv
  <2>4. QED
    BY <2>2, <2>3
<1>2. CASE (\E a \in Accounts : SignIn(a)) \/ UNCHANGED vars
  <2>1. UNCHANGED <<req, effects, login, invitations>>
    BY <1>2 DEF SignIn, vars, rows
  <2>2. QED
    BY <2>1 DEF IInv, EffectInv, LoginInv, Untouched, VerifyOk, UsedOk, IsUsed,
       IsVerify, IsRedeemer, IsSent, HasPassword, IsPermanent
<1>3. QED
  BY <1>1, <1>2, LoginAtStart DEF Next
-----------------------------------------------------------------------------
(* The initial states satisfy the invariant.                               *)
LEMMA InvInit == Init => IInv
<1> SUFFICES ASSUME NEW start, start \subseteq Founders \cup Invited,
                    Init, StartWith(start)
             PROVE  IInv
  BY DEF Init
<1>1. TypeOK
  BY TypeInit
<1>2. \A r \in Requests : ~IsSent(r)
  BY DEF StartWith, IsSent
<1>3. CreateInv /\ ReaderInv /\ EffectInv
  BY <1>2 DEF StartWith, CreateInv, ReaderInv, EffectInv, IsCreate, IsReader
<1>4. ASSUME NEW a \in Accounts
      PROVE  /\ PastInvitation(a) \in Invitation
             /\ PastInvitation(a).token = a
             /\ ~PastInvitation(a).deleted
             /\ PastInvitation(a).isValid <=> a \notin Founders
  BY DEF PastInvitation, Invitation, Tokens
<1>5. ASSUME NEW a \in Accounts
      PROVE  \/ /\ a \notin start
                /\ account[a] = "absent"
                /\ invitations[a] = {}
             \/ /\ a \in start
                /\ account[a] = "live"
                /\ invitations[a] = {PastInvitation(a)}
  BY DEF StartWith
<1>6. InvitationInv
  <2>1. mailed = start
    BY DEF StartWith
  <2>2. QED
    BY <1>4, <1>5, <2>1, DisjointAssumption DEF InvitationInv, DisjointAssumption
<1>7. LoginInv
  <2>1. \A a \in start \cap Founders : login[a] = [permanent |-> TRUE, password |-> a]
    BY StartAssumption DEF StartWith, StartAssumption
  <2>2. \A a \in Accounts : IsUsed(a) => a \in start \cap Founders
    BY <1>4, <1>5 DEF IsUsed
  <2>3. QED
    BY <1>2, <2>1, <2>2 DEF LoginInv, UsedOk, IsVerify
<1>8. QED
  BY <1>1, <1>3, <1>6, <1>7 DEF IInv

(* The inductive invariant.                                                *)
THEOREM InductiveInvariant == Spec => []IInv
<1>1. IInv /\ [Next]_vars => IInv'
  BY TypeStep, InvitationStep, CreateStep, ReaderStep, LoginStep DEF IInv
<1>2. QED
  BY InvInit, <1>1, PTL DEF Spec

(* No interleaving of creations, e-mails, verifications and deletions      *)
(* gives an account in the database two invitations or none.               *)
THEOREM OneInvitation == Spec => []OneInvitationEach
<1>1. IInv => OneInvitationEach
  BY DEF IInv, InvitationInv, OneInvitationEach
<1>2. QED
  BY InductiveInvariant, <1>1, PTL

(* No account is committed before the e-mail with its token was sent.      *)
THEOREM EveryoneMailed == Spec => []EveryAccountMailed
<1>1. IInv => EveryAccountMailed
  BY DEF IInv, InvitationInv, EveryAccountMailed
<1>2. QED
  BY InductiveInvariant, <1>1, PTL

(* Whoever redeemed the invitation of a live account can sign in with the  *)
(* password of that request.                                               *)
THEOREM RedeemerSignsIn == Spec => []RedeemerCanSignIn
<1>1. ASSUME IInv, NEW a \in Accounts, IsUsed(a), RemovedBy(a) = {}
      PROVE  login[a] \in [permanent: {TRUE}, password: Redeemed(a) \cup {a}]
  <2>1. Untouched(a)
    BY <1>1 DEF Untouched, RemovedBy, OfKind, IInv, TypeOK, EffectInv, IsSent
  <2>2. /\ \A r \in Requests : IsVerify(r, a) => VerifyOk(r, a)
        /\ UsedOk(a)
    BY <1>1, <2>1 DEF IInv, LoginInv
  <2>3. CASE login[a] = [permanent |-> TRUE, password |-> a]
    BY <2>3
  <2>4. ASSUME NEW r \in Requests, IsRedeemer(r, a)
        PROVE  login[a] \in [permanent: {TRUE}, password: Redeemed(a) \cup {a}]
    <3>1. r \in Redeemed(a)
      BY <2>4 DEF Redeemed, Committed, OfKind, IsRedeemer, IsVerify, IsSent
    <3>2. login[a] # NoLogin /\ login[a].permanent /\ login[a].password = r
      BY <2>2, <2>4 DEF IsRedeemer, VerifyOk, HasPassword, IsPermanent
    <3>3. login[a] \in [permanent: BOOLEAN, password: Tokens]
      BY <1>1, <3>2 DEF IInv, TypeOK, Logins
    <3>4. QED
      BY <3>1, <3>2, <3>3
  <2>5. QED
    BY <1>1, <2>2, <2>3, <2>4 DEF UsedOk
<1>2. IInv => RedeemerCanSignIn
  BY <1>1 DEF RedeemerCanSignIn, IsUsed
<1>3. QED
  BY InductiveInvariant, <1>2, PTL

(* Without a deletion that reached Cognito, two verifications of a token   *)
(* never both commit.                                                      *)
AtMostOneRedeemer ==
    \A a \in Accounts : RemovedBy(a) = {} =>
        \A q, r \in Requests : q \in Redeemed(a) /\ r \in Redeemed(a) => q = r

THEOREM OneRedeemer == Spec => []AtMostOneRedeemer
<1>1. ASSUME IInv, NEW a \in Accounts, RemovedBy(a) = {},
             NEW q \in Redeemed(a), NEW r \in Redeemed(a)
      PROVE  q = r
  <2>1. Untouched(a)
    BY <1>1 DEF Untouched, RemovedBy, OfKind, IInv, TypeOK, EffectInv, IsSent
  <2>2. \A p \in Redeemed(a) : login[a].password = p
    BY <1>1, <2>1 DEF IInv, LoginInv, Redeemed, Committed, OfKind, IsVerify, IsSent,
       VerifyOk, HasPassword
  <2>3. QED
    BY <2>2
<1>2. IInv => AtMostOneRedeemer
  BY <1>1 DEF AtMostOneRedeemer
<1>3. QED
  BY InductiveInvariant, <1>2, PTL
-----------------------------------------------------------------------------
(* Which request r of which kind is about account a.                       *)
Is(r, kind, a) == IsSent(r) /\ req[r].kind = kind /\ req[r].account = a

IsDone(r, kind, a) == Is(r, kind, a) /\ req[r].pc = "committed"

(* What a request knows to be committed is.                                *)
DoneOk(q) == \A r \in req[q].done : IsSent(r) /\ req[r].pc = "committed"

DoneInv == \A q \in Requests : IsSent(q) => DoneOk(q)

(* A deletion is for good, and so is the use of an invitation.             *)
DeletedInv == \A a \in Accounts :
    account[a] = "deleted" <=> \E d \in Requests : IsDone(d, "delete", a)

UsedInv == \A a \in Accounts :
    \A r \in Requests : IsDone(r, "verify", a) => IsUsed(a)

(* Whose password the user of an account has.                              *)
VerifierInv == \A r \in Requests :
    /\ IsSent(r) /\ req[r].kind = "verify"
    /\ req[r].pc \in {"userCreated", "passwordSet", "ready", "committed"}
    => r \in effects

OwnerInv == \A a \in Accounts : login[a] # NoLogin =>
    \/ login[a].password = a /\ IsUsed(a)
    \/ /\ login[a].password \in effects
       /\ Is(login[a].password, "verify", a)

(* A deletion that read a used invitation deletes the login that was there *)
(* then.                                                                   *)
Knew(d, a) == login[a].password = a \/ login[a].password \in req[d].done

DeleteOk(d, a) ==
    /\ \A i \in invitations[a] : i.token \in {j.token : j \in req[d].seen}
    /\ (\E r \in req[d].done : Is(r, "verify", a)) => HasLogin(req[d].seen)
    /\ login[a] # NoLogin /\ login[a].password = a => HasLogin(req[d].seen)
    /\ HasLogin(req[d].seen) /\ req[d].pc \in {"ready", "committed"} => d \in effects
    /\ d \in effects /\ login[a] # NoLogin => ~Knew(d, a)

DeleteInv == \A a \in Accounts : \A d \in Requests :
    Is(d, "delete", a) => DeleteOk(d, a)

(* Who brings a person or an invitation back.                              *)
Overlaps(r, a) == \E d \in Requests : IsDone(d, "delete", a) /\ d \notin req[r].done

Revived(a, kind) == \E r \in Requests : IsDone(r, kind, a) /\ Overlaps(r, a)

RenameInv == \A a \in Accounts : \A r \in Requests :
    Is(r, "rename", a) /\ (\E d \in req[r].done : Is(d, "delete", a))
        => Revived(a, "rename")

VerifyInv == \A a \in Accounts : \A r \in Requests :
    Is(r, "verify", a) => \A d \in req[r].done : ~Is(d, "delete", a)

PersonInv == \A a \in Accounts :
    account[a] = "deleted" /\ person[a] # "deleted" => Revived(a, "rename")

VisibleInv == \A a \in Accounts :
    account[a] = "deleted" /\ Visible(a) # {} => Revived(a, "verify")

HInv == /\ DoneInv /\ DeletedInv /\ UsedInv /\ VerifierInv /\ OwnerInv /\ DeleteInv
        /\ RenameInv /\ VerifyInv /\ PersonInv /\ VisibleInv
-----------------------------------------------------------------------------
(* A request that starts: what it reads and what it knows to be committed. *)
LEMMA StartView ==
  ASSUME IInv, NEW r \in Requests, Start(r)
  PROVE  \E kind \in Kinds, a \in Accounts :
           /\ ~IsSent(r) /\ Is(r, kind, a)'
           /\ req'[r].pc \in {"read", "written"}
           /\ \A q \in Requests \ {r} : req'[q] = req[q]
           /\ \A q \in Requests : q \in req'[r].done <=>
                 IsSent(q) /\ req[q].account = a /\ req[q].pc = "committed"
           /\ kind \in {"resend", "verify", "delete"} => account[a] = "live"
           /\ kind = "rename" => person[a] = "live"
           /\ kind = "verify" => req'[r].pc = "read"
           /\ kind = "delete" => req'[r].seen = Visible(a)
           /\ UNCHANGED <<account, person, invitations, login, effects>>
<1>1. TypeOK
  BY DEF IInv
<1> DEFINE Known(a) == UNION {Committed(a, k) : k \in Kinds}
<1>2. ASSUME NEW kind \in Kinds, NEW pc \in Pcs, NEW a \in Accounts, NEW t \in Tokens,
             NEW seen \in SUBSET Invitation, Begin(r, kind, pc, a, t, seen)
      PROVE  /\ ~IsSent(r) /\ Is(r, kind, a)'
             /\ req'[r].pc = pc /\ req'[r].seen = seen
             /\ \A q \in Requests \ {r} : req'[q] = req[q]
             /\ \A q \in Requests : q \in req'[r].done <=>
                   IsSent(q) /\ req[q].account = a /\ req[q].pc = "committed"
             /\ UNCHANGED <<account, person, invitations, login, effects>>
  <2>1. /\ ~IsSent(r) /\ IsSent(r)'
        /\ req'[r].kind = kind /\ req'[r].pc = pc /\ req'[r].account = a
        /\ req'[r].seen = seen
        /\ \A q \in Requests \ {r} : req'[q] = req[q]
        /\ UNCHANGED <<rows, locks, outside>>
    BY <1>1, <1>2, BeginStep
  <2>2. req'[r].done = Known(a)
    BY <1>1, <1>2 DEF Begin, TypeOK
  <2>3. \A q \in Requests : q \in Known(a) <=>
           IsSent(q) /\ req[q].account = a /\ req[q].pc = "committed"
    BY <1>1, SentRecord DEF Committed, OfKind, IsSent
  <2> HIDE DEF Known
  <2>4. QED
    BY <2>1, <2>2, <2>3 DEF Is, rows, outside
<1>3. PICK a \in Accounts : \/ Create(r, a)
                            \/ Resend(r, a)
                            \/ VerifyRead(r, a)
                            \/ RenameRead(r, a)
                            \/ DeleteRead(r, a)
  BY DEF Start
<1>4. /\ Visible(a) \in SUBSET Invitation
      /\ \A i \in Visible(a) : i.token \in Tokens /\ {i} \in SUBSET Invitation
      /\ r \in Tokens
      /\ {} \in SUBSET Invitation
      /\ {"read", "written"} \subseteq Pcs
      /\ {"create", "resend", "verify", "rename", "delete"} \subseteq Kinds
  BY <1>1 DEF TypeOK, Visible, Invitation, Tokens, Kinds, Pcs
<1>5. CASE Create(r, a)
  BY <1>2, <1>4, <1>5 DEF Create
<1>6. CASE Resend(r, a)
  BY <1>2, <1>4, <1>6 DEF Resend
<1>7. CASE VerifyRead(r, a)
  <2>1. PICK i \in Visible(a) : Begin(r, "verify", "read", a, i.token, {i})
    BY <1>7 DEF VerifyRead
  <2>2. account[a] = "live"
    BY <1>7 DEF VerifyRead
  <2>3. QED
    BY <1>2, <1>4, <2>1, <2>2
<1>8. CASE RenameRead(r, a)
  BY <1>2, <1>4, <1>8 DEF RenameRead
<1>9. CASE DeleteRead(r, a)
  BY <1>2, <1>4, <1>9 DEF DeleteRead
<1>10. QED
  BY <1>3, <1>5, <1>6, <1>7, <1>8, <1>9

(* A request that goes on or fails: what stays of all requests.            *)
LEMMA MoveView ==
  ASSUME IInv, NEW r \in Requests, Proceed(r) \/ Fail(r)
  PROVE  /\ IsSent(r) /\ req[r].account \in Accounts /\ Pending(r)
         /\ \A q \in Requests \ {r} : req'[q] = req[q]
         /\ \A q \in Requests : /\ IsSent(q)' <=> IsSent(q)
                                /\ req'[q].kind = req[q].kind
                                /\ req'[q].account = req[q].account
                                /\ req'[q].seen = req[q].seen
                                /\ req'[q].done = req[q].done
         /\ \A q \in Requests, kind \in Kinds, a \in Accounts :
               /\ Is(q, kind, a)' <=> Is(q, kind, a)
               /\ IsDone(q, kind, a) => IsDone(q, kind, a)'
               /\ IsDone(q, kind, a)' => IsDone(q, kind, a) \/ (q = r /\ Commit(r))
         /\ Commit(r) => req'[r].pc = "committed"
         /\ effects \subseteq effects' /\ effects' \subseteq effects \cup {r}
<1>1. /\ IsSent(r) /\ Same(r)
      /\ \A q \in Requests \ {r} : req'[q] = req[q]
      /\ \A q \in Requests : IsSent(q)' <=> IsSent(q)
  BY MoveStep, GotoStep DEF IInv
<1>2. req[r].account \in Accounts /\ Pending(r)
  BY <1>1, SentRecord, MovePending DEF IInv
<1>3. effects \subseteq effects' /\ effects' \subseteq effects \cup {r}
  BY LoginFrame
<1>4. \A q \in Requests : /\ req'[q].kind = req[q].kind
                          /\ req'[q].account = req[q].account
                          /\ req'[q].seen = req[q].seen
                          /\ req'[q].done = req[q].done
  BY <1>1 DEF Same
<1>5. Commit(r) => req'[r].pc = "committed"
  BY <1>1, GotoStep DEF Commit, IInv, Pcs
<1>6. req'[r].pc = "committed" => Commit(r)
  BY <1>1, GotoStep DEF Proceed, Fail, Throw, Mail, VerifyCreateUser, VerifySetPassword,
     VerifyRevoke, RenameWrite, DeletePerson, DeleteAccount, DeleteUser, IInv, Pcs
<1>7. ASSUME NEW q \in Requests, NEW kind \in Kinds, NEW a \in Accounts
      PROVE  /\ Is(q, kind, a)' <=> Is(q, kind, a)
             /\ IsDone(q, kind, a) => IsDone(q, kind, a)'
             /\ IsDone(q, kind, a)' => IsDone(q, kind, a) \/ (q = r /\ Commit(r))
  BY <1>1, <1>2, <1>4, <1>6 DEF Is, IsDone, Pending
<1>8. QED
  BY <1>1, <1>2, <1>3, <1>4, <1>5, <1>7

(* Nothing is started, moved or written.                                   *)
LEMMA StillView ==
  ASSUME (\E a \in Accounts : SignIn(a)) \/ UNCHANGED vars
  PROVE  UNCHANGED <<account, person, invitations, login, effects, req>>
  BY DEF SignIn, vars, rows
-----------------------------------------------------------------------------
(* What somebody knows to be committed stays so.                           *)
LEMMA DoneStep ==
  ASSUME IInv, DoneInv, [Next]_vars
  PROVE  DoneInv'
<1>1. ASSUME NEW r \in Requests, Start(r)
      PROVE  DoneInv'
  <2>1. PICK kind \in Kinds, a \in Accounts :
           /\ ~IsSent(r)
           /\ \A q \in Requests \ {r} : req'[q] = req[q]
           /\ \A q \in Requests : q \in req'[r].done <=>
                 IsSent(q) /\ req[q].account = a /\ req[q].pc = "committed"
    BY <1>1, StartView
  <2>2. TypeOK'
    BY <1>1, TypeStep DEF IInv, Next
  <2>3. ASSUME NEW q \in Requests, IsSent(q)'
        PROVE  DoneOk(q)'
    <3>1. req'[q].done \subseteq Requests
      BY <2>2, <2>3 DEF TypeOK, IsSent, Sent
    <3>2. ASSUME NEW p \in req'[q].done
          PROVE  IsSent(p) /\ req[p].pc = "committed" /\ p # r
      BY <2>1, <2>3, <3>1, <3>2 DEF DoneInv, DoneOk, IsSent
    <3>3. QED
      BY <2>1, <3>1, <3>2 DEF DoneOk, IsSent
  <2>4. QED
    BY <2>3 DEF DoneInv
<1>2. ASSUME NEW r \in Requests, Proceed(r) \/ Fail(r)
      PROVE  DoneInv'
  <2>1. /\ Pending(r)
        /\ \A q \in Requests \ {r} : req'[q] = req[q]
        /\ \A q \in Requests : /\ IsSent(q)' <=> IsSent(q)
                               /\ req'[q].done = req[q].done
    BY <1>2, MoveView
  <2>2. \A q \in Requests : IsSent(q) => req[q].done \subseteq Requests
    BY SentRecord DEF IInv
  <2>3. ASSUME NEW q \in Requests, IsSent(q)', NEW p \in req'[q].done
        PROVE  IsSent(p)' /\ req'[p].pc = "committed"
    <3>1. p \in Requests /\ IsSent(p) /\ req[p].pc = "committed"
      BY <2>1, <2>2, <2>3 DEF DoneInv, DoneOk
    <3>2. p # r
      BY <2>1, <3>1 DEF Pending
    <3>3. QED
      BY <2>1, <3>1, <3>2
  <2>4. QED
    BY <2>3 DEF DoneInv, DoneOk
<1>3. CASE (\E a \in Accounts : SignIn(a)) \/ UNCHANGED vars
  BY <1>3, StillView DEF DoneInv, DoneOk, IsSent
<1>4. QED
  BY <1>1, <1>2, <1>3 DEF Next

(* The row of an account says whether a deletion of it has committed.      *)
LEMMA DeletedStep ==
  ASSUME IInv, DeletedInv, [Next]_vars
  PROVE  DeletedInv'
<1>1. ASSUME NEW r \in Requests, Start(r)
      PROVE  DeletedInv'
  <2>1. /\ ~IsSent(r) /\ account' = account
        /\ req'[r].pc \in {"read", "written"}
        /\ \A q \in Requests \ {r} : req'[q] = req[q]
    BY <1>1, StartView
  <2>2. \A q \in Requests, a \in Accounts : IsDone(q, "delete", a)' <=> IsDone(q, "delete", a)
    BY <2>1 DEF IsDone, Is, IsSent
  <2>3. QED
    BY <2>1, <2>2 DEF DeletedInv
<1>2. ASSUME NEW r \in Requests, Proceed(r) \/ Fail(r)
      PROVE  DeletedInv'
  <2>1. /\ IsSent(r) /\ "delete" \in Kinds
        /\ \A q \in Requests, a \in Accounts :
              /\ IsDone(q, "delete", a) => IsDone(q, "delete", a)'
              /\ IsDone(q, "delete", a)' => IsDone(q, "delete", a) \/ (q = r /\ Commit(r))
    BY <1>2, MoveView DEF Kinds
  <2>2. CASE ~Commit(r)
    BY <1>2, <2>1, <2>2, RowsFrame DEF DeletedInv, rows
  <2>3. CASE Commit(r)
    <3>1. PICK b \in Accounts :
             /\ b = req[r].account /\ account'[b] = AccountAfter(r)
             /\ \A a \in Accounts \ {b} : account'[a] = account[a]
      BY <2>3, AccountAtCommit
    <3>2. IsSent(r)' /\ req'[r].account = b /\ req'[r].kind = req[r].kind
          /\ req'[r].pc = "committed"
      BY <1>2, <2>1, <2>3, <3>1, MoveView
    <3>3. ASSUME NEW a \in Accounts, a # b
          PROVE  account'[a] = "deleted" <=> \E d \in Requests : IsDone(d, "delete", a)'
      BY <2>1, <3>1, <3>2, <3>3 DEF DeletedInv, IsDone, Is
    <3>4. CASE req[r].kind = "delete"
      <4>1. AccountAfter(r) = "deleted"
        BY <3>4 DEF AccountAfter
      <4>2. IsDone(r, "delete", b)'
        BY <3>2, <3>4 DEF IsDone, Is
      <4>3. QED
        BY <3>1, <3>3, <4>1, <4>2 DEF DeletedInv
    <3>5. CASE req[r].kind # "delete"
      <4>1. \A d \in Requests : IsDone(d, "delete", b)' <=> IsDone(d, "delete", b)
        BY <2>1, <3>2, <3>5 DEF IsDone, Is
      <4>2. AccountAfter(r) = "deleted" <=> account[b] = "deleted"
        <5>1. req[r].kind = "create" => account[b] = "absent"
          BY <2>1, <2>3, <3>1, CommitInvitation
        <5>2. QED
          BY <3>1, <3>5, <5>1 DEF AccountAfter
      <4>3. QED
        BY <3>1, <3>3, <4>1, <4>2 DEF DeletedInv
    <3>6. QED
      BY <3>4, <3>5
  <2>4. QED
    BY <2>2, <2>3
<1>3. CASE (\E a \in Accounts : SignIn(a)) \/ UNCHANGED vars
  BY <1>3, StillView DEF DeletedInv, IsDone, Is, IsSent
<1>4. QED
  BY <1>1, <1>2, <1>3 DEF Next

(* A used invitation stays used: deletions keep isValid, and nobody makes  *)
(* another one.                                                            *)
LEMMA UsedStays ==
  ASSUME IInv, [Next]_vars, NEW a \in Accounts, IsUsed(a)
  PROVE  IsUsed(a)'
<1>1. CASE UNCHANGED rows
  BY <1>1 DEF rows, IsUsed
<1>2. ASSUME NEW r \in Requests, Commit(r)
      PROVE  IsUsed(a)'
  <2>1. /\ IsSent(r) /\ req[r].account \in Accounts
        /\ invitations'[req[r].account] = InvitationsAfter(r)
        /\ req[r].account # a => invitations'[a] = invitations[a]
    BY <1>2, AccountAtCommit
  <2>2. CASE req[r].account # a
    BY <2>1, <2>2 DEF IsUsed
  <2>3. CASE req[r].account = a
    <3>1. invitations[a] # {}
      BY DEF IsUsed
    <3>2. account[a] # "absent"
      BY <3>1 DEF IInv, InvitationInv
    <3>3. \/ \E i \in Invitation, j \in Invitation :
                /\ invitations[a] = {i}
                /\ InvitationsAfter(r) = {j}
                /\ ~j.isValid \/ j.isValid = i.isValid
          \/ InvitationsAfter(r) = invitations[a]
      BY <1>2, <2>1, <2>3, <3>2, CommitInvitation
    <3>4. QED
      BY <2>1, <2>3, <3>3 DEF IsUsed
  <2>4. QED
    BY <2>2, <2>3
<1>3. ASSUME NEW r \in Requests, Start(r)
      PROVE  UNCHANGED rows
  BY <1>3, StartView DEF rows
<1>4. QED
  BY <1>1, <1>2, <1>3, RowsFrame DEF Next, SignIn, vars, rows

LEMMA UsedStep ==
  ASSUME IInv, UsedInv, [Next]_vars
  PROVE  UsedInv'
<1>1. ASSUME NEW r \in Requests, Start(r)
      PROVE  UsedInv'
  <2>1. /\ ~IsSent(r) /\ req'[r].pc \in {"read", "written"}
        /\ \A q \in Requests \ {r} : req'[q] = req[q]
    BY <1>1, StartView
  <2>2. \A q \in Requests, a \in Accounts : IsDone(q, "verify", a)' => IsDone(q, "verify", a)
    BY <2>1 DEF IsDone, Is, IsSent
  <2>3. QED
    BY <2>2, UsedStays DEF UsedInv
<1>2. ASSUME NEW r \in Requests, Proceed(r) \/ Fail(r)
      PROVE  UsedInv'
  <2>1. /\ IsSent(r)
        /\ \A q \in Requests, a \in Accounts :
              IsDone(q, "verify", a)' => IsDone(q, "verify", a) \/ (q = r /\ Commit(r))
    BY <1>2, MoveView DEF Kinds
  <2>2. ASSUME Commit(r), NEW a \in Accounts, IsDone(r, "verify", a)'
        PROVE  IsUsed(a)'
    <3>1. req[r].kind = "verify" /\ req[r].account = a
      BY <1>2, <2>2, MoveView DEF IsDone, Is
    <3>2. invitations'[a] = InvitationsAfter(r)
      BY <2>2, <3>1, AccountAtCommit
    <3>3. \E j \in Invitation : InvitationsAfter(r) = {j} /\ ~j.isValid
      BY <2>1, <2>2, <3>1, CommitInvitation
    <3>4. QED
      BY <3>2, <3>3 DEF IsUsed
  <2>3. QED
    BY <1>2, <2>1, <2>2, UsedStays DEF UsedInv
<1>3. CASE (\E a \in Accounts : SignIn(a)) \/ UNCHANGED vars
  BY <1>3, StillView DEF UsedInv, IsDone, Is, IsSent, IsUsed
<1>4. QED
  BY <1>1, <1>2, <1>3 DEF Next
-----------------------------------------------------------------------------
(* A verification past its first call has made a user.                     *)
LEMMA VerifierStep ==
  ASSUME IInv, VerifierInv, [Next]_vars
  PROVE  VerifierInv'
<1>1. ASSUME NEW r \in Requests, Start(r)
      PROVE  VerifierInv'
  <2>1. /\ req'[r].pc \in {"read", "written"} /\ effects' = effects
        /\ \A q \in Requests \ {r} : req'[q] = req[q]
    BY <1>1, StartView
  <2>2. QED
    BY <2>1 DEF VerifierInv, IsSent
<1>2. ASSUME NEW r \in Requests, Proceed(r) \/ Fail(r)
      PROVE  VerifierInv'
  <2>1. /\ IsSent(r) /\ effects \subseteq effects'
        /\ \A q \in Requests \ {r} : req'[q] = req[q]
        /\ req'[r].kind = req[r].kind
    BY <1>2, MoveView
  <2>2. ASSUME req[r].kind = "verify",
               req'[r].pc \in {"userCreated", "passwordSet", "ready", "committed"}
        PROVE  r \in effects'
    <3>1. CASE UserMade(r)
      BY <3>1 DEF UserMade
    <3>2. CASE PasswordSet(r)
      BY <2>1, <2>2, <3>2 DEF PasswordSet, At, VerifierInv
    <3>3. CASE UserGone(r)
      BY <2>2, <3>3 DEF UserGone, At
    <3>4. CASE Quiet(r)
      <4>1. ~Goto(r, "failed")
        BY <2>1, <2>2, GotoStep DEF IInv, Pcs
      <4>2. QED
        BY <2>1, <2>2, <3>4, <4>1 DEF Quiet, VerifierInv
    <3>5. QED
      BY <1>2, <3>1, <3>2, <3>3, <3>4, LoginCases
  <2>3. QED
    BY <2>1, <2>2 DEF VerifierInv, IsSent
<1>3. CASE (\E a \in Accounts : SignIn(a)) \/ UNCHANGED vars
  BY <1>3, StillView DEF VerifierInv, IsSent
<1>4. QED
  BY <1>1, <1>2, <1>3 DEF Next

(* What a step does to the login of a: nothing, or a running verification  *)
(* of a sets its password, or a deletion of a removes it.                  *)
LEMMA LoginChange ==
  ASSUME IInv, VerifierInv, NEW r \in Requests, Proceed(r) \/ Fail(r), NEW a \in Accounts
  PROVE  \/ /\ login'[a] = login[a]
            /\ Is(r, "delete", a) /\ r \in effects' => r \in effects
         \/ /\ Is(r, "verify", a)
            /\ login'[a] # NoLogin /\ login'[a].password = r
            /\ r \in effects'
         \/ login'[a] = NoLogin
<1>1. IsSent(r) /\ req[r].account \in Accounts
  BY MoveView
<1>2. login \in [Accounts -> Logins \cup {NoLogin}]
  BY DEF IInv, TypeOK
<1>3. CASE Quiet(r)
  BY <1>3 DEF Quiet
<1>4. CASE UserMade(r)
  <2> DEFINE new == [permanent |-> FALSE, password |-> r]
  <2>1. new # NoLogin /\ new.password = r
    BY NoLoginIsNone DEF Tokens
  <2>2. login' = [login EXCEPT ![req[r].account] = new]
    BY <1>4 DEF UserMade
  <2> HIDE DEF new
  <2>3. QED
    BY <1>1, <1>2, <1>4, <2>1, <2>2 DEF UserMade, At, Is
<1>5. CASE PasswordSet(r)
  <2> DEFINE new == [permanent |-> TRUE, password |-> r]
  <2>1. new # NoLogin /\ new.password = r
    BY NoLoginIsNone DEF Tokens
  <2>2. login' = [login EXCEPT ![req[r].account] = new]
    BY <1>5 DEF PasswordSet
  <2>3. r \in effects'
    BY <1>1, <1>5 DEF PasswordSet, At, VerifierInv
  <2> HIDE DEF new
  <2>4. QED
    BY <1>1, <1>2, <1>5, <2>1, <2>2, <2>3 DEF PasswordSet, At, Is
<1>6. CASE UserGone(r)
  BY <1>1, <1>2, <1>6 DEF UserGone, Is
<1>7. QED
  BY <1>3, <1>4, <1>5, <1>6, LoginCases

(* Every user in Cognito is a founder's or of a verification.              *)
LEMMA OwnerStep ==
  ASSUME IInv, VerifierInv, OwnerInv, [Next]_vars
  PROVE  OwnerInv'
<1>1. ASSUME NEW r \in Requests, Start(r)
      PROVE  OwnerInv'
  <2>1. /\ ~IsSent(r) /\ UNCHANGED <<invitations, login, effects>>
        /\ \A q \in Requests \ {r} : req'[q] = req[q]
    BY <1>1, StartView
  <2>2. effects \subseteq Requests \ {r}
    BY <2>1 DEF IInv, TypeOK, EffectInv
  <2>3. QED
    BY <2>1, <2>2 DEF OwnerInv, Is, IsSent, IsUsed
<1>2. ASSUME NEW r \in Requests, Proceed(r) \/ Fail(r)
      PROVE  OwnerInv'
  <2>1. ASSUME NEW a \in Accounts, login'[a] # NoLogin
        PROVE  \/ login'[a].password = a /\ IsUsed(a)'
               \/ /\ login'[a].password \in effects'
                  /\ Is(login[a].password, "verify", a)'
    <3>1. /\ effects \subseteq effects' /\ effects \subseteq Requests
          /\ \A q \in Requests : Is(q, "verify", a)' <=> Is(q, "verify", a)
      BY <1>2, MoveView DEF IInv, TypeOK, Kinds
    <3>2. CASE login'[a] = login[a]
      BY <1>2, <2>1, <3>1, <3>2, UsedStays DEF OwnerInv, Is, Next
    <3>3. CASE /\ Is(r, "verify", a)
               /\ login'[a] # NoLogin /\ login'[a].password = r
               /\ r \in effects'
      BY <3>1, <3>3 DEF Is
    <3>4. QED
      BY <1>2, <2>1, <3>2, <3>3, LoginChange
  <2>2. QED
    BY <2>1 DEF OwnerInv
<1>3. CASE (\E a \in Accounts : SignIn(a)) \/ UNCHANGED vars
  BY <1>3, StillView DEF OwnerInv, Is, IsSent, IsUsed
<1>4. QED
  BY <1>1, <1>2, <1>3 DEF Next
-----------------------------------------------------------------------------
(* A deletion that read a used invitation gets past the Cognito call only  *)
(* when the call succeeds.                                                 *)
LEMMA DeletesLogin ==
  ASSUME IInv, NEW r \in Requests, Proceed(r) \/ Fail(r),
         req[r].kind = "delete", HasLogin(req[r].seen),
         req'[r].pc \in {"ready", "committed"}
  PROVE  req[r].pc = "ready" \/ r \in effects'
<1>1. IsSent(r)
  BY MoveView
<1>2. ~Fail(r)
  BY <1>1, GotoStep DEF IInv, Fail, Throw, Pcs
<1>3. ~DeletePerson(r) /\ ~DeleteAccount(r)
  BY <1>1, GotoStep DEF IInv, DeletePerson, DeleteAccount, Pcs
<1>4. CASE DeleteUser(r)
  BY <1>1, <1>4, GotoStep DEF IInv, DeleteUser, Throw, Pcs
<1>5. CASE Commit(r)
  BY <1>5 DEF Commit
<1>6. QED
  BY <1>2, <1>3, <1>4, <1>5 DEF Proceed, Mail, VerifyCreateUser, VerifySetPassword,
     VerifyRevoke, RenameWrite, At

(* What a deletion that starts has read.                                   *)
LEMMA DeleteAtStart ==
  ASSUME IInv, UsedInv, OwnerInv, NEW r \in Requests, Start(r),
         NEW a \in Accounts, Is(r, "delete", a)'
  PROVE  DeleteOk(r, a)'
<1>1. /\ ~IsSent(r) /\ req'[r].pc \in {"read", "written"}
      /\ \A q \in Requests \ {r} : req'[q] = req[q]
      /\ \A q \in Requests : q \in req'[r].done =>
            IsSent(q) /\ req[q].account = a /\ req[q].pc = "committed"
      /\ account[a] = "live" /\ req'[r].seen = Visible(a)
      /\ UNCHANGED <<account, invitations, login, effects>>
  BY StartView DEF Is
<1>2. PICK i \in Invitation : invitations[a] = {i} /\ ~i.deleted
  BY <1>1 DEF IInv, InvitationInv
<1>3. req'[r].seen = {i}
  BY <1>1, <1>2 DEF Visible, Active
<1>4. IsUsed(a) => HasLogin(req'[r].seen)
  BY <1>2, <1>3 DEF IsUsed, HasLogin
<1>5. req'[r].done \subseteq Requests
  <2>1. TypeOK'
    BY TypeStep DEF IInv, Next
  <2>2. QED
    BY <2>1 DEF TypeOK, Is, IsSent, Sent
<1>6. ASSUME NEW p \in req'[r].done, Is(p, "verify", a)'
      PROVE  HasLogin(req'[r].seen)
  <2>1. p \in Requests \ {r} /\ IsDone(p, "verify", a)
    BY <1>1, <1>5, <1>6 DEF Is, IsDone, IsSent
  <2>2. QED
    BY <1>4, <2>1 DEF UsedInv
<1>7. login[a] # NoLogin /\ login[a].password = a => HasLogin(req'[r].seen)
  BY <1>4, DisjointAssumption DEF OwnerInv, DisjointAssumption, IInv, TypeOK
<1>8. r \notin effects
  BY <1>1 DEF IInv, EffectInv
<1>9. \A j \in invitations'[a] : j.token \in {k.token : k \in req'[r].seen}
  BY <1>1, <1>2, <1>3
<1>10. QED
  BY <1>1, <1>6, <1>7, <1>8, <1>9 DEF DeleteOk

(* The invitation that a deletion has read is the one of its account.      *)
LEMMA TokenKept ==
  ASSUME IInv, NEW r \in Requests, Proceed(r) \/ Fail(r),
         NEW d \in Requests, NEW a \in Accounts, Is(d, "delete", a)
  PROVE  \A j \in invitations'[a] : \E i \in invitations[a] : j.token = i.token
<1>1. account[a] # "absent"
  BY DEF IInv, ReaderInv, IsReader, ReaderOk, Is
<1>2. PICK i \in Invitation : invitations[a] = {i}
  BY <1>1 DEF IInv, InvitationInv
<1>3. PICK t : t = i.token
  OBVIOUS
<1>4. HasToken(a, t)
  BY <1>2, <1>3 DEF HasToken
<1>5. HasToken(a, t)'
  BY <1>1, <1>4, TokenStays
<1>6. QED
  BY <1>2, <1>3, <1>5 DEF HasToken

(* What a deletion has read stays true while others go on, and so does     *)
(* what it has done.                                                       *)
LEMMA DeleteAtMove ==
  ASSUME IInv, DoneInv, VerifierInv, DeleteInv,
         NEW r \in Requests, Proceed(r) \/ Fail(r),
         NEW d \in Requests, NEW a \in Accounts, Is(d, "delete", a)'
  PROVE  DeleteOk(d, a)'
<1>1. /\ IsSent(r) /\ Pending(r) /\ req'[d].seen = req[d].seen /\ req'[d].done = req[d].done
      /\ \A q \in Requests \ {r} : req'[q] = req[q]
      /\ \A q \in Requests, kind \in Kinds : Is(q, kind, a)' <=> Is(q, kind, a)
      /\ effects \subseteq effects' /\ effects' \subseteq effects \cup {r}
  BY MoveView
<1>2. Is(d, "delete", a) /\ "verify" \in Kinds /\ "delete" \in Kinds
  BY <1>1 DEF Kinds
<1>3. DeleteOk(d, a) /\ DoneOk(d)
  BY <1>2 DEF DeleteInv, DoneInv, Is
<1>4. req[d].done \subseteq Requests /\ r \notin req[d].done
  BY <1>1, <1>2, <1>3, SentRecord DEF IInv, Is, DoneOk, Pending
<1>5. \A j \in invitations'[a] : j.token \in {i.token : i \in req'[d].seen}
  BY <1>1, <1>2, <1>3, TokenKept DEF DeleteOk
<1>6. (\E p \in req'[d].done : Is(p, "verify", a)') => HasLogin(req'[d].seen)
  BY <1>1, <1>2, <1>3, <1>4 DEF DeleteOk
<1>7. HasLogin(req'[d].seen) /\ req'[d].pc \in {"ready", "committed"} => d \in effects'
  BY <1>1, <1>2, <1>3, DeletesLogin DEF DeleteOk, Is
<1>8. CASE /\ login'[a] = login[a]
           /\ Is(r, "delete", a) /\ r \in effects' => r \in effects
  BY <1>1, <1>2, <1>3, <1>5, <1>6, <1>7, <1>8 DEF DeleteOk, Knew
<1>9. CASE /\ Is(r, "verify", a)
           /\ login'[a] # NoLogin /\ login'[a].password = r
  <2>1. login'[a].password # a
    BY <1>9, DisjointAssumption DEF DisjointAssumption
  <2>2. login'[a].password \notin req'[d].done
    BY <1>1, <1>4, <1>9
  <2>3. QED
    BY <1>5, <1>6, <1>7, <2>1, <2>2 DEF DeleteOk, Knew
<1>10. CASE login'[a] = NoLogin
  BY <1>5, <1>6, <1>7, <1>10 DEF DeleteOk
<1>11. QED
  BY <1>8, <1>9, <1>10, LoginChange

LEMMA DeleteStep ==
  ASSUME IInv, DoneInv, UsedInv, VerifierInv, OwnerInv, DeleteInv, [Next]_vars
  PROVE  DeleteInv'
<1>1. ASSUME NEW r \in Requests, Start(r), NEW d \in Requests \ {r},
             NEW a \in Accounts, Is(d, "delete", a)'
      PROVE  DeleteOk(d, a)'
  <2>1. /\ ~IsSent(r) /\ UNCHANGED <<invitations, login, effects>>
        /\ \A q \in Requests \ {r} : req'[q] = req[q]
    BY <1>1, StartView
  <2>2. Is(d, "delete", a)
    BY <1>1, <2>1 DEF Is, IsSent
  <2>3. DeleteOk(d, a) /\ DoneOk(d) /\ req[d].done \subseteq Requests
    BY <2>2, SentRecord DEF DeleteInv, DoneInv, Is, IInv
  <2>4. \A p \in req[d].done : Is(p, "verify", a)' <=> Is(p, "verify", a)
    BY <2>1, <2>3 DEF DoneOk, Is, IsSent
  <2>5. QED
    BY <2>1, <2>3, <2>4 DEF DeleteOk, Knew
<1>2. CASE (\E a \in Accounts : SignIn(a)) \/ UNCHANGED vars
  BY <1>2, StillView DEF DeleteInv, DeleteOk, Knew, Is, IsSent
<1>3. QED
  BY <1>1, <1>2, DeleteAtStart, DeleteAtMove DEF Next, DeleteInv
-----------------------------------------------------------------------------
(* What has committed has committed, knowing what it knew.                 *)
LEMMA DoneStays ==
  ASSUME IInv, [Next]_vars, NEW q \in Requests, NEW kind \in Kinds,
         NEW a \in Accounts, IsDone(q, kind, a)
  PROVE  IsDone(q, kind, a)' /\ req'[q].done = req[q].done
<1>1. ASSUME NEW r \in Requests, Start(r)
      PROVE  req'[q] = req[q]
  BY <1>1, StartView DEF IsDone, Is
<1>2. ASSUME NEW r \in Requests, Proceed(r) \/ Fail(r)
      PROVE  IsDone(q, kind, a)' /\ req'[q].done = req[q].done
  BY <1>2, MoveView
<1>3. CASE (\E b \in Accounts : SignIn(b)) \/ UNCHANGED vars
  BY <1>3, StillView DEF IsDone, Is, IsSent
<1>4. QED
  BY <1>1, <1>2, <1>3 DEF Next, IsDone, Is, IsSent

LEMMA RevivedStays ==
  ASSUME IInv, [Next]_vars, NEW a \in Accounts, NEW kind \in Kinds, Revived(a, kind)
  PROVE  Revived(a, kind)'
<1>1. PICK r \in Requests, d \in Requests :
         IsDone(r, kind, a) /\ IsDone(d, "delete", a) /\ d \notin req[r].done
  BY DEF Revived, Overlaps
<1>2. "delete" \in Kinds
  BY DEF Kinds
<1>3. QED
  BY <1>1, <1>2, DoneStays DEF Revived, Overlaps

(* What a request learns when it starts, it learns of other requests that  *)
(* have committed; what others know stays as it was.                       *)
LEMMA KnownDeletes ==
  ASSUME IInv, DoneInv, NEW r \in Requests, Start(r),
         NEW q \in Requests, NEW kind \in Kinds, NEW a \in Accounts, Is(q, kind, a)',
         NEW d \in req'[q].done, Is(d, "delete", a)'
  PROVE  /\ d \in Requests /\ IsDone(d, "delete", a)
         /\ q # r => Is(q, kind, a) /\ d \in req[q].done
<1>1. /\ ~IsSent(r)
      /\ \A p \in Requests \ {r} : req'[p] = req[p]
      /\ \A p \in Requests : p \in req'[r].done => IsSent(p) /\ req[p].pc = "committed"
  BY StartView
<1>2. TypeOK'
  BY TypeStep DEF IInv, Next
<1>3. d \in Requests
  BY <1>2 DEF TypeOK, Is, IsSent, Sent
<1>4. q # r => Is(q, kind, a) /\ d \in req[q].done
  BY <1>1 DEF Is, IsSent
<1>5. IsSent(d) /\ req[d].pc = "committed"
  BY <1>1, <1>3, <1>4 DEF DoneInv, DoneOk, Is
<1>6. QED
  BY <1>1, <1>3, <1>4, <1>5 DEF Is, IsDone

(* A rename that knows of a deletion read a person brought back before.    *)
LEMMA RenameStep ==
  ASSUME IInv, DoneInv, DeletedInv, PersonInv, RenameInv, [Next]_vars
  PROVE  RenameInv'
<1> "rename" \in Kinds /\ "delete" \in Kinds
  BY DEF Kinds
<1>1. ASSUME NEW r \in Requests, Start(r), NEW a \in Accounts, NEW q \in Requests,
             Is(q, "rename", a)', NEW d \in req'[q].done, Is(d, "delete", a)'
      PROVE  Revived(a, "rename")
  <2>1. /\ d \in Requests /\ IsDone(d, "delete", a)
        /\ q # r => Is(q, "rename", a) /\ d \in req[q].done
    BY <1>1, KnownDeletes
  <2>2. CASE q # r
    BY <2>1, <2>2 DEF RenameInv, IsDone
  <2>3. CASE q = r
    <3>1. person[a] = "live"
      BY <1>1, <2>3, StartView DEF Is
    <3>2. account[a] = "deleted"
      BY <2>1 DEF DeletedInv
    <3>3. QED
      BY <3>1, <3>2 DEF PersonInv
  <2>4. QED
    BY <2>2, <2>3
<1>2. ASSUME NEW r \in Requests, Proceed(r) \/ Fail(r), NEW a \in Accounts,
             NEW q \in Requests,
             Is(q, "rename", a)', NEW d \in req'[q].done, Is(d, "delete", a)'
      PROVE  Revived(a, "rename")
  <2>1. Is(q, "rename", a) /\ d \in req[q].done
    BY <1>2, MoveView
  <2>2. d \in Requests
    BY <2>1, SentRecord DEF IInv, Is
  <2>3. QED
    BY <1>2, <2>1, <2>2, MoveView DEF RenameInv
<1>3. CASE (\E b \in Accounts : SignIn(b)) \/ UNCHANGED vars
  BY <1>3, StillView DEF RenameInv, Revived, Overlaps, IsDone, Is, IsSent
<1>4. QED
  BY <1>1, <1>2, <1>3, RevivedStays DEF Next, RenameInv

(* A verification reads an account that is not deleted.                    *)
LEMMA VerifyStep ==
  ASSUME IInv, DoneInv, DeletedInv, VerifyInv, [Next]_vars
  PROVE  VerifyInv'
<1> "verify" \in Kinds /\ "delete" \in Kinds
  BY DEF Kinds
<1>1. ASSUME NEW r \in Requests, Start(r), NEW a \in Accounts, NEW q \in Requests,
             Is(q, "verify", a)', NEW d \in req'[q].done, Is(d, "delete", a)'
      PROVE  FALSE
  <2>1. /\ d \in Requests /\ IsDone(d, "delete", a)
        /\ q # r => Is(q, "verify", a) /\ d \in req[q].done
    BY <1>1, KnownDeletes
  <2>2. CASE q # r
    BY <2>1, <2>2 DEF VerifyInv, IsDone
  <2>3. CASE q = r
    <3>1. account[a] = "live"
      BY <1>1, <2>3, StartView DEF Is
    <3>2. account[a] = "deleted"
      BY <2>1 DEF DeletedInv
    <3>3. QED
      BY <3>1, <3>2
  <2>4. QED
    BY <2>2, <2>3
<1>2. ASSUME NEW r \in Requests, Proceed(r) \/ Fail(r), NEW a \in Accounts,
             NEW q \in Requests,
             Is(q, "verify", a)', NEW d \in req'[q].done, Is(d, "delete", a)'
      PROVE  FALSE
  <2>1. Is(q, "verify", a) /\ d \in req[q].done
    BY <1>2, MoveView
  <2>2. d \in Requests
    BY <2>1, SentRecord DEF IInv, Is
  <2>3. QED
    BY <1>2, <2>1, <2>2, MoveView DEF VerifyInv
<1>3. CASE (\E b \in Accounts : SignIn(b)) \/ UNCHANGED vars
  BY <1>3, StillView DEF VerifyInv, Is, IsSent
<1>4. QED
  BY <1>1, <1>2, <1>3 DEF Next, VerifyInv
-----------------------------------------------------------------------------
(* A rename or a verification that commits on a deleted account brings     *)
(* something back: it overlapped with the deletion.                        *)
LEMMA ReviverCommits ==
  ASSUME IInv, NEW r \in Requests, Commit(r), NEW kind \in Kinds, NEW a \in Accounts,
         Is(r, kind, a), NEW d \in Requests, IsDone(d, "delete", a), d \notin req[r].done
  PROVE  Revived(a, kind)'
<1>1. Is(r, kind, a)' /\ req'[r].pc = "committed" /\ req'[r].done = req[r].done
  BY MoveView DEF Proceed
<1>2. IsDone(d, "delete", a)'
  BY DoneStays DEF Next, Proceed, Kinds
<1>3. QED
  BY <1>1, <1>2 DEF Revived, Overlaps, IsDone

LEMMA PersonStep ==
  ASSUME IInv, DeletedInv, RenameInv, PersonInv, [Next]_vars
  PROVE  PersonInv'
<1> "rename" \in Kinds
  BY DEF Kinds
<1>1. CASE UNCHANGED rows
  BY <1>1, RevivedStays DEF PersonInv, rows
<1>2. ASSUME NEW r \in Requests, Commit(r), NEW a \in Accounts,
             account'[a] = "deleted", person'[a] # "deleted"
      PROVE  Revived(a, "rename")'
  <2>1. /\ IsSent(r) /\ req[r].account \in Accounts
        /\ account'[req[r].account] = AccountAfter(r)
        /\ \A b \in Accounts \ {req[r].account} : account'[b] = account[b]
    BY <1>2, AccountAtCommit
  <2>2. person' = [person EXCEPT ![req[r].account] = PersonAfter(r)]
    BY <1>2 DEF Commit
  <2>3. person \in [Accounts -> RowStates]
    BY DEF IInv, TypeOK
  <2>4. CASE account'[a] = account[a] /\ person'[a] = person[a]
    BY <1>2, <2>4, RevivedStays DEF PersonInv
  <2>5. CASE req[r].account = a /\ req[r].kind = "rename"
    <3>1. Is(r, "rename", a)
      BY <2>1, <2>5 DEF Is
    <3>2. account[a] = "deleted"
      BY <1>2, <2>1, <2>5 DEF AccountAfter
    <3>3. PICK d \in Requests : IsDone(d, "delete", a)
      BY <3>2 DEF DeletedInv
    <3>4. CASE d \in req[r].done
      BY <3>1, <3>3, <3>4, RevivedStays DEF RenameInv, IsDone
    <3>5. CASE d \notin req[r].done
      BY <1>2, <3>1, <3>3, <3>5, ReviverCommits
    <3>6. QED
      BY <3>4, <3>5
  <2>6. CASE req[r].account = a /\ req[r].kind \in {"create", "delete"}
    BY <1>2, <2>1, <2>2, <2>3, <2>6 DEF AccountAfter, PersonAfter
  <2>7. CASE req[r].account = a /\ req[r].kind \notin {"create", "delete", "rename"}
    <3>1. AccountAfter(r) = account[a] /\ PersonAfter(r) = person[a]
      BY <2>7 DEF AccountAfter, PersonAfter
    <3>2. QED
      BY <2>1, <2>2, <2>3, <2>4, <2>7, <3>1
  <2>8. QED
    BY <2>1, <2>2, <2>3, <2>4, <2>5, <2>6, <2>7
<1>3. ASSUME NEW r \in Requests, Start(r)
      PROVE  UNCHANGED rows
  BY <1>3, StartView DEF rows
<1>4. QED
  BY <1>1, <1>2, <1>3, RowsFrame DEF Next, SignIn, vars, rows, PersonInv

LEMMA VisibleStep ==
  ASSUME IInv, DeletedInv, DeleteInv, VerifyInv, VisibleInv, [Next]_vars
  PROVE  VisibleInv'
<1> "verify" \in Kinds
  BY DEF Kinds
<1>1. CASE UNCHANGED rows
  BY <1>1, RevivedStays DEF VisibleInv, rows, Visible
<1>2. ASSUME NEW r \in Requests, Commit(r), NEW a \in Accounts,
             account'[a] = "deleted", NEW i \in invitations'[a], ~i.deleted
      PROVE  Revived(a, "verify")'
  <2>1. /\ IsSent(r) /\ req[r].account \in Accounts
        /\ account'[req[r].account] = AccountAfter(r)
        /\ invitations'[req[r].account] = InvitationsAfter(r)
        /\ \A b \in Accounts \ {req[r].account} :
              account'[b] = account[b] /\ invitations'[b] = invitations[b]
    BY <1>2, AccountAtCommit
  <2>2. CASE account'[a] = account[a] /\ invitations'[a] = invitations[a]
    BY <1>2, <2>2, RevivedStays DEF VisibleInv, Visible, Active
  <2>3. CASE req[r].account = a /\ req[r].kind = "verify"
    <3>1. Is(r, "verify", a)
      BY <2>1, <2>3 DEF Is
    <3>2. account[a] = "deleted"
      BY <1>2, <2>1, <2>3 DEF AccountAfter
    <3>3. PICK d \in Requests : IsDone(d, "delete", a)
      BY <3>2 DEF DeletedInv
    <3>4. d \notin req[r].done
      BY <3>1, <3>3 DEF VerifyInv, IsDone
    <3>5. QED
      BY <1>2, <3>1, <3>3, <3>4, ReviverCommits
  <2>4. CASE req[r].account = a /\ req[r].kind = "delete"
    <3>1. \A j \in invitations[a] : j.token \in {k.token : k \in req[r].seen}
      BY <2>1, <2>4 DEF DeleteInv, DeleteOk, Is
    <3>2. InvitationsAfter(r) = {[j EXCEPT !.deleted = @ \/ j.token \in
                                    {k.token : k \in req[r].seen}] : j \in invitations[a]}
      BY <2>4 DEF InvitationsAfter
    <3>3. invitations[a] \subseteq Invitation
      BY <1>2 DEF IInv, TypeOK
    <3>4. ASSUME NEW j \in invitations[a]
          PROVE  [j EXCEPT !.deleted = @ \/ j.token \in
                    {k.token : k \in req[r].seen}].deleted
      <4>1. j \in Invitation /\ j.token \in {k.token : k \in req[r].seen}
        BY <3>1, <3>3
      <4>2. QED
        BY <4>1 DEF Invitation
    <3>5. PICK j \in invitations[a] :
             i = [j EXCEPT !.deleted = @ \/ j.token \in {k.token : k \in req[r].seen}]
      BY <1>2, <2>1, <2>4, <3>2
    <3>6. QED
      BY <1>2, <3>4, <3>5
  <2>5. CASE req[r].account = a /\ req[r].kind = "create"
    BY <1>2, <2>1, <2>5 DEF AccountAfter
  <2>6. CASE req[r].account = a /\ req[r].kind \notin {"create", "delete", "verify"}
    <3>1. ~(req[r].kind = "resend" /\ req[r].token = r)
      BY <2>1 DEF IInv, ReaderInv, IsReader, ReaderOk
    <3>2. AccountAfter(r) = account[a] /\ InvitationsAfter(r) = invitations[a]
      BY <2>6, <3>1 DEF AccountAfter, InvitationsAfter
    <3>3. QED
      BY <2>1, <2>2, <2>6, <3>2
  <2>7. QED
    BY <2>1, <2>2, <2>3, <2>4, <2>5, <2>6
<1>3. ASSUME NEW r \in Requests, Start(r)
      PROVE  UNCHANGED rows
  BY <1>3, StartView DEF rows
<1>4. QED
  BY <1>1, <1>2, <1>3, RowsFrame DEF Next, SignIn, vars, rows, VisibleInv, Visible, Active
-----------------------------------------------------------------------------
LEMMA HistoryInit == Init => HInv
<1> SUFFICES ASSUME NEW start, start \subseteq Founders \cup Invited,
                    Init, StartWith(start)
             PROVE  HInv
  BY DEF Init
<1>1. \A r \in Requests : ~IsSent(r)
  BY DEF StartWith, IsSent
<1>2. \A a \in Accounts : account[a] # "deleted"
  BY DEF StartWith
<1>3. OwnerInv
  <2>1. ASSUME NEW a \in Accounts, login[a] # NoLogin
        PROVE  login[a].password = a /\ a \in Founders /\ a \in start
    BY <2>1 DEF StartWith
  <2>2. ASSUME NEW a \in Accounts, a \in Founders, a \in start
        PROVE  IsUsed(a)
    BY <2>2 DEF StartWith, IsUsed, PastInvitation
  <2>3. QED
    BY <2>1, <2>2 DEF OwnerInv
<1>4. QED
  BY <1>1, <1>2, <1>3 DEF HInv, DoneInv, DeletedInv, UsedInv, VerifierInv, DeleteInv,
     RenameInv, VerifyInv, PersonInv, VisibleInv, IsDone, Is

(* The inductive invariant with what the requests know of each other.      *)
THEOREM HistoryInvariant == Spec => [](IInv /\ HInv)
<1>1. IInv /\ HInv /\ [Next]_vars => HInv'
  BY DoneStep, DeletedStep, UsedStep, VerifierStep, OwnerStep, DeleteStep, RenameStep,
     VerifyStep, PersonStep, VisibleStep DEF HInv
<1>2. IInv /\ [Next]_vars => IInv'
  BY TypeStep, InvitationStep, CreateStep, ReaderStep, LoginStep DEF IInv
<1>3. QED
  BY InvInit, HistoryInit, <1>1, <1>2, PTL DEF Spec

(* A token that cannot be redeemed any more because the account has a      *)
(* login already: that login is of a verification that has not committed.  *)
THEOREM TokenRedeemable == Spec => []TokenIsRedeemable
<1>1. ASSUME IInv, HInv, NEW a \in Accounts, NEW i \in Visible(a), i.isValid,
             login[a] # NoLogin
      PROVE  \E r \in OfKind(a, "verify") \cap effects : req[r].pc # "committed"
  <2>1. PICK j \in Invitation : invitations[a] = {j}
    BY <1>1 DEF IInv, InvitationInv, Visible
  <2>2. ~IsUsed(a)
    BY <1>1, <2>1 DEF IsUsed, Visible
  <2>3. login[a].password \in effects /\ Is(login[a].password, "verify", a)
    BY <1>1, <2>2 DEF HInv, OwnerInv
  <2>4. login[a].password \in Requests
    BY <1>1, <2>3 DEF IInv, TypeOK
  <2>5. req[login[a].password].pc # "committed"
    BY <1>1, <2>2, <2>3, <2>4 DEF HInv, UsedInv, IsDone
  <2>6. QED
    BY <2>3, <2>4, <2>5 DEF OfKind, Is, IsSent
<1>2. IInv /\ HInv => TokenIsRedeemable
  BY <1>1 DEF TokenIsRedeemable
<1>3. QED
  BY HistoryInvariant, <1>2, PTL

(* A login whose verification had committed before the deletion read the   *)
(* account goes with the account.                                          *)
THEOREM OrphanLogin == Spec => []NoOrphanLogin
<1>1. ASSUME IInv, HInv, NEW a \in Accounts, account[a] = "deleted", login[a] # NoLogin
      PROVE  \E r \in OfKind(a, "verify") \cap effects :
                \A d \in OfKind(a, "delete") : req[d].pc = "committed" => r \notin req[d].done
  <2> DEFINE t == login[a].password
  <2>1. ASSUME NEW d \in Requests, IsDone(d, "delete", a)
        PROVE  t # a /\ (t \in req[d].done => ~Is(t, "verify", a))
    <3>1. DeleteOk(d, a)
      BY <1>1, <2>1 DEF HInv, DeleteInv, IsDone
    <3>2. ASSUME HasLogin(req[d].seen)
          PROVE  ~Knew(d, a)
      BY <1>1, <2>1, <3>1, <3>2 DEF DeleteOk, IsDone
    <3>3. QED
      BY <1>1, <3>1, <3>2 DEF DeleteOk, Knew
  <2>2. PICK d \in Requests : IsDone(d, "delete", a)
    BY <1>1 DEF HInv, DeletedInv
  <2>3. t \in effects /\ Is(t, "verify", a)
    BY <1>1, <2>1, <2>2 DEF HInv, OwnerInv
  <2>4. t \in Requests
    BY <1>1, <2>3 DEF IInv, TypeOK
  <2>5. t \in OfKind(a, "verify")
    BY <2>3, <2>4 DEF OfKind, Is, IsSent
  <2>6. \A e \in OfKind(a, "delete") : req[e].pc = "committed" => IsDone(e, "delete", a)
    BY DEF OfKind, IsDone, Is, IsSent
  <2>7. \A e \in OfKind(a, "delete") : e \in Requests
    BY DEF OfKind
  <2> HIDE DEF t
  <2>8. QED
    BY <2>1, <2>3, <2>5, <2>6, <2>7
<1>2. IInv /\ HInv => NoOrphanLogin
  BY <1>1 DEF NoOrphanLogin
<1>3. QED
  BY HistoryInvariant, <1>2, PTL

(* The person or the invitation of a deleted account is live again only    *)
(* through a rename, or a verification, that overlapped with the deletion. *)
THEOREM OverlapRevives == Spec => []OnlyOverlapRevives
<1>1. ASSUME NEW a \in Accounts, NEW kind \in Kinds, Revived(a, kind)
      PROVE  \E r \in Committed(a, kind) : ~(Committed(a, "delete") \subseteq req[r].done)
  <2>1. PICK r \in Requests, d \in Requests :
           IsDone(r, kind, a) /\ IsDone(d, "delete", a) /\ d \notin req[r].done
    BY <1>1 DEF Revived, Overlaps
  <2>2. r \in Committed(a, kind) /\ d \in Committed(a, "delete")
    BY <2>1 DEF Committed, OfKind, IsDone, Is, IsSent
  <2>3. QED
    BY <2>1, <2>2
<1>2. HInv => OnlyOverlapRevives
  <2>1. "rename" \in Kinds /\ "verify" \in Kinds
    BY DEF Kinds
  <2>2. QED
    BY <1>1, <2>1 DEF HInv, PersonInv, VisibleInv, OnlyOverlapRevives
<1>3. QED
  BY HistoryInvariant, <1>2, PTL
-----------------------------------------------------------------------------
(***************************************************************************)
(* Row locks.  A deletion takes the person's row, then the invitation's; a *)
(* verification takes the invitation alone and a rename the person alone.  *)
(* So whoever holds the invitation waits for nobody.                       *)
(***************************************************************************)
HoldsPerson(r, a) ==
    \/ Is(r, "rename", a) /\ req[r].pc = "ready"
    \/ Is(r, "delete", a) /\ req[r].pc \in {"personDeleted", "accountDeleted", "ready"}

HoldsInvitation(r, a) ==
    \/ Is(r, "verify", a) /\ req[r].pc = "ready"
    \/ Is(r, "delete", a) /\ req[r].pc \in {"accountDeleted", "ready"}

(* A lock is held by a request under way, which has taken it.              *)
LockInv == \A r \in Requests, a \in Accounts :
              /\ personLock[a] = r => HoldsPerson(r, a)
              /\ inviteLock[a] = r => HoldsInvitation(r, a)

(* The next statement of r writes a row that s has locked.                 *)
Awaits(r, s) ==
    \/ /\ At(r, "verify", "passwordSet") \/ At(r, "delete", "personDeleted")
       /\ inviteLock[req[r].account] = s
    \/ /\ At(r, "rename", "read") \/ At(r, "delete", "read")
       /\ personLock[req[r].account] = s

CanGoOn(r) == IsSent(r) /\ Pending(r) /\ \A s \in Requests : ~Awaits(r, s)

NoCircle ==
    \A r, s \in Requests : Awaits(r, s) =>
        CanGoOn(s) \/ \E t \in Requests : Awaits(s, t) /\ CanGoOn(t)

(* A request that is started holds nothing.                                *)
LEMMA LockStarted ==
  ASSUME TypeOK, LockInv, NEW r \in Requests, Start(r)
  PROVE  LockInv'
<1>1. PICK kind \in Kinds, pc \in {"read", "written"}, a \in Accounts,
           t \in Tokens, seen \in SUBSET Invitation :
           Begin(r, kind, pc, a, t, seen)
  BY StartStep
<1>2. /\ ~IsSent(r) /\ \A q \in Requests \ {r} : req'[q] = req[q]
      /\ UNCHANGED locks
  BY <1>1, BeginStep DEF Pcs
<1>3. ASSUME NEW q \in Requests, NEW b \in Accounts
      PROVE  /\ personLock'[b] = q => HoldsPerson(q, b)'
             /\ inviteLock'[b] = q => HoldsInvitation(q, b)'
  <2>1. personLock'[b] = personLock[b] /\ inviteLock'[b] = inviteLock[b]
    BY <1>2 DEF locks
  <2>2. CASE q = r
    BY <1>2, <2>1, <2>2 DEF LockInv, HoldsPerson, HoldsInvitation, Is
  <2>3. CASE q # r
    <3>1. req'[q] = req[q]
      BY <1>2, <2>3
    <3> QED BY <2>1, <3>1 DEF LockInv, HoldsPerson, HoldsInvitation, Is, IsSent
  <2> QED BY <2>2, <2>3
<1> QED BY <1>3 DEF LockInv

(* What a step of r does to the locks that r has.                          *)
LEMMA LockMoved ==
  ASSUME TypeOK, LockInv, NEW r \in Requests, Proceed(r) \/ Fail(r)
  PROVE  LockInv'
<1>1. PICK pc \in Pcs : Goto(r, pc)
  BY MoveStep
<1>2. IsSent(r) /\ req[r] \in Sent
  BY MoveStep, SentRecord
<1>3. /\ Same(r) /\ req'[r].pc = pc /\ IsSent(r)'
      /\ \A q \in Requests \ {r} : req'[q] = req[q]
  BY <1>1, <1>2, GotoStep
<1>4. ASSUME NEW q \in Requests \ {r}, NEW b \in Accounts
      PROVE  /\ personLock'[b] = q => personLock[b] = q
             /\ inviteLock'[b] = q => inviteLock[b] = q
  BY MarkerAssumption DEF TypeOK, Proceed, Fail, Throw, Free, Mail,
     VerifyCreateUser, VerifySetPassword, VerifyRevoke, RenameWrite,
     DeletePerson, DeleteAccount, DeleteUser, Commit, locks, outside
<1>5. ASSUME NEW q \in Requests \ {r}, NEW b \in Accounts
      PROVE  /\ personLock'[b] = q => HoldsPerson(q, b)'
             /\ inviteLock'[b] = q => HoldsInvitation(q, b)'
  <2>1. req'[q] = req[q]
    BY <1>3
  <2> QED BY <1>4, <2>1 DEF LockInv, HoldsPerson, HoldsInvitation, Is, IsSent
<1>6. ASSUME NEW b \in Accounts
      PROVE  /\ personLock'[b] = r => HoldsPerson(r, b)'
             /\ inviteLock'[b] = r => HoldsInvitation(r, b)'
  <2> DEFINE kind == req[r].kind
             now == req[r].pc
             a == req[r].account
  <2>1. /\ personLock[b] = r =>
             /\ b = a
             /\ \/ kind = "rename" /\ now = "ready"
                \/ kind = "delete" /\ now \in {"personDeleted", "accountDeleted", "ready"}
        /\ inviteLock[b] = r =>
             /\ b = a
             /\ \/ kind = "verify" /\ now = "ready"
                \/ kind = "delete" /\ now \in {"accountDeleted", "ready"}
    BY DEF LockInv, HoldsPerson, HoldsInvitation, Is
  <2>2. /\ HoldsPerson(r, b)' <=>
             /\ b = a
             /\ \/ kind = "rename" /\ pc = "ready"
                \/ kind = "delete" /\ pc \in {"personDeleted", "accountDeleted", "ready"}
        /\ HoldsInvitation(r, b)' <=>
             /\ b = a
             /\ \/ kind = "verify" /\ pc = "ready"
                \/ kind = "delete" /\ pc \in {"accountDeleted", "ready"}
    BY <1>3 DEF HoldsPerson, HoldsInvitation, Is, Same, IsSent
  <2>3. ASSUME NEW x, Goto(r, x)
        PROVE  pc = x
    BY <1>3, <2>3 DEF Goto, TypeOK, Sent
  <2> HIDE DEF kind, now, a
  <2>4. CASE Throw(r) \/ Commit(r)
    <3>1. personLock'[b] # r /\ inviteLock'[b] # r
      BY <2>4, MarkerAssumption DEF Throw, Commit, Free
    <3> QED BY <3>1
  <2>5. CASE ~Throw(r) /\ (Mail(r) \/ VerifyCreateUser(r) \/ VerifySetPassword(r))
    <3>1. UNCHANGED locks
      BY <2>5 DEF Mail, VerifyCreateUser, VerifySetPassword
    <3>2. \/ kind \in {"create", "resend"}
          \/ kind = "verify" /\ now \in {"read", "userCreated"}
      BY <2>5 DEF Mail, VerifyCreateUser, VerifySetPassword, At, kind, now
    <3> QED BY <2>1, <3>1, <3>2 DEF locks
  <2>6. CASE VerifyRevoke(r)
    <3>1. /\ kind = "verify" /\ now = "passwordSet" /\ Goto(r, "ready")
          /\ personLock' = personLock
          /\ inviteLock' = [inviteLock EXCEPT ![a] = r]
      BY <2>6 DEF VerifyRevoke, At, kind, now, a
    <3> QED BY <2>1, <2>2, <2>3, <3>1 DEF TypeOK
  <2>7. CASE RenameWrite(r)
    <3>1. /\ kind = "rename" /\ now = "read" /\ Goto(r, "ready")
          /\ inviteLock' = inviteLock
          /\ personLock' = [personLock EXCEPT ![a] = r]
      BY <2>7 DEF RenameWrite, At, kind, now, a
    <3> QED BY <2>1, <2>2, <2>3, <3>1 DEF TypeOK
  <2>8. CASE DeletePerson(r)
    <3>1. /\ kind = "delete" /\ now = "read" /\ Goto(r, "personDeleted")
          /\ inviteLock' = inviteLock
          /\ personLock' = [personLock EXCEPT ![a] = r]
      BY <2>8 DEF DeletePerson, At, kind, now, a
    <3> QED BY <2>1, <2>2, <2>3, <3>1 DEF TypeOK
  <2>9. CASE DeleteAccount(r)
    <3>1. /\ kind = "delete" /\ now = "personDeleted"
          /\ Goto(r, "accountDeleted") \/ Goto(r, "ready")
          /\ personLock' = personLock
          /\ inviteLock' = [inviteLock EXCEPT ![a] = r]
      BY <2>9 DEF DeleteAccount, At, kind, now, a
    <3> QED BY <2>1, <2>2, <2>3, <3>1 DEF TypeOK
  <2>10. CASE ~Throw(r) /\ DeleteUser(r)
    <3>1. /\ kind = "delete" /\ now = "accountDeleted" /\ Goto(r, "ready")
          /\ UNCHANGED locks
      BY <2>10 DEF DeleteUser, At, kind, now
    <3> QED BY <2>1, <2>2, <2>3, <3>1 DEF locks
  <2> QED BY <2>4, <2>5, <2>6, <2>7, <2>8, <2>9, <2>10 DEF Proceed, Fail
<1> QED BY <1>5, <1>6 DEF LockInv

LEMMA LockStart == Init => LockInv
<1> SUFFICES ASSUME NEW start, StartWith(start)
             PROVE  LockInv
  BY DEF Init
<1>1. \A a \in Accounts : personLock[a] = Nobody /\ inviteLock[a] = Nobody
  BY DEF StartWith
<1> QED BY <1>1, MarkerAssumption DEF LockInv

LEMMA LockStep == TypeOK /\ LockInv /\ [Next]_vars => LockInv'
<1> SUFFICES ASSUME TypeOK, LockInv, [Next]_vars
             PROVE  LockInv'
  OBVIOUS
<1>1. CASE UNCHANGED <<locks, req>>
  BY <1>1 DEF LockInv, HoldsPerson, HoldsInvitation, Is, IsSent, locks
<1>2. ASSUME NEW a \in Accounts, SignIn(a)
      PROVE  UNCHANGED <<locks, req>>
  BY <1>2 DEF SignIn
<1>3. CASE UNCHANGED vars
  BY <1>1, <1>3 DEF vars, locks
<1> QED BY <1>1, <1>2, <1>3, LockStarted, LockMoved DEF Next

(* A request holds a row's lock only between the statement that writes the *)
(* row and its COMMIT or ROLLBACK: none is left behind by one that is over *)
(* (TypeORM's transaction in abstract.handler.ts).                         *)
THEOREM LocksHeld == Spec => []LockInv
<1>1. TypeOK /\ LockInv /\ [Next]_vars => LockInv'
  BY LockStep
<1> QED BY TypeCorrect, LockStart, <1>1, PTL DEF Spec

(* Whoever waits for a row waits for a request that can go on, or that     *)
(* waits for one that can: a deletion takes the person before the          *)
(* invitation (account.delete.handler.ts:44-46) and the others take one of *)
(* them, so no circle of requests ever forms.                              *)
THEOREM NoLockCircle == Spec => []NoCircle
<1>1. ASSUME TypeOK, LockInv, NEW s \in Requests, NEW a \in Accounts,
             HoldsInvitation(s, a)
      PROVE  CanGoOn(s)
  BY <1>1 DEF HoldsInvitation, Is, CanGoOn, Pending, Awaits, At
<1>2. ASSUME TypeOK, LockInv, NEW s \in Requests, NEW a \in Accounts,
             HoldsPerson(s, a)
      PROVE  CanGoOn(s) \/ \E t \in Requests : Awaits(s, t) /\ CanGoOn(t)
  <2>1. CASE \E t \in Requests : Awaits(s, t)
    <3>1. PICK t \in Requests : Awaits(s, t)
      BY <2>1
    <3>2. inviteLock[req[s].account] = t /\ req[s].account = a
      BY <1>2, <3>1 DEF HoldsPerson, Is, Awaits, At
    <3>3. HoldsInvitation(t, a)
      BY <1>2, <3>2 DEF LockInv
    <3> QED BY <1>1, <1>2, <3>1, <3>3
  <2>2. CASE ~\E t \in Requests : Awaits(s, t)
    BY <1>2, <2>2 DEF HoldsPerson, Is, CanGoOn, Pending
  <2> QED BY <2>1, <2>2
<1>3. ASSUME TypeOK, LockInv, NEW r \in Requests, NEW s \in Requests, Awaits(r, s)
      PROVE  CanGoOn(s) \/ \E t \in Requests : Awaits(s, t) /\ CanGoOn(t)
  <2>1. IsSent(r)
    BY <1>3 DEF Awaits, At, IsSent
  <2>2. req[r].account \in Accounts
    BY <1>3, <2>1, SentRecord
  <2>3. \/ HoldsInvitation(s, req[r].account)
        \/ HoldsPerson(s, req[r].account)
    BY <1>3, <2>2 DEF Awaits, LockInv
  <2> QED BY <1>1, <1>2, <1>3, <2>2, <2>3
<1>4. TypeOK /\ LockInv => NoCircle
  BY <1>3 DEF NoCircle
<1> QED BY TypeCorrect, LocksHeld, <1>4, PTL
=============================================================================
