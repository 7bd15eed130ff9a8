-------------------------- MODULE AccountLifecycle --------------------------
(***************************************************************************)
(* The accounts of one subscription from invitation to deletion.  An       *)
(* account is rows in PostgreSQL (account, person, account_invitation) and *)
(* a login in AWS Cognito.  Each handler is one database transaction, but  *)
(* its e-mails and its Cognito calls take effect at once and are not taken *)
(* back when the transaction rolls back; requests run at the same time.    *)
(*                                                                         *)
(* READ COMMITTED: a read sees committed rows, an UPDATE waits for the     *)
(* transaction that holds the row and then overwrites it by id.  Every     *)
(* account here is in the view permission of every other: the filters keep *)
(* subscriptions apart.  A request that is turned away before it changes   *)
(* anything (NOT_FOUND, FORBIDDEN, no token) is no step.                   *)
(***************************************************************************)
EXTENDS Integers, FiniteSets

CONSTANTS Accounts,   \* account ids
          Requests,   \* API requests, each run once
          Founders,   \* accounts verified and signed in at the start
          Invited,    \* accounts created and not verified at the start
          Nobody,     \* the caller of a sign-up; holder of a free row
          NoLogin     \* no user in Cognito

ASSUME StartAssumption == Founders \cup Invited \subseteq Accounts
ASSUME DisjointAssumption == /\ Founders \cap Invited = {}
                             /\ Accounts \cap Requests = {}
ASSUME MarkerAssumption ==
    /\ Nobody \notin Accounts \cup Requests
    /\ NoLogin \notin [permanent: BOOLEAN, password: Accounts \cup Requests]

VARIABLES account,      \* account id -> state of its row
          person,       \* account id -> state of its person's row
          invitations,  \* account id -> its account_invitation rows
          personLock,   \* account id -> request holding its person's row
          inviteLock,   \* account id -> request holding its invitation
          login,        \* account id -> its user in Cognito
          signedIn,     \* accounts that hold an ID token
          mailed,       \* invitation tokens sent by e-mail
          req,          \* request -> how far its handler is
          effects       \* history: requests whose Cognito change was made

rows == <<account, person, invitations>>
locks == <<personLock, inviteLock>>
outside == <<login, signedIn, mailed, effects>>
vars == <<account, person, invitations, personLock, inviteLock, login,
          signedIn, mailed, req, effects>>
-----------------------------------------------------------------------------
(* An invitation token is named after the request that made it, and a      *)
(* password after the request that set it; an account's own id stands for  *)
(* those from before the start.                                            *)
Tokens == Requests \cup Accounts

Invitation == [token: Tokens, isValid: BOOLEAN, deleted: BOOLEAN]

RowStates == {"absent", "live", "deleted"}

Logins == [permanent: BOOLEAN, password: Tokens]

Kinds == {"create", "resend", "verify", "rename", "delete"}

Pcs == {"read", "written", "userCreated", "passwordSet", "personDeleted",
        "accountDeleted", "ready", "committed", "failed"}

(* seen: the invitations read with the account; done: history, the         *)
(* requests on it committed when this one read the account.                *)
Sent == [kind: Kinds, pc: Pcs, account: Accounts, token: Tokens,
         seen: SUBSET Invitation, done: SUBSET Requests]
NotSent == [pc |-> "idle"]

OfKind(a, kind) == {r \in Requests : req[r] # NotSent /\ req[r].kind = kind
                                                     /\ req[r].account = a}
Committed(a, kind) == {r \in OfKind(a, kind) : req[r].pc = "committed"}
Redeemed(a) == Committed(a, "verify")

Active(i) == ~i.deleted
Visible(a) == {i \in invitations[a] : Active(i)}

(* Every request but a sign-up and a verification carries an ID token.     *)
(* Only its signature is checked, so a deleted account's token still works. *)
MayCall(by) == by \in signedIn

Begin(r, kind, pc, a, token, seen) ==
    /\ req[r] = NotSent
    /\ req' = [req EXCEPT ![r] = [kind |-> kind, pc |-> pc, account |-> a,
                                  token |-> token, seen |-> seen,
                                  done |-> UNION {Committed(a, k) : k \in Kinds}]]
    /\ UNCHANGED <<rows, locks, outside>>

At(r, kind, pc) == req[r] # NotSent /\ req[r].kind = kind /\ req[r].pc = pc

Goto(r, pc) == req' = [req EXCEPT ![r].pc = pc]
-----------------------------------------------------------------------------
PastInvitation(a) ==
    [token |-> a, isValid |-> a \notin Founders, deleted |-> FALSE]

(* The database is empty or holds accounts made before.                    *)
StartWith(start) ==
    LET state == [a \in Accounts |-> IF a \in start THEN "live" ELSE "absent"]
    IN  /\ account = state
        /\ person = state
        /\ invitations = [a \in Accounts |->
              IF a \in start THEN {PastInvitation(a)} ELSE {}]
        /\ personLock = [a \in Accounts |-> Nobody]
        /\ inviteLock = [a \in Accounts |-> Nobody]
        /\ login = [a \in Accounts |->
              IF a \in start \cap Founders
              THEN [permanent |-> TRUE, password |-> a] ELSE NoLogin]
        /\ signedIn = start \cap Founders
        /\ mailed = start
        /\ req = [r \in Requests |-> NotSent]
        /\ effects = {}

Init == StartWith({}) \/ StartWith(Founders \cup Invited)

(* A sign-up makes the subscription with its first account.                *)
MaySignUp == /\ account = [a \in Accounts |-> "absent"]
             /\ \A a \in Accounts : OfKind(a, "create") = {}

(* SubscriptionCreateHandler or AccountCreateHandler with the invitation   *)
(* handler nested in it: person, account, relations, contact detail and    *)
(* invitation are inserted under fresh ids.                                *)
Create(r, a) ==
    /\ MaySignUp \/ \E by \in Accounts : MayCall(by)
    /\ account[a] = "absent"
    /\ OfKind(a, "create") = {}
    /\ Begin(r, "create", "written", a, r, {})

(* Mutant: every call of send-invitation makes an invitation.              *)
ResendFresh(r, a) ==
    /\ \E by \in Accounts : MayCall(by)
    /\ account[a] = "live"
    /\ Begin(r, "resend", "written", a, r, Visible(a))

(* PersonAccountSendInvitationHandler: an account that has an invitation,  *)
(* used or not, is sent that one; provide makes one for the others.        *)
Resend(r, a) ==
    /\ \E by \in Accounts : MayCall(by)
    /\ account[a] = "live"
    /\ \/ Visible(a) = {} /\ Begin(r, "resend", "written", a, r, {})
       \/ \E i \in Visible(a) :
             Begin(r, "resend", "written", a, i.token, Visible(a))

(* Mutant: a failed e-mail is logged and forgotten.                        *)
MailUnawaited(r) ==
    /\ At(r, "create", "written") \/ At(r, "resend", "written")
    /\ mailed' \in {mailed, mailed \cup {req[r].token}}
    /\ Goto(r, "ready")
    /\ UNCHANGED <<rows, locks, login, signedIn, effects>>

(* sendEmail, awaited inside the transaction.                              *)
Mail(r) ==
    /\ At(r, "create", "written") \/ At(r, "resend", "written")
    /\ mailed' = mailed \cup {req[r].token}
    /\ Goto(r, "ready")
    /\ UNCHANGED <<rows, locks, login, signedIn, effects>>
-----------------------------------------------------------------------------
(* PersonAccountVerifyHandler reads the valid invitation with this token   *)
(* and its account.                                                        *)
VerifyRead(r, a) ==
    \E i \in Visible(a) :
       /\ i.isValid
       /\ account[a] = "live"
       /\ Begin(r, "verify", "read", a, i.token, {i})

(* The handler threw: TypeORM rolls back.                                  *)
Free(lock, r) ==
    [a \in Accounts |-> IF lock[a] = r THEN Nobody ELSE lock[a]]

(* Mutant: a handler that throws leaves its transaction open.              *)
ThrowOpen(r) == /\ Goto(r, "failed")
                /\ UNCHANGED locks

Throw(r) == /\ Goto(r, "failed")
            /\ personLock' = Free(personLock, r)
            /\ inviteLock' = Free(inviteLock, r)

(* Mutant: UsernameExistsException is taken for success.                   *)
VerifyCreateUserIfMissing(r) ==
    LET a == req[r].account
    IN  /\ At(r, "verify", "read")
        /\ login' = IF login[a] # NoLogin THEN login
                    ELSE [login EXCEPT ![a] =
                            [permanent |-> FALSE, password |-> r]]
        /\ effects' = effects \cup {r}
        /\ Goto(r, "userCreated")
        /\ UNCHANGED <<locks, rows, signedIn, mailed>>

(* UserCreateHandler, AdminCreateUser: the username is the account id, and *)
(* Cognito refuses one that exists.                                        *)
VerifyCreateUser(r) ==
    LET a == req[r].account
    IN  /\ At(r, "verify", "read")
        /\ \/ /\ login[a] = NoLogin
              /\ login' = [login EXCEPT ![a] =
                             [permanent |-> FALSE, password |-> r]]
              /\ effects' = effects \cup {r}
              /\ Goto(r, "userCreated")
              /\ UNCHANGED locks
           \/ /\ login[a] # NoLogin
              /\ Throw(r)
              /\ UNCHANGED <<login, effects>>
        /\ UNCHANGED <<rows, signedIn, mailed>>

(* UserCreateHandler, AdminSetUserPassword.                                *)
VerifySetPassword(r) ==
    LET a == req[r].account
    IN  /\ At(r, "verify", "userCreated")
        /\ \/ /\ login[a] # NoLogin
              /\ login' = [login EXCEPT ![a] =
                             [permanent |-> TRUE, password |-> r]]
              /\ Goto(r, "passwordSet")
              /\ UNCHANGED locks
           \/ /\ login[a] = NoLogin
              /\ Throw(r)
              /\ UNCHANGED login
        /\ UNCHANGED <<rows, signedIn, mailed, effects>>

(* revoke checks the entity that was read, so it never refuses here;       *)
(* preserve waits for the row.                                             *)
VerifyRevoke(r) ==
    LET a == req[r].account
    IN  /\ At(r, "verify", "passwordSet")
        /\ inviteLock[a] = Nobody
        /\ inviteLock' = [inviteLock EXCEPT ![a] = r]
        /\ Goto(r, "ready")
        /\ UNCHANGED <<rows, personLock, outside>>
-----------------------------------------------------------------------------
(* AccountUpdateMeHandler and PersonUpdateHandler.                         *)
RenameRead(r, a) ==
    /\ \E by \in Accounts : MayCall(by)
    /\ person[a] = "live"
    /\ Begin(r, "rename", "read", a, r, {})

RenameWrite(r) ==
    LET a == req[r].account
    IN  /\ At(r, "rename", "read")
        /\ personLock[a] = Nobody
        /\ personLock' = [personLock EXCEPT ![a] = r]
        /\ Goto(r, "ready")
        /\ UNCHANGED <<rows, inviteLock, outside>>

(* Mutant: the account is read without its invitations.                    *)
DeleteReadBare(r, a) ==
    /\ \E by \in Accounts \ {a} : MayCall(by)
    /\ account[a] = "live"
    /\ Begin(r, "delete", "read", a, r, {})

(* AccountDeleteHandler: one's own account is FORBIDDEN.                   *)
DeleteRead(r, a) ==
    /\ \E by \in Accounts \ {a} : MayCall(by)
    /\ account[a] = "live"
    /\ Begin(r, "delete", "read", a, r, Visible(a))

DeletePerson(r) ==
    LET a == req[r].account
    IN  /\ At(r, "delete", "read")
        /\ personLock[a] = Nobody
        /\ personLock' = [personLock EXCEPT ![a] = r]
        /\ Goto(r, "personDeleted")
        /\ UNCHANGED <<rows, inviteLock, outside>>

(* Mutant: the login is deleted with an account that was not verified.     *)
HasNoLogin(seen) == \E i \in seen : i.isValid

(* An account with a used invitation has a login to delete.                *)
HasLogin(seen) == \E i \in seen : ~i.isValid

(* The soft-removal of the account cascades to the invitations it was read *)
(* with.                                                                   *)
DeleteAccount(r) ==
    LET a == req[r].account
    IN  /\ At(r, "delete", "personDeleted")
        /\ inviteLock[a] = Nobody
        /\ inviteLock' = [inviteLock EXCEPT ![a] = r]
        /\ Goto(r, IF HasLogin(req[r].seen) THEN "accountDeleted" ELSE "ready")
        /\ UNCHANGED <<rows, personLock, outside>>

(* UserDeleteHandler: AdminGetUser and AdminDeleteUser both throw when     *)
(* there is no such user.                                                  *)
DeleteUser(r) ==
    LET a == req[r].account
    IN  /\ At(r, "delete", "accountDeleted")
        /\ \/ /\ login[a] # NoLogin
              /\ login' = [login EXCEPT ![a] = NoLogin]
              /\ effects' = effects \cup {r}
              /\ Goto(r, "ready")
              /\ UNCHANGED locks
           \/ /\ login[a] = NoLogin
              /\ Throw(r)
              /\ UNCHANGED <<login, effects>>
        /\ UNCHANGED <<rows, signedIn, mailed>>
-----------------------------------------------------------------------------

(* Mutant: the invitation is preserved before it is revoked.               *)
Unrevoked(i) == i

(* AccountInvitationEntity.revoke.                                         *)
Revoked(i) == [i EXCEPT !.isValid = FALSE]

(* What the transaction of r leaves of the invitations.  preserve writes   *)
(* every column as it was read, deleted_at included.                       *)
InvitationsAfter(r) ==
    LET now == invitations[req[r].account]
        new == [token |-> r, isValid |-> TRUE, deleted |-> FALSE]
        tokens == {i.token : i \in req[r].seen}
    IN  CASE req[r].kind = "create" -> {new}
          [] req[r].kind = "resend" /\ req[r].token = r -> now \cup {new}
          [] req[r].kind = "verify" ->
                {i \in now : i.token \notin tokens}
                  \cup {Revoked(i) : i \in req[r].seen}
          [] req[r].kind = "delete" ->
                {[i EXCEPT !.deleted = @ \/ i.token \in tokens] : i \in now}
          [] OTHER -> now

AccountAfter(r) == CASE req[r].kind = "create" -> "live"
                     [] req[r].kind = "delete" -> "deleted"
                     [] OTHER -> account[req[r].account]

PersonAfter(r) == CASE req[r].kind \in {"create", "rename"} -> "live"
                    [] req[r].kind = "delete" -> "deleted"
                    [] OTHER -> person[req[r].account]

Commit(r) ==
    LET a == req[r].account
    IN  /\ req[r].pc = "ready"
        /\ account' = [account EXCEPT ![a] = AccountAfter(r)]
        /\ person' = [person EXCEPT ![a] = PersonAfter(r)]
        /\ invitations' = [invitations EXCEPT ![a] = InvitationsAfter(r)]
        /\ Goto(r, "committed")
        /\ personLock' = Free(personLock, r)
        /\ inviteLock' = Free(inviteLock, r)
        /\ UNCHANGED outside

(* An e-mail, a Cognito call, a statement or the COMMIT fails, or the API  *)
(* process dies.                                                           *)
Fail(r) == /\ req[r].pc \notin {"idle", "committed", "failed"}
           /\ Throw(r)
           /\ UNCHANGED <<rows, outside>>

(* AuthenticationLoginHandler: a user with a temporary password is         *)
(* challenged for a new one instead and gets no token.                     *)
SignIn(a) == /\ login[a] # NoLogin
             /\ login[a].permanent
             /\ signedIn' = signedIn \cup {a}
             /\ UNCHANGED <<rows, locks, login, mailed, req, effects>>

Start(r) == \E a \in Accounts : \/ Create(r, a)
                                \/ Resend(r, a)
                                \/ VerifyRead(r, a)
                                \/ RenameRead(r, a)
                                \/ DeleteRead(r, a)

Proceed(r) == \/ Mail(r)
              \/ VerifyCreateUser(r)
              \/ VerifySetPassword(r)
              \/ VerifyRevoke(r)
              \/ RenameWrite(r)
              \/ DeletePerson(r)
              \/ DeleteAccount(r)
              \/ DeleteUser(r)
              \/ Commit(r)

Next == \/ \E r \in Requests : Start(r) \/ Proceed(r) \/ Fail(r)
        \/ \E a \in Accounts : SignIn(a)

Spec == Init /\ [][Next]_vars

(* A request that was started goes on: every await in a handler returns.   *)
FairSpec == Spec /\ \A r \in Requests : WF_vars(Proceed(r))
-----------------------------------------------------------------------------
(* Types of the state.                                                     *)
TypeOK == /\ account \in [Accounts -> RowStates]
          /\ person \in [Accounts -> RowStates]
          /\ invitations \in [Accounts -> SUBSET Invitation]
          /\ personLock \in [Accounts -> Requests \cup {Nobody}]
          /\ inviteLock \in [Accounts -> Requests \cup {Nobody}]
          /\ login \in [Accounts -> Logins \cup {NoLogin}]
          /\ signedIn \subseteq Accounts
          /\ mailed \subseteq Tokens
          /\ req \in [Requests -> Sent \cup {NotSent}]
          /\ effects \subseteq Requests

(* An account has one invitation, whatever create, send-invitation, verify *)
(* and delete do at the same time: a second token in circulation could be  *)
(* redeemed although the first one was.                                    *)
OneInvitationEach ==
    \A a \in Accounts :
        account[a] # "absent" => \E i \in Invitation : invitations[a] = {i}

(* Nobody is left out: the token of every account in the database has been *)
(* sent, as the e-mail is awaited before the commit.                       *)
EveryAccountMailed ==
    \A a \in Accounts : \A i \in invitations[a] : i.token \in mailed

RemovedBy(a) == OfKind(a, "delete") \cap effects

(* A verified account can sign in with the password of the request that    *)
(* redeemed its token, not with that of a concurrent one that failed,      *)
(* unless a deletion removed the login and then failed to commit.          *)
RedeemerCanSignIn ==
    \A a \in Accounts :
        /\ account[a] = "live"
        /\ \E i \in invitations[a] : ~i.isValid
        /\ RemovedBy(a) = {}
        => login[a] \in [permanent: {TRUE}, password: Redeemed(a) \cup {a}]

(* A login survives its account only through a verification that was still *)
(* running when the deletion read the account, or that failed after its    *)
(* user was created: a login whose verification had committed is deleted.  *)
NoOrphanLogin ==
    \A a \in Accounts : account[a] = "deleted" /\ login[a] # NoLogin =>
        \E r \in OfKind(a, "verify") \cap effects :
            \A d \in OfKind(a, "delete") :
                req[d].pc = "committed" => r \notin req[d].done

(* A token that was sent can be redeemed: its account has no login yet, or *)
(* a verification of it is running or failed half-way (and no other can    *)
(* succeed then, which is the price of creating the user first).           *)
TokenIsRedeemable ==
    \A a \in Accounts :
        (\E i \in Visible(a) : i.isValid) /\ login[a] # NoLogin =>
            \E r \in OfKind(a, "verify") \cap effects : req[r].pc # "committed"

(* A deletion takes the person and the invitation along, for good: one of  *)
(* them is live again only if a rename, or a verification, committed that  *)
(* had read it before a deletion committed.  (preserve writes deleted_at   *)
(* as it was read.)                                                        *)
OnlyOverlapRevives ==
    \A a \in Accounts : account[a] = "deleted" =>
        LET Reviver(kind) == \E r \in Committed(a, kind) :
                                ~(Committed(a, "delete") \subseteq req[r].done)
        IN  /\ person[a] # "deleted" => Reviver("rename")
            /\ Visible(a) # {} => Reviver("verify")

(* No two requests wait for each other's rows: each one ends.              *)
EveryRequestEnds ==
    \A r \in Requests : req[r] # NotSent ~> req[r].pc \in {"committed", "failed"}

(* An account is active when it is not deleted and has a used invitation.  *)
IsActive(a) == account[a] = "live" /\ \E i \in invitations[a] : ~i.isValid

(* README.md:32 says that the last active account is not removed: after a  *)
(* deletion there is an active one.                                        *)
ActiveAccountRemains ==
    \A a \in Accounts : Committed(a, "delete") # {} =>
        \E b \in Accounts : IsActive(b)
=============================================================================
