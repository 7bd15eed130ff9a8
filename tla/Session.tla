------------------------------- MODULE Session -------------------------------
(***************************************************************************)
(* Logins and passwords.  Each handler of modules/authentication is a few  *)
(* calls to AWS Cognito, each awaited, with other requests in between; no  *)
(* database is involved and nothing is undone when a later call fails.     *)
(* Cognito itself (external) is the map user and the set of sessions whose *)
(* refresh and access tokens it still honours.  ID tokens are not asked of *)
(* Cognito: the API checks their signature and their expiry only.          *)
(*                                                                         *)
(* An account id is the username; the e-mail is an alias of it.  Passwords,*)
(* codes and sessions are named after the request that made them.          *)
(***************************************************************************)
CONSTANTS Accounts, Requests,
          Registered,  \* accounts with a login, signed in, at the start
          Emails, StartEmail,
          NoUser, NoCode, NoToken,
          Omitted      \* an input the request does not have

ASSUME StartAssumption ==
    /\ Registered \subseteq Accounts
    /\ StartEmail \in [Registered -> Emails]
    /\ \A a, b \in Registered : StartEmail[a] = StartEmail[b] => a = b  \* an alias
ASSUME NameAssumption ==
    /\ Accounts \cap Requests = {}
    /\ {NoCode, NoToken, Omitted} \cap (Requests \cup Accounts \cup Emails) = {}

VARIABLES user,  \* account id -> its user in Cognito
          live,  \* sessions not signed out
          held,  \* sessions as clients hold them
          req    \* request -> how far its handler is

vars == <<user, live, held, req>>
-----------------------------------------------------------------------------
(* A password or session from before the start is named after its account. *)
Names == Requests \cup Accounts

(* claims: the account its custom attributes name.                         *)
Users == [password: Names, permanent: BOOLEAN, email: Emails,
          claims: Accounts, code: Requests \cup {NoCode}]

ASSUME MarkerAssumption == NoUser \notin Users

(* owner: the user that signed in; claims: what its ID token says.         *)
Sessions == [owner: Accounts, claims: Accounts, refresh: Names \cup {NoToken}]

Kinds == {"login", "refresh", "logout", "setPassword", "forgot", "confirm",
          "create", "update", "delete"}

Refusals == {"INVALID_LOGIN_CREDIDENTALS", "UNAUTHORIZED"}
Answers == Refusals \cup {"OK", "USER_NOT_FOUND", "COGNITO_RUNTIME_ERROR"}

(* account: the user the calls are about; old, email, target: the rest of  *)
(* the input; answered: the account in the answer.  History: changed,      *)
(* whether the user was changed; resent, whether the answer of a call was  *)
(* lost; done, the requests answered when this one began.                  *)
Sent == [kind: Kinds,
         pc: {"loggedIn", "mailed", "changed", "created", "updated", "found"}
               \cup Answers,
         account: Accounts, old: Names \cup {Omitted},
         email: Emails \cup {Omitted}, target: Accounts \cup {Omitted},
         answered: Accounts, changed: BOOLEAN, resent: BOOLEAN,
         done: SUBSET Requests]
NotSent == [pc |-> "idle"]

Known(a) == user[a] # NoUser
At(r, kind, pc) == req[r] # NotSent /\ req[r].kind = kind /\ req[r].pc = pc
Answered == {r \in Requests : req[r].pc \in Answers}

(* What Cognito finds under an e-mail.                                     *)
AliasOf(email) == {a \in Accounts : Known(a) /\ user[a].email = email}

New(kind, pc, a) ==
    [kind |-> kind, pc |-> pc, account |-> a, old |-> Omitted,
     email |-> Omitted, target |-> Omitted, answered |-> a,
     changed |-> FALSE, resent |-> FALSE, done |-> Answered]

Begin(r, new) == req[r] = NotSent /\ req' = [req EXCEPT ![r] = new]

Goto(r, pc) == req' = [req EXCEPT ![r].pc = pc]
Change(r, pc, a, u) == /\ req' = [req EXCEPT ![r].pc = pc, ![r].changed = TRUE]
                       /\ user' = [user EXCEPT ![a] = u]

Token(r, a) == [by |-> r, account |-> a]
SignedOut(a) == {t \in live : t.account # a}

(* auth().check: a verified ID token puts its claims on the request.  That *)
(* a token may have expired only takes steps away, so it is left out.      *)
Authenticated(a) == \E s \in held : s.claims = a

Session(r, a) == [owner |-> a, claims |-> user[a].claims, refresh |-> r]
-----------------------------------------------------------------------------
Init == /\ user = [a \in Accounts |->
              IF a \in Registered
              THEN [password |-> a, permanent |-> TRUE, claims |-> a,
                    email |-> StartEmail[a], code |-> NoCode]
              ELSE NoUser]
        /\ live = {Token(a, a) : a \in Registered}
        /\ held = {[owner |-> a, claims |-> a, refresh |-> a] : a \in Registered}
        /\ req = [r \in Requests |-> NotSent]

(* USER_PASSWORD_AUTH with the right password; a wrong one is refused.     *)
MayLogIn(a) == Known(a) /\ user[a].permanent

(* AuthenticationLoginHandler.                                             *)
Login(r, email) == \E a \in AliasOf(email) :
    /\ MayLogIn(a)
    /\ Begin(r, New("login", "OK", a))
    /\ live' = live \cup {Token(r, a)}
    /\ held' = held \cup {Session(r, a)}
    /\ UNCHANGED user

(* Mutant: the answer of Cognito, which has no refresh token, as it is.    *)
AnsweredToken(s) == NoToken

(* A refresh returns no refresh token: the handler puts the old one in the *)
(* answer.                                                                 *)
KeptToken(s) == s.refresh

(* AuthenticationRefreshTokenHandler.                                      *)
Refresh(r, s) ==
    LET a == s.owner
    IN  \/ /\ [by |-> s.refresh, account |-> a] \in live
           /\ Begin(r, New("refresh", "OK", a))
           /\ held' = (held \ {s}) \cup
                        {[s EXCEPT !.claims = user[a].claims,
                                   !.refresh = KeptToken(s)]}
           /\ UNCHANGED <<user, live>>
        \/ /\ [by |-> s.refresh, account |-> a] \notin live
           /\ Begin(r, New("refresh", "UNAUTHORIZED", a))
           /\ UNCHANGED <<user, live, held>>

(* AuthenticationLogoutHandler: the account comes with the request.        *)
Logout(r, a) == /\ Known(a)
                /\ Begin(r, New("logout", "OK", a))
                /\ live' = SignedOut(a)
                /\ UNCHANGED <<user, held>>

-----------------------------------------------------------------------------
(* UserSetPasswordHandler: signs in for an access token, changes the       *)
(* password with it, reads the user.                                       *)
SetPasswordLogin(r, a) ==
    /\ MayLogIn(a)
    /\ Begin(r, [New("setPassword", "loggedIn", a) EXCEPT !.old = user[a].password])
    /\ live' = live \cup {Token(r, a)}
    /\ UNCHANGED <<user, held>>

(* Mutant: AdminSetUserPassword, which asks for no previous password.      *)
MayAdminChange(r) == Known(req[r].account)

(* ChangePassword: the access token must be good, the old password right.  *)
MayChange(r) == LET a == req[r].account
                IN  /\ Known(a)
                    /\ Token(r, a) \in live
                    /\ user[a].password = req[r].old

(* The SDK sends a call again when its answer was lost.                    *)
SetPasswordChange(r) ==
    LET a == req[r].account
    IN  /\ At(r, "setPassword", "loggedIn")
        /\ \/ /\ MayChange(r)
              /\ \/ Change(r, "changed", a, [user[a] EXCEPT !.password = r])
                 \/ /\ ~req[r].resent
                    /\ req' = [req EXCEPT ![r].changed = TRUE, ![r].resent = TRUE]
                    /\ user' = [user EXCEPT ![a].password = r]
           \/ /\ ~MayChange(r)
              /\ Goto(r, IF Known(a) /\ Token(r, a) \in live
                         THEN "INVALID_LOGIN_CREDIDENTALS"
                         ELSE "UNAUTHORIZED")
              /\ UNCHANGED user
        /\ UNCHANGED <<live, held>>

(* AdminGetUser at the end of the password handlers.                       *)
ReadUser(r) ==
    /\ At(r, "setPassword", "changed") \/ At(r, "confirm", "changed")
    /\ Goto(r, IF Known(req[r].account) THEN "OK" ELSE "USER_NOT_FOUND")
    /\ UNCHANGED <<user, live, held>>

(* UserSetForgotPasswordHandler: ForgotPassword mails a code that replaces *)
(* the one before it.                                                      *)
Forgot(r, email) == \E a \in AliasOf(email) :
    /\ user[a].permanent
    /\ Begin(r, [New("forgot", "mailed", a) EXCEPT !.email = email])
    /\ user' = [user EXCEPT ![a].code = r]
    /\ UNCHANGED <<live, held>>

(* Mutant: the user of the request's ID token instead of the e-mail's.     *)
ForgotCaller(r) == {a \in Accounts : Authenticated(a)}

ForgotFound(r) == AliasOf(req[r].email)

(* Its AdminGetUser, by the e-mail again.                                  *)
ForgotRead(r) ==
    /\ At(r, "forgot", "mailed")
    /\ \/ \E a \in ForgotFound(r) :
             req' = [req EXCEPT ![r].pc = "OK", ![r].answered = a]
       \/ ForgotFound(r) = {} /\ Goto(r, "USER_NOT_FOUND")
    /\ UNCHANGED <<user, live, held>>

(* UserConfirmForgotPasswordHandler, with the account a forgot request     *)
(* answered and the code it mailed.  A wrong code is none of the errors    *)
(* the client tells apart.                                                 *)
Confirm(r, f) ==
    LET a == req[f].answered
    IN  /\ At(f, "forgot", "OK")
        /\ Known(a)
        /\ \/ /\ user[a].code = f
              /\ Begin(r, [New("confirm", "changed", a) EXCEPT !.changed = TRUE])
              /\ user' = [user EXCEPT ![a].password = r, ![a].code = NoCode]
           \/ /\ user[a].code # f
              /\ Begin(r, New("confirm", "COGNITO_RUNTIME_ERROR", a))
              /\ UNCHANGED user
        /\ UNCHANGED <<live, held>>
-----------------------------------------------------------------------------
(* UserCreateHandler, called by a verification: AdminCreateUser with a     *)
(* password nobody knows, then AdminSetUserPassword.                       *)
Create(r, a, email) ==
    /\ ~Known(a) /\ AliasOf(email) = {}
    /\ Begin(r, [New("create", "created", a) EXCEPT !.email = email])
    /\ user' = [user EXCEPT ![a] = [password |-> a, permanent |-> FALSE,
                                    claims |-> a, email |-> email,
                                    code |-> NoCode]]
    /\ UNCHANGED <<live, held>>

CreateSetPassword(r) ==
    LET a == req[r].account
    IN  /\ At(r, "create", "created")
        /\ \/ /\ Known(a)
              /\ Change(r, "OK", a, [user[a] EXCEPT !.password = r,
                                                    !.permanent = TRUE])
           \/ ~Known(a) /\ Goto(r, "USER_NOT_FOUND") /\ UNCHANGED user
        /\ UNCHANGED <<live, held>>

(* Mutant: the attributes of the account whose contact detail it is.       *)
OwnerClaims(r) == req[r].target

(* The attributes are sent again as the caller's ID token has them.        *)
CallerClaims(r) == req[r].account

(* UserUpdateHandler, called for a new e-mail in the contact detail of an  *)
(* account: AdminUpdateUserAttributes of the caller.                       *)
Update(r, a, target, email) ==
    /\ Authenticated(a)
    /\ Begin(r, [New("update", "found", a) EXCEPT !.email = email,
                                               !.target = target])
    /\ UNCHANGED <<user, live, held>>

UpdateAttributes(r) ==
    LET a == req[r].account
        email == req[r].email
    IN  /\ At(r, "update", "found")
        /\ \/ /\ Known(a) /\ AliasOf(email) \subseteq {a}
              /\ Change(r, "updated", a, [user[a] EXCEPT
                          !.email = email, !.claims = CallerClaims(r)])
           \/ ~Known(a) /\ Goto(r, "USER_NOT_FOUND") /\ UNCHANGED user
           \/ /\ Known(a) /\ ~(AliasOf(email) \subseteq {a})
              /\ Goto(r, "COGNITO_RUNTIME_ERROR") /\ UNCHANGED user
        /\ UNCHANGED <<live, held>>

(* Its AdminUserGlobalSignOut.                                             *)
UpdateSignOut(r) ==
    LET a == req[r].account
    IN  /\ At(r, "update", "updated")
        /\ \/ Known(a) /\ Goto(r, "OK") /\ live' = SignedOut(a)
           \/ ~Known(a) /\ Goto(r, "USER_NOT_FOUND") /\ UNCHANGED live
        /\ UNCHANGED <<user, held>>

(* UserDeleteHandler, called by a deletion of a by another account of the  *)
(* subscription (of another one it would be FORBIDDEN): AdminGetUser finds *)
(* the user, AdminDeleteUser removes it.                                   *)
Delete(r, a) ==
    /\ \E by \in Accounts \ {a} : Authenticated(by)
    /\ Known(a)
    /\ Begin(r, New("delete", "found", a))
    /\ UNCHANGED <<user, live, held>>

DeleteUser(r) ==
    LET a == req[r].account
    IN  /\ At(r, "delete", "found")
        /\ \/ Known(a) /\ Change(r, "OK", a, NoUser) /\ live' = SignedOut(a)
           \/ /\ ~Known(a)
              /\ Goto(r, "USER_NOT_FOUND")
              /\ UNCHANGED <<user, live>>
        /\ UNCHANGED held

(* Mutant: an error keeps the name that Cognito gives it.                  *)
CognitoName == "TooManyRequestsException"

(* Mutant: without its third branch the interceptor takes every error for  *)
(* a refusal.                                                              *)
TakenForRefusal == "UNAUTHORIZED"

(* _executeCommand, an error that is neither UserNotFound nor NotAuthorized. *)
OtherError == "COGNITO_RUNTIME_ERROR"

(* A call fails: Cognito throttles it, or cannot be reached.               *)
CallFails(r) == /\ req[r] # NotSent /\ req[r].pc \notin Answers
                /\ Goto(r, OtherError)
                /\ UNCHANGED <<user, live, held>>

Start(r) == \/ \E e \in Emails : Login(r, e) \/ Forgot(r, e)
            \/ \E s \in held : Refresh(r, s)
            \/ \E f \in Requests : Confirm(r, f)
            \/ \E a \in Accounts :
                  \/ Logout(r, a)
                  \/ SetPasswordLogin(r, a)
                  \/ Delete(r, a)
                  \/ \E e \in Emails : \/ Create(r, a, e)
                                       \/ \E t \in Accounts : Update(r, a, t, e)

Proceed(r) == \/ SetPasswordChange(r)
              \/ ReadUser(r)
              \/ ForgotRead(r)
              \/ CreateSetPassword(r)
              \/ UpdateAttributes(r)
              \/ UpdateSignOut(r)
              \/ DeleteUser(r)
              \/ CallFails(r)

Next == \E r \in Requests : Start(r) \/ Proceed(r)

Spec == Init /\ [][Next]_vars
-----------------------------------------------------------------------------
(* Types of the state.                                                     *)
TypeOK == /\ user \in [Accounts -> Users \cup {NoUser}]
          /\ live \subseteq [by: Names, account: Accounts]
          /\ held \subseteq Sessions
          /\ req \in [Requests -> Sent \cup {NotSent}]

(* Two password changes that start from the same password do not both      *)
(* succeed: the later one would undo the earlier one unseen.  Each signs   *)
(* in long before it changes the password; what makes them safe is that    *)
(* ChangePassword is given the old password once more                      *)
(* (user.set-password.handler.ts:39-45).                                   *)
OneChangePerPassword ==
    \A r, s \in Requests :
        At(r, "setPassword", "OK") /\ At(s, "setPassword", "OK") /\ r # s =>
            req[r].old # req[s].old

(* A request that is answered with a refusal changed nothing, although its *)
(* calls are not undone (aws-cognito.client.ts:45-57 keeps a refusal apart *)
(* from a failure half-way).  The exception is a lost answer: the SDK      *)
(* repeats a password change that was made, with a password that is no     *)
(* longer right.                                                           *)
RefusedMeansUnchanged ==
    \A r \in Requests :
        req[r].pc \in Refusals /\ req[r].changed => req[r].resent

ChangedSince(r, kinds, a) ==
    \E u \in Requests \ req[r].done : /\ req[u] # NotSent
                                      /\ req[u].kind \in kinds
                                      /\ req[u].account = a
                                      /\ req[u].changed

(* A forgotten-password request answers with the account that its code was *)
(* mailed to; the e-mail is looked up twice, and only a change of that     *)
(* account's e-mail in between makes it another                            *)
(* (user.set-forgot-password.handler.ts:22-32).                            *)
ResetReachesItsAccount ==
    \A r \in Requests :
        At(r, "forgot", "OK") /\ req[r].answered # req[r].account =>
            ChangedSince(r, {"update", "delete"}, req[r].account)

DoneBefore(t) == IF t \in Requests THEN req[t].done ELSE {}

(* A client that signed in can refresh for as long as nobody signs the     *)
(* account out: also after a refresh it holds a refresh token              *)
(* (authentication.refresh-token.handler.ts:27-28).                        *)
SessionContinues ==
    \A s \in held :
        \/ [by |-> s.refresh, account |-> s.owner] \in live
        \/ /\ s.refresh \in Names
           /\ \E o \in Requests \ DoneBefore(s.refresh) :
                 /\ req[o] # NotSent
                 /\ req[o].kind \in {"logout", "update", "delete"}
                 /\ req[o].account = s.owner

(* The ID token of a user names the account of that user, although an      *)
(* update writes the attributes it names from an ID token that may be old  *)
(* (user.update.handler.ts:25-39).                                         *)
TokensNameTheirAccount == \A s \in held : s.claims = s.owner
=============================================================================
