----------------------------- MODULE LoginEmail -----------------------------
(***************************************************************************)
(* The e-mail address of an account, kept twice: as the contact detail of  *)
(* its person in PostgreSQL and as the e-mail of its login in AWS Cognito. *)
(* A contact detail has one type (EMAIL) and one tag (APP_SIGNUP), so each *)
(* detail is taken for a login e-mail.                                     *)
(*                                                                         *)
(* One row per account stands for its contact detail with its relation.    *)
(* READ COMMITTED: a read sees committed rows, an UPDATE waits for the     *)
(* transaction that holds the row; Cognito calls are not rolled back.  A   *)
(* request turned away before it changes anything is no step.              *)
(***************************************************************************)
EXTENDS Integers

CONSTANTS Accounts, Requests,
          Founders,    \* accounts of one subscription, signed in at the start
          Emails,
          StartEmail,  \* the e-mail of each founder
          Unset,       \* an update that gives no detail
          Empty,       \* an update whose detail is ''
          NoLogin, NoDetail, Nobody

ASSUME StartAssumption ==
    /\ Founders \subseteq Accounts
    /\ StartEmail \in [Founders -> Emails]
ASSUME MarkerAssumption ==
    /\ {Unset, Empty, NoLogin} \cap Emails = {}
    /\ Unset # Empty
    /\ Accounts \cap Requests = {} /\ Nobody \notin Accounts \cup Requests

VARIABLES detail,   \* account id -> its contact_detail row
          gone,     \* accounts that are deleted
          lock,     \* account id -> request holding its contact_detail row
          login,    \* account id -> the e-mail it signs in with
          req,      \* request -> how far its handler is
          teller,   \* history: what last set the e-mail of a login
          writer    \* history: what last changed the e-mail of a row

rows == <<detail, gone, writer>>
cognito == <<login, teller>>
vars == <<detail, gone, lock, login, req, teller, writer>>
-----------------------------------------------------------------------------
(* home: the account that signed its subscription up (Nobody: before the   *)
(* start).                                                                 *)
Details == [email: Emails \cup {Empty}, live: BOOLEAN,
            home: Accounts \cup {Nobody}]

ASSUME NoDetailAssumption == NoDetail \notin Details

Kinds == {"signUp", "create", "verify", "update", "delete"}

(* by: the caller; seen: the row as it was read; done: history, what was   *)
(* committed at that time.                                                 *)
Sent == [kind: Kinds,
         pc: {"read", "written", "told", "ready", "committed", "failed"},
         account: Accounts, by: Accounts, email: Emails \cup {Unset, Empty},
         seen: Details \cup {NoDetail},
         done: SUBSET (Requests \cup Accounts)]
NotSent == [pc |-> "idle"]

Done == Founders \cup {r \in Requests : req[r].pc = "committed"}

At(r, kind, pc) == req[r] # NotSent /\ req[r].kind = kind /\ req[r].pc = pc

Goto(r, pc) == req' = [req EXCEPT ![r].pc = pc]

Begin(r, kind, pc, a, by, email) ==
    /\ req[r] = NotSent
    /\ req' = [req EXCEPT ![r] =
                 [kind |-> kind, pc |-> pc, account |-> a, by |-> by,
                  email |-> email, seen |-> detail[a], done |-> Done]]
    /\ UNCHANGED <<rows, lock, cognito>>

Exists(a) == detail[a] # NoDetail
Live(a) == Exists(a) /\ detail[a].live

(* The rows a query without withDeleted() returns.                         *)
LiveEmails == {detail[a].email : a \in {b \in Accounts : Live(b)}}

(* Who may call: an account that has or had a login since its password was *)
(* set there, before its verification commits and even if that fails.  An  *)
(* ID token is checked by its signature alone: it stays good after its     *)
(* account was deleted.                                                    *)
SignedIn(a) == a \in Founders \/ teller[a] \in Requests

(* The invitation of a is no longer valid.                                 *)
Redeemed(a) == \/ a \in Founders
               \/ \E r \in Requests : At(r, "verify", "committed")
                                      /\ req[r].account = a

(* addUserViewPermissionFiltertoContactDetail: created by the caller, or   *)
(* related to the caller's subscription; here the one implies the other.   *)
IsViewer(by, a) == Exists(by) /\ detail[a].home = detail[by].home
-----------------------------------------------------------------------------
Init == /\ detail = [a \in Accounts |->
              IF a \in Founders
              THEN [email |-> StartEmail[a], live |-> TRUE, home |-> Nobody]
              ELSE NoDetail]
        /\ gone = {}
        /\ lock = [a \in Accounts |-> Nobody]
        /\ login = [a \in Accounts |->
              IF a \in Founders THEN StartEmail[a] ELSE NoLogin]
        /\ req = [r \in Requests |-> NotSent]
        /\ teller = [a \in Accounts |-> a]
        /\ writer = [a \in Accounts |-> a]

Fresh(a) == ~Exists(a) /\ \A r \in Requests :
                req[r] # NotSent => req[r].account # a

(* Mutant: only the e-mails of logins count as taken.                      *)
IsTakenInCognito(email) == \E a \in Accounts : login[a] = email

IsEmailAlreadyTaken(email) == email \in LiveEmails

(* SubscriptionCreateHandler: validate, then the inserts, then an e-mail   *)
(* and an event before the commit.                                         *)
SignUp(r, a, email) == /\ Fresh(a)
                       /\ ~IsEmailAlreadyTaken(email)
                       /\ Begin(r, "signUp", "ready", a, a, email)

(* AccountCreateHandler: no check.                                         *)
Create(r, a, by, email) == /\ Fresh(a)
                           /\ SignedIn(by)
                           /\ Begin(r, "create", "ready", a, by, email)

(* PersonAccountVerifyHandler, with an invitation that was not redeemed.   *)
VerifyRead(r, a) == /\ Live(a) /\ a \notin gone /\ ~Redeemed(a)
                    /\ Begin(r, "verify", "read", a, a, Unset)

(* ContactDetailUpdateHandler, getOne.                                     *)
UpdateRead(r, a, by, email) == /\ SignedIn(by)
                               /\ Live(a) /\ IsViewer(by, a)
                               /\ Begin(r, "update", "read", a, by, email)

(* AccountDeleteHandler: one's own account is FORBIDDEN.                   *)
DeleteRead(r, a, by) == /\ SignedIn(by) /\ by # a
                        /\ Live(a) /\ a \notin gone /\ IsViewer(by, a)
                        /\ Begin(r, "delete", "read", a, by, Unset)

Start(r) == \E a \in Accounts :
    \/ \E e \in Emails : SignUp(r, a, e)
    \/ \E e \in Emails, by \in Accounts : Create(r, a, by, e)
    \/ VerifyRead(r, a)
    \/ \E e \in Emails \cup {Unset, Empty}, by \in Accounts :
           UpdateRead(r, a, by, e)
    \/ \E by \in Accounts : DeleteRead(r, a, by)
-----------------------------------------------------------------------------
Free(r) == lock' = [a \in Accounts |-> IF lock[a] = r THEN Nobody ELSE lock[a]]

(* The handler throws and TypeORM rolls back; what Cognito did stays.      *)
Throw(r) == Goto(r, "failed") /\ Free(r)

(* Cognito signs in with the e-mail: an e-mail that is another user's      *)
(* alias is refused.                                                       *)
AliasFree(a, email) == \A b \in Accounts \ {a} : login[b] # email

SetLoginEmail(r, a, email) ==
    /\ login' = [login EXCEPT ![a] = email]
    /\ teller' = [teller EXCEPT ![a] = r]

(* provideLoginUser with the detail that was read with the account:        *)
(* AdminCreateUser and AdminSetUserPassword.  Cognito makes no user        *)
(* without an e-mail.                                                      *)
VerifyCreateUser(r) ==
    LET a == req[r].account
        email == req[r].seen.email
        accepted == login[a] = NoLogin /\ email # Empty /\ AliasFree(a, email)
    IN  /\ At(r, "verify", "read")
        /\ \/ /\ accepted
              /\ SetLoginEmail(r, a, email)
              /\ Goto(r, "ready")
              /\ UNCHANGED lock
           \/ /\ ~accepted
              /\ Throw(r)
              /\ UNCHANGED cognito
        /\ UNCHANGED rows

(* isLoginEmailChange: `!!props.detail`, so '' is no change.               *)
IsLoginEmailChange(email) == email \in Emails

(* Mutant: the row is not updated before Cognito is, so nothing is held    *)
(* across the call.                                                        *)
UpdateWriteUnlocked(r) ==
    /\ At(r, "update", "read")
    /\ Goto(r, IF IsLoginEmailChange(req[r].email) THEN "written" ELSE "ready")
    /\ UNCHANGED <<rows, lock, cognito>>

(* preserve: one UPDATE by id, which waits for the row and holds it.       *)
UpdateWrite(r) ==
    LET a == req[r].account
    IN  /\ At(r, "update", "read")
        /\ lock[a] = Nobody
        /\ lock' = [lock EXCEPT ![a] = r]
        /\ Goto(r, IF IsLoginEmailChange(req[r].email) THEN "written" ELSE "ready")
        /\ UNCHANGED <<rows, cognito>>

(* updateLoginEmail(command.user, ...): the caller's login.                *)
UpdatedUser(r) == req[r].by

(* UserUpdateHandler, AdminUpdateUserAttributes.                           *)
UpdateTell(r) ==
    LET u == UpdatedUser(r)
        email == req[r].email
    IN  /\ At(r, "update", "written")
        /\ \/ /\ login[u] # NoLogin /\ AliasFree(u, email)
              /\ SetLoginEmail(r, u, email)
              /\ Goto(r, "told")
              /\ UNCHANGED lock
           \/ /\ login[u] = NoLogin \/ ~AliasFree(u, email)
              /\ Throw(r)
              /\ UNCHANGED cognito
        /\ UNCHANGED rows

(* UserUpdateHandler, AdminUserGlobalSignOut.                              *)
UpdateSignOut(r) == /\ At(r, "update", "told")
                    /\ \/ login[UpdatedUser(r)] # NoLogin
                          /\ Goto(r, "ready") /\ UNCHANGED lock
                       \/ login[UpdatedUser(r)] = NoLogin /\ Throw(r)
                    /\ UNCHANGED <<rows, cognito>>

(* AccountDeleteHandler, softDelete of the contact detail.                 *)
DeleteWrite(r) ==
    LET a == req[r].account
    IN  /\ At(r, "delete", "read")
        /\ lock[a] = Nobody
        /\ lock' = [lock EXCEPT ![a] = r]
        /\ Goto(r, IF a \in Founders \/ \E v \in req[r].done \cap Requests :
                                   At(v, "verify", "committed")
                                   /\ req[v].account = a
                   THEN "written" ELSE "ready")
        /\ UNCHANGED <<rows, cognito>>

(* UserDeleteHandler throws when there is no such user.                    *)
DeleteUser(r) ==
    LET a == req[r].account
    IN  /\ At(r, "delete", "written")
        /\ \/ /\ login[a] # NoLogin
              /\ SetLoginEmail(r, a, NoLogin)
              /\ Goto(r, "ready")
              /\ UNCHANGED lock
           \/ /\ login[a] = NoLogin
              /\ Throw(r)
              /\ UNCHANGED cognito
        /\ UNCHANGED rows
-----------------------------------------------------------------------------
(* Mutant: `props.detail ?? ''`, a detail that is not given blanks it.      *)
UpdatedToEmpty(r) == [req[r].seen EXCEPT
                        !.email = IF req[r].email = Unset THEN Empty ELSE req[r].email]

(* ContactDetailEntity.update, and preserve: every column as it was read,  *)
(* deleted_at included.                                                    *)
UpdatedDetail(r) == [req[r].seen EXCEPT
                       !.email = IF req[r].email = Unset THEN @ ELSE req[r].email]

NewDetail(r) == [email |-> req[r].email, live |-> TRUE,
                 home |-> IF req[r].kind = "signUp" THEN req[r].account
                          ELSE detail[req[r].by].home]

(* Mutant: the deletion passes over the contact details.                   *)
DetailKept(r) ==
    CASE req[r].kind \in {"signUp", "create"} -> NewDetail(r)
      [] req[r].kind = "update" -> UpdatedDetail(r)
      [] OTHER -> detail[req[r].account]

DetailAfter(r) ==
    CASE req[r].kind \in {"signUp", "create"} -> NewDetail(r)
      [] req[r].kind = "update" -> UpdatedDetail(r)
      [] req[r].kind = "delete" -> [detail[req[r].account] EXCEPT !.live = FALSE]
      [] OTHER -> detail[req[r].account]

EmailOf(d) == IF d = NoDetail THEN Unset ELSE d.email

Commit(r) ==
    LET a == req[r].account
    IN  /\ req[r].pc = "ready"
        /\ detail' = [detail EXCEPT ![a] = DetailAfter(r)]
        /\ gone' = IF req[r].kind = "delete" THEN gone \cup {a} ELSE gone
        /\ writer' = IF EmailOf(detail[a]) = EmailOf(detail'[a]) THEN writer
                     ELSE [writer EXCEPT ![a] = r]
        /\ Goto(r, "committed")
        /\ Free(r)
        /\ UNCHANGED cognito

(* A statement, a Cognito call, an e-mail or the COMMIT fails, or the      *)
(* process dies.                                                           *)
Fail(r) == /\ req[r].pc \notin {"idle", "committed", "failed"}
           /\ Throw(r)
           /\ UNCHANGED <<rows, cognito>>

Next == \E r \in Requests : \/ Start(r)
                            \/ VerifyCreateUser(r)
                            \/ UpdateWrite(r)
                            \/ UpdateTell(r)
                            \/ UpdateSignOut(r)
                            \/ DeleteWrite(r)
                            \/ DeleteUser(r)
                            \/ Commit(r)
                            \/ Fail(r)

Spec == Init /\ [][Next]_vars
-----------------------------------------------------------------------------
(* Types of the state.                                                     *)
TypeOK == /\ detail \in [Accounts -> Details \cup {NoDetail}]
          /\ gone \subseteq Accounts
          /\ lock \in [Accounts -> Requests \cup {Nobody}]
          /\ login \in [Accounts -> Emails \cup {NoLogin}]
          /\ req \in [Requests -> Sent \cup {NotSent}]
          /\ teller \in [Accounts -> Accounts \cup Requests]
          /\ writer \in [Accounts -> Accounts \cup Requests]

IsUpdate(r) == r \in Requests /\ req[r].kind = "update"

(* Why the login of a may differ from its stored detail: the update that   *)
(* last set the login has not committed, or was of a colleague's detail;   *)
(* the verification that made the login read the row before it changed;    *)
(* the row was last changed by a colleague, or by an update that gave no   *)
(* e-mail.                                                                 *)
DifferenceExplained(a) ==
    LET t == teller[a]
        w == writer[a]
    IN  \/ IsUpdate(t) /\ (req[t].pc # "committed" \/ req[t].account # a)
        \/ t \in Requests /\ req[t].kind = "verify" /\ w \notin req[t].done
        \/ IsUpdate(w) /\ (req[w].by # a \/ req[w].email \notin Emails)

(* The two copies of an e-mail differ for those reasons only.  Above all:  *)
(* when somebody changes their own e-mail twice at the same time, the two  *)
(* copies end with the same one, as the row is held across the Cognito     *)
(* calls (contact-detail.update.handler.ts:46-50).                         *)
LoginEmailExplained ==
    \A a \in Accounts :
        Live(a) /\ login[a] # NoLogin /\ login[a] # detail[a].email =>
            DifferenceExplained(a)

(* A sign-up whose e-mail is stored twice had a reason: the other row got  *)
(* it while the sign-up ran, as no table keeps e-mails unique and          *)
(* isEmailAlreadyTaken looks at the committed rows                         *)
(* (subscription.create.handler.ts:88-98), or the other row was deleted    *)
(* then and an update has brought it back.                                 *)
SignUpsOverlap ==
    \A a, b \in Accounts :
        /\ a # b /\ Live(a) /\ Live(b) /\ detail[a].email = detail[b].email
        /\ writer[b] \in Requests /\ req[writer[b]].kind = "signUp"
        => writer[a] \notin req[writer[b]].done \/ a \in gone

(* An update that gives no detail changes the stored e-mail only by        *)
(* putting back one that was replaced since it read the row (preserve      *)
(* writes every column, contact-detail.typeorm.repository.ts:36-52).       *)
OnlyOverlapReverts ==
    [][\A r \in Requests :
         LET a == req[r].account
         IN  req[r].pc = "ready" /\ req'[r].pc = "committed"
             /\ req[r].kind = "update" /\ req[r].email = Unset
             /\ detail'[a].email # detail[a].email
             => writer[a] \notin req[r].done]_vars

Committed(a, kind) ==
    {r \in Requests : At(r, kind, "committed") /\ req[r].account = a}

(* A deletion takes the contact detail along, for good: it is live again   *)
(* only if an update committed that had read it before a deletion did.     *)
(* (A live one keeps its e-mail taken for sign-ups.)                       *)
OnlyOverlapRevives ==
    \A a \in gone : Live(a) =>
        \E r \in Committed(a, "update") : ~(Committed(a, "delete") \subseteq req[r].done)
=============================================================================
