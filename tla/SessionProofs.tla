---------------------------- MODULE SessionProofs ----------------------------
(***************************************************************************)
(* Theorems about Session for any accounts, e-mails and requests.  Every   *)
(* step of a request is about one account: Step gives what it does to the  *)
(* requests, to that user and to the sessions, and each part of the        *)
(* inductive invariant is shown from that, not action by action.           *)
(***************************************************************************)
EXTENDS Session, TLAPS

IsSent(r) == req[r] # NotSent
Is(r, kind) == IsSent(r) /\ req[r].kind = kind

(* The users Cognito has: a session is of a user that may sign in, an ID   *)
(* token names its user, and an e-mail is the alias of one user.           *)
LiveInv == \A t \in live : MayLogIn(t.account)

ClaimsInv == \A a \in Accounts : Known(a) => user[a].claims = a

AliasInv == \A a, b \in Accounts :
    Known(a) /\ Known(b) /\ user[a].email = user[b].email => a = b

HeldInv == \A s \in held : /\ s.claims = s.owner
                           /\ s.refresh \in Names
                           /\ s.refresh \in Requests => IsSent(s.refresh)

(* An answer is final.                                                     *)
DoneInv == \A r \in Requests : IsSent(r) => req[r].done \subseteq Answered

(* When the user was changed.                                              *)
PcOk(r) ==
    /\ req[r].pc \in Refusals \cup {"loggedIn"} /\ req[r].changed => req[r].resent
    /\ req[r].kind = "setPassword" /\ req[r].pc \in {"changed", "OK"} => req[r].changed
    /\ req[r].pc = "loggedIn" => req[r].kind = "setPassword"
    /\ req[r].pc = "created" => ~req[r].changed
    /\ req[r].kind = "update" => req[r].email \in Emails

PcInv == \A r \in Requests : IsSent(r) => PcOk(r)

(* Every password but the first of an account is of the request that set   *)
(* it; a password that was changed is not the user's again.                *)
SetBy(p, a) == \/ p = a
               \/ p \in Requests /\ IsSent(p) /\ req[p].account = a /\ req[p].changed

PasswordInv ==
    /\ \A a \in Accounts : Known(a) => SetBy(user[a].password, a)
    /\ \A r \in Requests : Is(r, "setPassword") => SetBy(req[r].old, req[r].account)

HasChanged(r) == Is(r, "setPassword") /\ req[r].changed

SpentInv == \A r \in Requests :
    HasChanged(r) /\ MayLogIn(req[r].account) =>
        user[req[r].account].password # req[r].old

OnceInv == \A r, s \in Requests :
    HasChanged(r) /\ HasChanged(s) /\ r # s => req[r].old # req[s].old

(* The e-mail of a forgotten-password request finds the same account again *)
(* unless that account was changed.                                        *)
ForgotOk(r) ==
    \/ ChangedSince(r, {"update", "delete"}, req[r].account)
    \/ /\ req[r].pc = "mailed" /\ req[r].answered = req[r].account
       /\ Known(req[r].account) /\ user[req[r].account].email = req[r].email
    \/ req[r].pc # "mailed" /\ req[r].answered = req[r].account

ForgotInv == \A r \in Requests : Is(r, "forgot") => ForgotOk(r)

IInv == /\ TypeOK /\ LiveInv /\ ClaimsInv /\ AliasInv /\ HeldInv /\ DoneInv /\ PcInv
        /\ PasswordInv /\ SpentInv /\ OnceInv /\ ForgotInv /\ SessionContinues
-----------------------------------------------------------------------------
Pcs == {"loggedIn", "mailed", "changed", "created", "updated", "found"} \cup Answers

LEMMA SentRecord ==
  ASSUME TypeOK, NEW r \in Requests, IsSent(r)
  PROVE  /\ req[r] \in Sent
         /\ req[r].kind \in Kinds /\ req[r].pc \in Pcs
         /\ req[r].account \in Accounts /\ req[r].answered \in Accounts
         /\ req[r].old \in Names \cup {Omitted}
         /\ req[r].changed \in BOOLEAN /\ req[r].resent \in BOOLEAN
         /\ req[r].done \subseteq Requests
<1>1. req[r] \in Sent
  BY DEF TypeOK, IsSent
<1>2. QED
  BY <1>1 DEF Sent, Pcs

LEMMA SentIsSent ==
  ASSUME NEW m \in Sent
  PROVE  m # NotSent
<1>1. m.pc \in Pcs
  BY DEF Sent, Pcs
<1>2. "idle" \notin Pcs
  BY DEF Pcs, Answers, Refusals
<1>3. NotSent.pc = "idle"
  BY DEF NotSent
<1>4. QED
  BY <1>1, <1>2, <1>3

(* A record a request starts with.                                         *)
LEMMA NewRecord ==
  ASSUME NEW kind \in Kinds, NEW pc \in Pcs, NEW a \in Accounts,
         NEW old \in Names \cup {Omitted}, NEW email \in Emails \cup {Omitted},
         NEW target \in Accounts \cup {Omitted}, NEW changed \in BOOLEAN
  PROVE  LET new == [New(kind, pc, a) EXCEPT !.old = old, !.email = email,
                        !.target = target, !.changed = changed]
         IN  /\ new \in Sent
             /\ new.kind = kind /\ new.pc = pc /\ new.account = a /\ new.old = old
             /\ new.email = email /\ new.answered = a /\ new.changed = changed
             /\ ~new.resent /\ new.done = Answered
<1>1. Answered \subseteq Requests
  BY DEF Answered
<1>2. QED
  BY <1>1 DEF New, Sent, Pcs
-----------------------------------------------------------------------------
(* What a step of request r about account a does to the requests ...       *)
Begins(r, a) ==
    /\ ~IsSent(r) /\ r \notin Answered
    /\ \E new \in Sent :
          /\ req' = [req EXCEPT ![r] = new]
          /\ new.account = a /\ new.answered = a
          /\ new.done = Answered
          /\ new.pc \in Refusals \cup {"loggedIn", "created"} => ~new.changed
          /\ new.pc = "loggedIn" => new.kind = "setPassword"
          /\ new.kind = "setPassword" =>
                /\ new.pc = "loggedIn"
                /\ MayLogIn(a) /\ new.old = user[a].password /\ user' = user
          /\ new.kind = "update" => new.email \in Emails
          /\ new.kind = "forgot" =>
                new.pc = "mailed" /\ Known(a) /\ user[a].email = new.email

GoesOn(r, a) ==
    /\ IsSent(r) /\ r \notin Answered
    /\ req[r].account = a
    /\ \E m \in Sent :
          /\ req' = [req EXCEPT ![r] = m]
          /\ m.kind = req[r].kind /\ m.account = a /\ m.old = req[r].old
          /\ m.email = req[r].email /\ m.done = req[r].done
          /\ req[r].changed => m.changed
          /\ m.pc \notin {"created", "mailed"}
          /\ \/ m.answered = req[r].answered
             \/ req[r].pc = "mailed" /\ m.answered \in AliasOf(req[r].email)
          /\ m.pc = "loggedIn" => req[r].pc = "loggedIn"

(* ... to the users ...                                                    *)
Becomes(a, u) == u \in Users /\ user' = [user EXCEPT ![a] = u]

KeepsPassword(a, u) == /\ u.password = user[a].password
                       /\ u.permanent = user[a].permanent

KeepsEmail(a, u) == u.email = user[a].email /\ u.claims = user[a].claims

NewCode(a) == Known(a) /\ \E u : Becomes(a, u) /\ KeepsPassword(a, u) /\ KeepsEmail(a, u)

NewPassword(r, a) ==
    /\ Known(a) /\ req'[r].changed
    /\ IsSent(r) /\ req[r].changed => Is(r, "setPassword") /\ MayChange(r)
    /\ \E u : /\ Becomes(a, u) /\ KeepsEmail(a, u)
              /\ u.password = r
              /\ user[a].permanent => u.permanent

NewUser(a) ==
    /\ ~Known(a)
    /\ \E u : /\ Becomes(a, u)
              /\ u.password = a /\ ~u.permanent /\ u.claims = a
              /\ AliasOf(u.email) = {}

NewEmail(r, a) ==
    /\ Known(a) /\ Is(r, "update") /\ req'[r].changed
    /\ \E u : /\ Becomes(a, u) /\ KeepsPassword(a, u)
              /\ u.claims = a /\ AliasOf(u.email) \subseteq {a}

NoMoreUser(r, a) ==
    /\ Is(r, "delete") /\ req'[r].changed
    /\ user' = [user EXCEPT ![a] = NoUser] /\ live' = SignedOut(a)

UserChange(r, a) == \/ user' = user \/ NewCode(a) \/ NewPassword(r, a)
                    \/ NewUser(a) \/ NewEmail(r, a) \/ NoMoreUser(r, a)

(* ... and to the sessions.                                                *)
SignsIn(r, a) == /\ user' = user /\ MayLogIn(a)
                 /\ live' = live \cup {Token(r, a)}

SignsOut(r, a) == /\ req'[r].kind \in {"logout", "update", "delete"}
                  /\ live' = SignedOut(a)

NewSession(r, a) == /\ SignsIn(r, a) /\ Known(a)
                    /\ held' = held \cup {Session(r, a)}

Refreshed(s) == /\ Known(s.owner) /\ live' = live
                /\ [by |-> s.refresh, account |-> s.owner] \in live
                /\ held' = (held \ {s}) \cup
                      {[s EXCEPT !.claims = user[s.owner].claims,
                                 !.refresh = s.refresh]}

SessionChange(r, a) ==
    /\ live' = live \/ SignsIn(r, a) \/ SignsOut(r, a)
    /\ held' = held \/ NewSession(r, a) \/ \E s \in held : Refreshed(s)

LEMMA StartView ==
  ASSUME TypeOK, LiveInv, NEW r \in Requests, Start(r)
  PROVE  \E a \in Accounts : Begins(r, a) /\ UserChange(r, a) /\ SessionChange(r, a)
<1>1. /\ Answered \subseteq Requests
      /\ r \notin Answered \/ IsSent(r)
  BY DEF Answered, IsSent, NotSent, Answers, Refusals
<1>2. ASSUME NEW a \in Accounts, Known(a)
      PROVE  user[a] \in Users
  BY <1>2 DEF TypeOK, Known
<1>3. ASSUME NEW e \in Emails, Login(r, e)
      PROVE  \E a \in Accounts : Begins(r, a) /\ UserChange(r, a) /\ SessionChange(r, a)
  <2>1. PICK a \in AliasOf(e) : /\ MayLogIn(a)
                                /\ Begin(r, New("login", "OK", a))
                                /\ live' = live \cup {Token(r, a)}
                                /\ held' = held \cup {Session(r, a)}
                                /\ UNCHANGED user
    BY <1>3 DEF Login
  <2>2. a \in Accounts /\ Known(a)
    BY DEF AliasOf
  <2> DEFINE new == New("login", "OK", a)
  <2>3. /\ new \in Sent /\ new.kind = "login" /\ new.pc = "OK" /\ new.account = a
        /\ new.answered = a /\ new.done = Answered
    BY <1>1, <2>2 DEF New, Sent, Kinds, Answers
  <2>4. ~IsSent(r) /\ req' = [req EXCEPT ![r] = new]
    BY <2>1 DEF Begin, IsSent
  <2> HIDE DEF new
  <2>5. Begins(r, a)
    BY <1>1, <2>3, <2>4 DEF Begins, Refusals
  <2>6. QED
    BY <2>1, <2>2, <2>5 DEF UserChange, SessionChange, NewSession, SignsIn
<1>4. ASSUME NEW e \in Emails, Forgot(r, e)
      PROVE  \E a \in Accounts : Begins(r, a) /\ UserChange(r, a) /\ SessionChange(r, a)
  <2>1. PICK a \in AliasOf(e) : /\ user[a].permanent
                                /\ Begin(r, [New("forgot", "mailed", a) EXCEPT !.email = e])
                                /\ user' = [user EXCEPT ![a].code = r]
                                /\ UNCHANGED <<live, held>>
    BY <1>4 DEF Forgot
  <2>2. a \in Accounts /\ Known(a) /\ user[a].email = e
    BY DEF AliasOf
  <2> DEFINE new == [New("forgot", "mailed", a) EXCEPT !.email = e]
  <2>3. /\ new \in Sent /\ new.kind = "forgot" /\ new.pc = "mailed" /\ new.account = a
        /\ new.answered = a /\ new.done = Answered /\ new.email = e
    BY <1>1, <2>2 DEF New, Sent, Kinds, Answers
  <2>4. ~IsSent(r) /\ req' = [req EXCEPT ![r] = new]
    BY <2>1 DEF Begin, IsSent
  <2> HIDE DEF new
  <2>5. Begins(r, a)
    BY <1>1, <2>2, <2>3, <2>4 DEF Begins, Refusals
  <2> DEFINE u == [user[a] EXCEPT !.code = r]
  <2>6. u \in Users /\ KeepsPassword(a, u) /\ KeepsEmail(a, u)
    BY <1>2, <2>2 DEF Users, KeepsPassword, KeepsEmail
  <2>7. NewCode(a)
    BY <2>1, <2>2, <2>6 DEF NewCode, Becomes
  <2>8. QED
    BY <2>1, <2>2, <2>5, <2>7 DEF UserChange, SessionChange
<1>5. ASSUME NEW s \in held, Refresh(r, s)
      PROVE  \E a \in Accounts : Begins(r, a) /\ UserChange(r, a) /\ SessionChange(r, a)
  <2>1. s \in Sessions /\ s.owner \in Accounts
    BY DEF TypeOK, Sessions
  <2>2. PICK pc \in {"OK", "UNAUTHORIZED"} :
           Begin(r, New("refresh", pc, s.owner)) /\ user' = user
    BY <1>5 DEF Refresh
  <2> DEFINE new == New("refresh", pc, s.owner)
  <2>3. /\ new \in Sent /\ new.kind = "refresh" /\ new.pc = pc /\ new.account = s.owner
        /\ new.answered = s.owner /\ new.done = Answered /\ ~new.changed
    BY <1>1, <2>1 DEF New, Sent, Kinds, Answers, Refusals
  <2>4. ~IsSent(r) /\ req' = [req EXCEPT ![r] = new]
    BY <2>2 DEF Begin, IsSent
  <2> HIDE DEF new
  <2>5. Begins(r, s.owner)
    BY <1>1, <2>3, <2>4 DEF Begins
  <2>6. SessionChange(r, s.owner)
    <3>1. CASE [by |-> s.refresh, account |-> s.owner] \in live
      <4>1. Known(s.owner)
        BY <3>1 DEF LiveInv, MayLogIn
      <4>2. QED
        BY <1>5, <3>1, <4>1 DEF Refresh, Refreshed, SessionChange, KeptToken
    <3>2. CASE [by |-> s.refresh, account |-> s.owner] \notin live
      BY <1>5, <3>2 DEF Refresh, SessionChange
    <3>3. QED
      BY <3>1, <3>2
  <2>7. QED
    BY <2>1, <2>2, <2>5, <2>6 DEF UserChange
<1>6. ASSUME NEW f \in Requests, Confirm(r, f)
      PROVE  \E a \in Accounts : Begins(r, a) /\ UserChange(r, a) /\ SessionChange(r, a)
  <2>1. PICK a : a = req[f].answered
    OBVIOUS
  <2>2. At(f, "forgot", "OK") /\ Known(a) /\ live' = live /\ held' = held
    BY <1>6, <2>1 DEF Confirm
  <2>3. a \in Accounts
    BY <2>1, <2>2, SentRecord DEF At, IsSent
  <2>4. CASE user[a].code = f
    <3>1. /\ Begin(r, [New("confirm", "changed", a) EXCEPT !.changed = TRUE])
          /\ user' = [user EXCEPT ![a].password = r, ![a].code = NoCode]
      BY <1>6, <2>1, <2>4 DEF Confirm
    <3> DEFINE new == [New("confirm", "changed", a) EXCEPT !.changed = TRUE]
    <3>2. /\ new \in Sent /\ new.kind = "confirm" /\ new.pc = "changed" /\ new.account = a
          /\ new.answered = a /\ new.done = Answered /\ new.changed
      BY <1>1, <2>3 DEF New, Sent, Kinds, Answers
    <3>3. ~IsSent(r) /\ req' = [req EXCEPT ![r] = new]
      BY <3>1 DEF Begin, IsSent
    <3> HIDE DEF new
    <3>4. Begins(r, a)
      BY <1>1, <3>2, <3>3 DEF Begins, Refusals
    <3>5. req'[r].changed
      BY <3>2, <3>3 DEF TypeOK
    <3> DEFINE u == [user[a] EXCEPT !.password = r, !.code = NoCode]
    <3>6. /\ u \in Users /\ KeepsEmail(a, u) /\ u.password = r
          /\ u.permanent = user[a].permanent
      BY <1>2, <2>2, <2>3 DEF Users, KeepsEmail, Names
    <3>7. user' = [user EXCEPT ![a] = u]
      BY <1>2, <2>2, <2>3, <3>1 DEF TypeOK, Users
    <3> HIDE DEF u
    <3>8. NewPassword(r, a)
      BY <2>2, <3>3, <3>5, <3>6, <3>7 DEF NewPassword, Becomes
    <3>9. QED
      BY <2>2, <2>3, <3>4, <3>8 DEF UserChange, SessionChange
  <2>5. CASE user[a].code # f
    <3>1. Begin(r, New("confirm", "COGNITO_RUNTIME_ERROR", a)) /\ user' = user
      BY <1>6, <2>1, <2>5 DEF Confirm
    <3> DEFINE new == New("confirm", "COGNITO_RUNTIME_ERROR", a)
    <3>2. /\ new \in Sent /\ new.kind = "confirm" /\ new.pc = "COGNITO_RUNTIME_ERROR"
          /\ new.account = a /\ new.answered = a /\ new.done = Answered
      BY <1>1, <2>3 DEF New, Sent, Kinds, Answers
    <3>3. ~IsSent(r) /\ req' = [req EXCEPT ![r] = new]
      BY <3>1 DEF Begin, IsSent
    <3> HIDE DEF new
    <3>4. Begins(r, a)
      BY <1>1, <3>2, <3>3 DEF Begins, Refusals
    <3>5. QED
      BY <2>2, <2>3, <3>1, <3>4 DEF UserChange, SessionChange
  <2>6. QED
    BY <2>4, <2>5
<1>7. ASSUME NEW a \in Accounts, Logout(r, a)
      PROVE  Begins(r, a) /\ UserChange(r, a) /\ SessionChange(r, a)
  <2> DEFINE new == New("logout", "OK", a)
  <2>1. /\ new \in Sent /\ new.kind = "logout" /\ new.pc = "OK" /\ new.account = a
        /\ new.answered = a /\ new.done = Answered
    BY <1>1 DEF New, Sent, Kinds, Answers
  <2>2. ~IsSent(r) /\ req' = [req EXCEPT ![r] = new]
    BY <1>7 DEF Logout, Begin, IsSent
  <2> HIDE DEF new
  <2>3. Begins(r, a) /\ req'[r].kind = "logout"
    BY <1>1, <2>1, <2>2 DEF Begins, Refusals, TypeOK
  <2>4. QED
    BY <1>7, <2>3 DEF Logout, UserChange, SessionChange, SignsOut
<1>8. ASSUME NEW a \in Accounts, SetPasswordLogin(r, a)
      PROVE  Begins(r, a) /\ UserChange(r, a) /\ SessionChange(r, a)
  <2> DEFINE new == [New("setPassword", "loggedIn", a) EXCEPT !.old = user[a].password]
  <2>1. user[a].password \in Names
    BY <1>2, <1>8 DEF SetPasswordLogin, MayLogIn, Users
  <2>2. /\ new \in Sent /\ new.kind = "setPassword" /\ new.pc = "loggedIn" /\ ~new.changed
        /\ new.account = a /\ new.answered = a /\ new.done = Answered
        /\ new.old = user[a].password
    BY <1>1, <2>1 DEF New, Sent, Kinds, Answers
  <2>3. ~IsSent(r) /\ req' = [req EXCEPT ![r] = new]
    BY <1>8 DEF SetPasswordLogin, Begin, IsSent
  <2> HIDE DEF new
  <2>4. MayLogIn(a) /\ user' = user
    BY <1>8 DEF SetPasswordLogin
  <2>5. Begins(r, a)
    BY <1>1, <2>2, <2>3, <2>4 DEF Begins
  <2>6. QED
    BY <1>8, <2>4, <2>5 DEF SetPasswordLogin, UserChange, SessionChange, SignsIn
<1>9. ASSUME NEW a \in Accounts, Delete(r, a)
      PROVE  Begins(r, a) /\ UserChange(r, a) /\ SessionChange(r, a)
  <2> DEFINE new == New("delete", "found", a)
  <2>1. /\ new \in Sent /\ new.kind = "delete" /\ new.pc = "found" /\ new.account = a
        /\ new.answered = a /\ new.done = Answered
    BY <1>1 DEF New, Sent, Kinds, Answers
  <2>2. ~IsSent(r) /\ req' = [req EXCEPT ![r] = new]
    BY <1>9 DEF Delete, Begin, IsSent
  <2> HIDE DEF new
  <2>3. Begins(r, a)
    BY <1>1, <2>1, <2>2 DEF Begins, Refusals
  <2>4. QED
    BY <1>9, <2>3 DEF Delete, UserChange, SessionChange
<1>10. ASSUME NEW a \in Accounts, NEW e \in Emails, Create(r, a, e)
       PROVE  Begins(r, a) /\ UserChange(r, a) /\ SessionChange(r, a)
  <2> DEFINE new == [New("create", "created", a) EXCEPT !.email = e]
  <2>1. /\ new \in Sent /\ new.kind = "create" /\ new.pc = "created" /\ new.account = a
        /\ new.answered = a /\ new.done = Answered /\ ~new.changed
    BY <1>1 DEF New, Sent, Kinds, Answers
  <2>2. ~IsSent(r) /\ req' = [req EXCEPT ![r] = new]
    BY <1>10 DEF Create, Begin, IsSent
  <2> HIDE DEF new
  <2>3. Begins(r, a)
    BY <1>1, <2>1, <2>2 DEF Begins, Refusals
  <2> DEFINE u == [password |-> a, permanent |-> FALSE, claims |-> a, email |-> e,
                   code |-> NoCode]
  <2>4. /\ u \in Users /\ u.password = a /\ ~u.permanent /\ u.claims = a /\ u.email = e
    BY DEF Users, Names
  <2>5. user' = [user EXCEPT ![a] = u] /\ ~Known(a) /\ AliasOf(e) = {}
    BY <1>10 DEF Create
  <2> HIDE DEF u
  <2>6. NewUser(a)
    BY <2>4, <2>5 DEF NewUser, Becomes
  <2>7. QED
    BY <1>10, <2>3, <2>6 DEF Create, UserChange, SessionChange
<1>11. ASSUME NEW a \in Accounts, NEW t \in Accounts, NEW e \in Emails, Update(r, a, t, e)
       PROVE  Begins(r, a) /\ UserChange(r, a) /\ SessionChange(r, a)
  <2> DEFINE new == [New("update", "found", a) EXCEPT !.email = e, !.target = t]
  <2>1. /\ new \in Sent /\ new.kind = "update" /\ new.pc = "found" /\ new.account = a
        /\ new.answered = a /\ new.done = Answered /\ new.email = e
    BY <1>1 DEF New, Sent, Kinds, Answers
  <2>2. ~IsSent(r) /\ req' = [req EXCEPT ![r] = new]
    BY <1>11 DEF Update, Begin, IsSent
  <2> HIDE DEF new
  <2>3. Begins(r, a)
    BY <1>1, <2>1, <2>2 DEF Begins, Refusals
  <2>4. QED
    BY <1>11, <2>3 DEF Update, UserChange, SessionChange
<1>12. QED
  BY <1>3, <1>4, <1>5, <1>6, <1>7, <1>8, <1>9, <1>10, <1>11 DEF Start
-----------------------------------------------------------------------------
(* A request that goes on: pc moves, and changed or answered with it.      *)
Moved(x, pc, c, d, b) ==
    [x EXCEPT !.pc = pc, !.changed = c, !.resent = d, !.answered = b]

MayAnswer(r, b) ==
    \/ b = req[r].answered
    \/ req[r].pc = "mailed" /\ b \in AliasOf(req[r].email)

LEMMA MovedRecord ==
  ASSUME NEW x \in Sent, NEW pc \in Pcs,
         NEW c \in BOOLEAN, NEW d \in BOOLEAN, NEW b \in Accounts
  PROVE  /\ Moved(x, pc, c, d, b) \in Sent
         /\ Moved(x, pc, c, d, b).kind = x.kind
         /\ Moved(x, pc, c, d, b).account = x.account
         /\ Moved(x, pc, c, d, b).old = x.old
         /\ Moved(x, pc, c, d, b).email = x.email
         /\ Moved(x, pc, c, d, b).done = x.done
         /\ Moved(x, pc, c, d, b).pc = pc
         /\ Moved(x, pc, c, d, b).changed = c
         /\ Moved(x, pc, c, d, b).resent = d
         /\ Moved(x, pc, c, d, b).answered = b
<1> DEFINE m == Moved(x, pc, c, d, b)
<1>1. m \in Sent
  BY DEF Moved, Sent, Pcs
<1>2. /\ m.kind = x.kind /\ m.account = x.account /\ m.old = x.old
      /\ m.email = x.email /\ m.done = x.done
  BY DEF Moved, Sent
<1>3. m.pc = pc /\ m.changed = c /\ m.resent = d /\ m.answered = b
  BY DEF Moved, Sent
<1>4. QED
  BY <1>1, <1>2, <1>3

LEMMA MoveTo ==
  ASSUME TypeOK, NEW r \in Requests, IsSent(r), r \notin Answered, NEW pc \in Pcs,
         NEW c \in BOOLEAN, NEW d \in BOOLEAN, NEW b \in Accounts,
         req' = [req EXCEPT ![r] = Moved(req[r], pc, c, d, b)],
         req[r].changed => c,
         pc \notin {"created", "mailed"},
         MayAnswer(r, b),
         pc = "loggedIn" => req[r].pc = "loggedIn",
         PcOk(r),
         pc \in Refusals \cup {"loggedIn"} /\ c => d,
         req[r].kind = "setPassword" /\ pc \in {"changed", "OK"} => c
  PROVE  /\ GoesOn(r, req[r].account) /\ PcOk(r)'
         /\ req'[r].kind = req[r].kind /\ req'[r].pc = pc /\ req'[r].changed = c
         /\ req'[r].resent = d /\ req'[r].answered = b
<1> DEFINE m == Moved(req[r], pc, c, d, b)
<1>1. /\ m \in Sent
      /\ m.kind = req[r].kind /\ m.account = req[r].account /\ m.old = req[r].old
      /\ m.email = req[r].email /\ m.done = req[r].done
      /\ m.pc = pc /\ m.changed = c /\ m.resent = d /\ m.answered = b
  <2>1. req[r] \in Sent
    BY SentRecord
  <2>2. QED
    BY <2>1, MovedRecord
<1>2. req' = [req EXCEPT ![r] = m]
  OBVIOUS
<1> HIDE DEF m
<1>3. req'[r] = m
  BY <1>2 DEF TypeOK
<1>4. GoesOn(r, req[r].account)
  BY <1>1, <1>2 DEF GoesOn, MayAnswer
<1>5. PcOk(r)'
  BY <1>1, <1>3 DEF PcOk
<1>6. QED
  BY <1>1, <1>3, <1>4, <1>5

LEMMA GotoMove ==
  ASSUME TypeOK, NEW r \in Requests, IsSent(r), r \notin Answered, NEW pc \in Pcs,
         Goto(r, pc), pc \notin {"created", "mailed", "loggedIn"}, PcOk(r),
         pc \in Refusals /\ req[r].changed => req[r].resent,
         req[r].kind = "setPassword" /\ pc \in {"changed", "OK"} => req[r].changed
  PROVE  /\ GoesOn(r, req[r].account) /\ PcOk(r)'
         /\ req'[r].kind = req[r].kind /\ req'[r].pc = pc
<1>1. /\ req[r] \in Sent
      /\ req[r].changed \in BOOLEAN /\ req[r].resent \in BOOLEAN
      /\ req[r].answered \in Accounts /\ MayAnswer(r, req[r].answered)
  BY SentRecord DEF MayAnswer
<1>2. [req[r] EXCEPT !.pc = pc] =
         Moved(req[r], pc, req[r].changed, req[r].resent, req[r].answered)
  BY <1>1 DEF Sent, Moved
<1>3. req' = [req EXCEPT ![r] =
                 Moved(req[r], pc, req[r].changed, req[r].resent, req[r].answered)]
  BY <1>2 DEF Goto
<1>4. QED
  BY <1>1, <1>3, MoveTo

LEMMA ChangeMove ==
  ASSUME TypeOK, NEW r \in Requests, IsSent(r), r \notin Answered, NEW pc \in Pcs,
         NEW a, NEW u, Change(r, pc, a, u),
         pc \notin {"created", "mailed", "loggedIn"}, pc \notin Refusals, PcOk(r)
  PROVE  /\ GoesOn(r, req[r].account) /\ PcOk(r)'
         /\ req'[r].kind = req[r].kind /\ req'[r].pc = pc /\ req'[r].changed
<1>1. /\ req[r] \in Sent
      /\ req[r].resent \in BOOLEAN
      /\ req[r].answered \in Accounts /\ MayAnswer(r, req[r].answered)
  BY SentRecord DEF MayAnswer
<1>2. [req[r] EXCEPT !.pc = pc, !.changed = TRUE] =
         Moved(req[r], pc, TRUE, req[r].resent, req[r].answered)
  BY <1>1 DEF Sent, Moved
<1>3. req' = [req EXCEPT ![r] = [req[r] EXCEPT !.pc = pc, !.changed = TRUE]]
  BY <1>1 DEF Change, TypeOK, Sent
<1>4. PICK c \in BOOLEAN : c = TRUE
  OBVIOUS
<1>5. req' = [req EXCEPT ![r] = Moved(req[r], pc, c, req[r].resent, req[r].answered)]
  BY <1>2, <1>3, <1>4
<1>6. QED
  BY <1>1, <1>4, <1>5, MoveTo

LEMMA MoveView ==
  ASSUME TypeOK, PcInv, NEW r \in Requests, Proceed(r)
  PROVE  /\ req[r].account \in Accounts
         /\ GoesOn(r, req[r].account) /\ PcOk(r)'
         /\ UserChange(r, req[r].account) /\ SessionChange(r, req[r].account)
<1>1. IsSent(r) /\ r \notin Answered
  BY DEF Proceed, SetPasswordChange, ReadUser, ForgotRead, CreateSetPassword,
     UpdateAttributes, UpdateSignOut, DeleteUser, CallFails, At, IsSent, Answered,
     Answers, Refusals
<1>2. PICK a \in Accounts : a = req[r].account
  BY <1>1, SentRecord
<1>3. /\ PcOk(r)
      /\ req[r].changed \in BOOLEAN /\ req[r].resent \in BOOLEAN
      /\ req[r].answered \in Accounts /\ MayAnswer(r, req[r].answered)
  BY <1>1, SentRecord DEF PcInv, MayAnswer
<1>4. Known(a) => user[a] \in Users
  BY DEF TypeOK, Known
<1>5. r \in Names
  BY DEF Names
<1>6. CASE SetPasswordChange(r)
  <2>1. At(r, "setPassword", "loggedIn") /\ live' = live /\ held' = held
    BY <1>6 DEF SetPasswordChange
  <2>2. CASE MayChange(r)
    <3> DEFINE u == [user[a] EXCEPT !.password = r]
    <3>1. /\ u \in Users /\ KeepsEmail(a, u) /\ u.password = r
          /\ u.permanent = user[a].permanent /\ Known(a)
      BY <1>2, <1>4, <1>5, <2>2 DEF Users, KeepsEmail, MayChange
    <3>2. CASE Change(r, "changed", a, u)
      <4>1. user' = [user EXCEPT ![a] = u]
        BY <3>2 DEF Change
      <4>2. /\ GoesOn(r, a) /\ PcOk(r)'
            /\ req'[r].kind = req[r].kind /\ req'[r].pc = "changed" /\ req'[r].changed
        BY <1>1, <1>2, <1>3, <3>2, ChangeMove DEF Pcs, Refusals
      <4> HIDE DEF u
      <4>3. NewPassword(r, a)
        BY <2>1, <2>2, <3>1, <4>1, <4>2 DEF NewPassword, Becomes, At, Is, IsSent
      <4>4. QED
        BY <1>2, <2>1, <4>2, <4>3 DEF UserChange, SessionChange
    <3>3. CASE /\ ~req[r].resent
               /\ req' = [req EXCEPT ![r].changed = TRUE, ![r].resent = TRUE]
               /\ user' = [user EXCEPT ![a].password = r]
      <4>1. req' = [req EXCEPT ![r] =
                       Moved(req[r], "loggedIn", TRUE, TRUE, req[r].answered)]
        <5>1. req[r] \in Sent /\ req[r].pc = "loggedIn"
          BY <1>1, <2>1, SentRecord DEF At
        <5>2. [req[r] EXCEPT !.changed = TRUE, !.resent = TRUE] =
                 Moved(req[r], "loggedIn", TRUE, TRUE, req[r].answered)
          BY <5>1 DEF Sent, Moved
        <5>3. req' = [req EXCEPT ![r] = [req[r] EXCEPT !.changed = TRUE, !.resent = TRUE]]
          BY <3>3, <5>1 DEF TypeOK, Sent
        <5>4. QED
          BY <5>2, <5>3
      <4>2. /\ GoesOn(r, a) /\ PcOk(r)'
            /\ req'[r].kind = req[r].kind /\ req'[r].pc = "loggedIn"
            /\ req'[r].changed /\ req'[r].resent
        BY <1>1, <1>2, <1>3, <2>1, <4>1, MoveTo DEF At, Pcs, Refusals
      <4>3. user' = [user EXCEPT ![a] = u]
        BY <3>3
      <4> HIDE DEF u
      <4>4. NewPassword(r, a)
        BY <2>1, <2>2, <3>1, <4>2, <4>3 DEF NewPassword, Becomes, At, Is, IsSent
      <4>5. QED
        BY <1>2, <2>1, <4>2, <4>4 DEF UserChange, SessionChange
    <3>4. QED
      BY <1>2, <1>6, <2>2, <3>2, <3>3 DEF SetPasswordChange
  <2>3. CASE ~MayChange(r)
    <3>1. PICK pc \in Refusals : Goto(r, pc) /\ user' = user
      BY <1>6, <2>3 DEF SetPasswordChange, Refusals
    <3>2. /\ pc \in Pcs /\ pc \notin {"created", "mailed", "loggedIn", "changed", "OK"}
          /\ req[r].changed => req[r].resent
      BY <1>3, <2>1 DEF Pcs, Refusals, Answers, PcOk, At
    <3>3. /\ GoesOn(r, a) /\ PcOk(r)'
          /\ req'[r].kind = req[r].kind /\ req'[r].pc = pc
      BY <1>1, <1>2, <1>3, <3>1, <3>2, GotoMove
    <3>4. QED
      BY <1>2, <2>1, <3>1, <3>3 DEF UserChange, SessionChange
  <2>4. QED
    BY <2>2, <2>3
<1>7. CASE ReadUser(r)
  <2>1. PICK pc \in {"OK", "USER_NOT_FOUND"} :
           /\ Goto(r, pc) /\ UNCHANGED <<user, live, held>>
           /\ req[r].kind = "setPassword" => req[r].changed
    BY <1>3, <1>7 DEF ReadUser, At, PcOk
  <2>2. /\ GoesOn(r, a) /\ PcOk(r)'
        /\ req'[r].kind = req[r].kind /\ req'[r].pc = pc
    BY <1>1, <1>2, <1>3, <2>1, GotoMove DEF Pcs, Answers, Refusals, At
  <2>3. QED
    BY <1>2, <2>1, <2>2 DEF UserChange, SessionChange
<1>8. CASE ForgotRead(r)
  <2>1. At(r, "forgot", "mailed") /\ UNCHANGED <<user, live, held>>
    BY <1>8 DEF ForgotRead
  <2>2. ASSUME NEW b \in AliasOf(req[r].email),
               req' = [req EXCEPT ![r].pc = "OK", ![r].answered = b]
        PROVE  GoesOn(r, a) /\ PcOk(r)'
    <3>1. b \in Accounts
      BY DEF AliasOf
    <3>2. req[r] \in Sent
      BY <1>1, SentRecord
    <3>3. [req[r] EXCEPT !.pc = "OK", !.answered = b] =
             Moved(req[r], "OK", req[r].changed, req[r].resent, b)
      BY <3>2 DEF Sent, Moved
    <3>4. req' = [req EXCEPT ![r] = [req[r] EXCEPT !.pc = "OK", !.answered = b]]
      BY <2>2, <3>2 DEF TypeOK, Sent
    <3>5. PICK pc \in Pcs : pc = "OK"
      BY DEF Pcs, Answers
    <3>6. PICK c \in BOOLEAN, d \in BOOLEAN : c = req[r].changed /\ d = req[r].resent
      BY <1>3
    <3>7. req' = [req EXCEPT ![r] = Moved(req[r], pc, c, d, b)]
      BY <3>3, <3>4, <3>5, <3>6
    <3>8. pc \notin Refusals /\ req[r].kind = "forgot" /\ b \in AliasOf(req[r].email)
      BY <2>1, <3>5 DEF Refusals, At
    <3>9. /\ req[r].changed => c
          /\ pc \notin {"created", "mailed"}
          /\ MayAnswer(r, b)
          /\ pc = "loggedIn" => req[r].pc = "loggedIn"
          /\ pc \in Refusals \cup {"loggedIn"} /\ c => d
          /\ req[r].kind = "setPassword" /\ pc \in {"changed", "OK"} => c
      BY <2>1, <3>5, <3>6, <3>8 DEF At, MayAnswer
    <3>10. GoesOn(r, req[r].account) /\ PcOk(r)'
      BY <1>1, <1>3, <3>1, <3>7, <3>9, MoveTo
    <3>11. QED
      BY <1>2, <3>10
  <2>3. ASSUME Goto(r, "USER_NOT_FOUND")
        PROVE  GoesOn(r, a) /\ PcOk(r)'
    <3>1. /\ GoesOn(r, a) /\ PcOk(r)'
          /\ req'[r].kind = req[r].kind /\ req'[r].pc = "USER_NOT_FOUND"
      BY <1>1, <1>2, <1>3, <2>1, <2>3, GotoMove DEF Pcs, Answers, Refusals, At
    <3>2. QED
      BY <3>1
  <2>4. QED
    BY <1>2, <1>8, <2>1, <2>2, <2>3 DEF ForgotRead, ForgotFound, UserChange, SessionChange
<1>9. CASE CreateSetPassword(r)
  <2>1. At(r, "create", "created") /\ live' = live /\ held' = held
    BY <1>9 DEF CreateSetPassword
  <2>2. CASE Known(a)
    <3> DEFINE u == [user[a] EXCEPT !.password = r, !.permanent = TRUE]
    <3>1. u \in Users /\ KeepsEmail(a, u) /\ u.password = r /\ u.permanent
      BY <1>4, <1>5, <2>2 DEF Users, KeepsEmail
    <3>2. Change(r, "OK", a, u)
      BY <1>2, <1>9, <2>2 DEF CreateSetPassword
    <3> HIDE DEF u
    <3>3. /\ GoesOn(r, a) /\ PcOk(r)'
          /\ req'[r].kind = req[r].kind /\ req'[r].pc = "OK" /\ req'[r].changed
      BY <1>1, <1>2, <1>3, <3>2, ChangeMove DEF Pcs, Answers, Refusals
    <3>4. NewPassword(r, a)
      BY <1>3, <2>1, <2>2, <3>1, <3>2, <3>3 DEF NewPassword, Becomes, Change, At, PcOk
    <3>5. QED
      BY <1>2, <2>1, <3>3, <3>4 DEF UserChange, SessionChange
  <2>3. CASE ~Known(a)
    <3>1. Goto(r, "USER_NOT_FOUND") /\ user' = user
      BY <1>2, <1>9, <2>3 DEF CreateSetPassword
    <3>2. /\ GoesOn(r, a) /\ PcOk(r)'
          /\ req'[r].kind = req[r].kind /\ req'[r].pc = "USER_NOT_FOUND"
      BY <1>1, <1>2, <1>3, <2>1, <3>1, GotoMove DEF Pcs, Answers, Refusals, At
    <3>3. QED
      BY <1>2, <2>1, <3>1, <3>2 DEF UserChange, SessionChange
  <2>4. QED
    BY <2>2, <2>3
<1>10. CASE UpdateAttributes(r)
  <2>1. At(r, "update", "found") /\ live' = live /\ held' = held
    BY <1>10 DEF UpdateAttributes
  <2>2. PICK e : e = req[r].email
    OBVIOUS
  <2>3. CASE Known(a) /\ AliasOf(e) \subseteq {a}
            /\ Change(r, "updated", a, [user[a] EXCEPT
                          !.email = e, !.claims = CallerClaims(r)])
    <3> DEFINE u == [user[a] EXCEPT !.email = e, !.claims = a]
    <3>1. Change(r, "updated", a, u)
      BY <1>2, <2>3 DEF CallerClaims
    <3>2. /\ GoesOn(r, a) /\ PcOk(r)'
          /\ req'[r].kind = req[r].kind /\ req'[r].pc = "updated" /\ req'[r].changed
      BY <1>1, <1>2, <1>3, <3>1, ChangeMove DEF Pcs, Refusals
    <3>3. u.claims = a /\ u.email = e /\ KeepsPassword(a, u)
      BY <1>4, <2>3 DEF Users, KeepsPassword
    <3>4. u \in Users
      <4>1. e \in Emails
        BY <1>1, <2>1, <2>2 DEF PcInv, PcOk, At
      <4>2. QED
        BY <1>4, <2>3, <4>1 DEF Users
    <3> HIDE DEF u
    <3>5. NewEmail(r, a)
      BY <1>1, <2>1, <2>3, <3>1, <3>2, <3>3, <3>4 DEF NewEmail, Becomes, Change, At, Is
    <3>6. QED
      BY <1>2, <2>1, <3>2, <3>5 DEF UserChange, SessionChange
  <2>4. ASSUME NEW pc \in {"USER_NOT_FOUND", "COGNITO_RUNTIME_ERROR"}, Goto(r, pc),
               user' = user
        PROVE  GoesOn(r, a) /\ PcOk(r)' /\ UserChange(r, a) /\ SessionChange(r, a)
    <3>1. /\ GoesOn(r, a) /\ PcOk(r)'
          /\ req'[r].kind = req[r].kind /\ req'[r].pc = pc
      BY <1>1, <1>2, <1>3, <2>1, <2>4, GotoMove DEF Pcs, Answers, Refusals, At
    <3>2. QED
      BY <2>1, <2>4, <3>1 DEF UserChange, SessionChange
  <2>5. QED
    BY <1>2, <1>10, <2>2, <2>3, <2>4 DEF UpdateAttributes
<1>11. CASE UpdateSignOut(r)
  <2>1. PICK pc \in {"OK", "USER_NOT_FOUND"} :
           /\ Goto(r, pc) /\ user' = user /\ held' = held
           /\ live' = live \/ live' = SignedOut(a)
           /\ req[r].kind = "update"
    BY <1>2, <1>11 DEF UpdateSignOut, At
  <2>2. /\ GoesOn(r, a) /\ PcOk(r)'
        /\ req'[r].kind = req[r].kind /\ req'[r].pc = pc
    BY <1>1, <1>2, <1>3, <2>1, GotoMove DEF Pcs, Answers, Refusals, At
  <2>3. QED
    BY <1>2, <2>1, <2>2 DEF UserChange, SessionChange, SignsOut
<1>12. CASE DeleteUser(r)
  <2>1. At(r, "delete", "found") /\ held' = held
    BY <1>12 DEF DeleteUser
  <2>2. CASE Change(r, "OK", a, NoUser) /\ live' = SignedOut(a)
    <3>1. user' = [user EXCEPT ![a] = NoUser]
      BY <2>2 DEF Change
    <3>2. /\ GoesOn(r, a) /\ PcOk(r)'
          /\ req'[r].kind = req[r].kind /\ req'[r].pc = "OK" /\ req'[r].changed
      BY <1>1, <1>2, <1>3, <2>2, ChangeMove DEF Pcs, Answers, Refusals
    <3>3. NoMoreUser(r, a)
      BY <1>1, <2>1, <2>2, <3>1, <3>2 DEF NoMoreUser, At, Is
    <3>4. QED
      BY <1>2, <2>1, <2>2, <3>2, <3>3
      DEF UserChange, SessionChange, SignsOut, At
  <2>3. CASE Goto(r, "USER_NOT_FOUND") /\ UNCHANGED <<user, live>>
    <3>1. /\ GoesOn(r, a) /\ PcOk(r)'
          /\ req'[r].kind = req[r].kind /\ req'[r].pc = "USER_NOT_FOUND"
      BY <1>1, <1>2, <1>3, <2>1, <2>3, GotoMove DEF Pcs, Answers, Refusals, At
    <3>2. QED
      BY <1>2, <2>1, <2>3, <3>1 DEF UserChange, SessionChange
  <2>4. QED
    BY <1>2, <1>12, <2>2, <2>3 DEF DeleteUser
<1>13. CASE CallFails(r)
  <2>1. Goto(r, "COGNITO_RUNTIME_ERROR") /\ UNCHANGED <<user, live, held>>
    BY <1>13 DEF CallFails, OtherError
  <2>2. /\ GoesOn(r, a) /\ PcOk(r)'
        /\ req'[r].kind = req[r].kind /\ req'[r].pc = "COGNITO_RUNTIME_ERROR"
    BY <1>1, <1>2, <1>3, <2>1, GotoMove DEF Pcs, Answers, Refusals, At
  <2>3. QED
    BY <1>2, <2>1, <2>2 DEF UserChange, SessionChange
<1>14. QED
  BY <1>6, <1>7, <1>8, <1>9, <1>10, <1>11, <1>12, <1>13 DEF Proceed
-----------------------------------------------------------------------------
(* What stays of the requests, and which user may have changed.            *)
Step(r, a) == (Begins(r, a) \/ GoesOn(r, a)) /\ UserChange(r, a) /\ SessionChange(r, a)

LEMMA ReqView ==
  ASSUME TypeOK, NEW r \in Requests, NEW a \in Accounts, Step(r, a)
  PROVE  /\ r \notin Answered
         /\ req' \in [Requests -> Sent \cup {NotSent}]
         /\ IsSent(r)' /\ req'[r].account = a
         /\ ~IsSent(r) => req'[r].done = Answered
         /\ \A q \in Requests \ {r} : req'[q] = req[q]
         /\ \A q \in Requests : IsSent(q) =>
               /\ IsSent(q)'
               /\ req'[q].kind = req[q].kind /\ req'[q].account = req[q].account
               /\ req'[q].old = req[q].old /\ req'[q].email = req[q].email
               /\ req'[q].done = req[q].done
               /\ req[q].changed => req'[q].changed
<1>1. PICK m \in Sent :
         /\ r \notin Answered
         /\ req' = [req EXCEPT ![r] = m] /\ m.account = a
         /\ ~IsSent(r) => m.done = Answered
         /\ IsSent(r) =>
               /\ m.kind = req[r].kind /\ m.account = req[r].account
               /\ m.old = req[r].old /\ m.email = req[r].email
               /\ m.done = req[r].done /\ (req[r].changed => m.changed)
  BY DEF Step, Begins, GoesOn
<1>2. req'[r] = m /\ \A q \in Requests \ {r} : req'[q] = req[q]
  BY <1>1 DEF TypeOK
<1>3. req' \in [Requests -> Sent \cup {NotSent}]
  BY <1>1 DEF TypeOK
<1>4. IsSent(r)'
  BY <1>2, SentIsSent DEF IsSent
<1>5. \A q \in Requests \ {r} : IsSent(q) => IsSent(q)'
  BY <1>2 DEF IsSent
<1>6. QED
  BY <1>1, <1>2, <1>3, <1>4, <1>5

LEMMA AnsweredStays ==
  ASSUME TypeOK, NEW r \in Requests, NEW a \in Accounts, Step(r, a)
  PROVE  Answered \subseteq Answered'
  BY ReqView DEF Answered

LEMMA UserView ==
  ASSUME TypeOK, NEW r \in Requests, NEW a \in Accounts, Step(r, a)
  PROVE  /\ user' \in [Accounts -> Users \cup {NoUser}]
         /\ \A b \in Accounts \ {a} : user'[b] = user[b]
         /\ \/ user'[a] = user[a]
            \/ /\ Known(a) /\ Known(a)'
               /\ KeepsPassword(a, user'[a]) /\ KeepsEmail(a, user'[a])
            \/ /\ Known(a) /\ Known(a)' /\ KeepsEmail(a, user'[a])
               /\ user'[a].password = r /\ req'[r].changed
               /\ user[a].permanent => user'[a].permanent
               /\ IsSent(r) /\ req[r].changed => Is(r, "setPassword") /\ MayChange(r)
            \/ /\ ~Known(a) /\ Known(a)'
               /\ user'[a].password = a /\ ~user'[a].permanent /\ user'[a].claims = a
               /\ AliasOf(user'[a].email) = {}
            \/ /\ Known(a) /\ Known(a)' /\ KeepsPassword(a, user'[a])
               /\ user'[a].claims = a /\ AliasOf(user'[a].email) \subseteq {a}
               /\ Is(r, "update") /\ req'[r].changed
            \/ /\ ~Known(a)' /\ live' = SignedOut(a)
               /\ Is(r, "delete") /\ req'[r].changed
<1>1. user \in [Accounts -> Users \cup {NoUser}] /\ UserChange(r, a)
  BY DEF TypeOK, Step
<1>2. ASSUME NEW u, Becomes(a, u)
      PROVE  /\ user' \in [Accounts -> Users \cup {NoUser}]
             /\ \A b \in Accounts \ {a} : user'[b] = user[b]
             /\ user'[a] = u /\ Known(a)'
  BY <1>1, <1>2, MarkerAssumption DEF Becomes, Known, MarkerAssumption
<1>3. CASE user' = user
  BY <1>1, <1>3
<1>4. CASE NewCode(a)
  BY <1>2, <1>4 DEF NewCode
<1>5. CASE NewPassword(r, a)
  BY <1>2, <1>5 DEF NewPassword
<1>6. CASE NewUser(a)
  BY <1>2, <1>6 DEF NewUser
<1>7. CASE NewEmail(r, a)
  BY <1>2, <1>7 DEF NewEmail
<1>8. CASE NoMoreUser(r, a)
  BY <1>1, <1>8 DEF NoMoreUser, Known
<1>9. QED
  BY <1>1, <1>3, <1>4, <1>5, <1>6, <1>7, <1>8 DEF UserChange

LEMMA TypeStep ==
  ASSUME TypeOK, NEW r \in Requests, NEW a \in Accounts, Step(r, a)
  PROVE  TypeOK'
<1>1. live' \subseteq [by: Names, account: Accounts]
  BY DEF Step, SessionChange, SignsIn, SignsOut, SignedOut, Token, TypeOK, Names
<1>2. \A b \in Accounts : Known(b) => user[b].claims \in Accounts
  BY DEF TypeOK, Known, Users
<1>3. held \subseteq Sessions
  BY DEF TypeOK
<1>4. CASE held' = held
  BY <1>1, <1>3, <1>4, ReqView, UserView DEF TypeOK
<1>5. CASE NewSession(r, a)
  <2>1. Session(r, a) \in Sessions
    BY <1>2, <1>5 DEF NewSession, Session, Sessions, Names
  <2>2. QED
    BY <1>1, <1>3, <1>5, <2>1, ReqView, UserView DEF TypeOK, NewSession
<1>6. ASSUME NEW s \in held, Refreshed(s)
      PROVE  TypeOK'
  <2>1. s \in Sessions /\ Known(s.owner)
    BY <1>3, <1>6 DEF Refreshed
  <2>2. [s EXCEPT !.claims = user[s.owner].claims, !.refresh = s.refresh] \in Sessions
    BY <1>2, <2>1 DEF Sessions
  <2>3. QED
    BY <1>1, <1>3, <1>6, <2>2, ReqView, UserView DEF TypeOK, Refreshed
<1>7. QED
  BY <1>4, <1>5, <1>6 DEF Step, SessionChange

(* Sessions are of users that may sign in, whatever is done to the users.  *)
LEMMA LiveStep ==
  ASSUME TypeOK, LiveInv, NEW r \in Requests, NEW a \in Accounts, Step(r, a)
  PROVE  LiveInv'
<1>1. ASSUME NEW t \in live', t.account # a
      PROVE  MayLogIn(t.account)'
  <2>1. t \in live
    BY <1>1 DEF Step, SessionChange, SignsIn, SignsOut, SignedOut, Token
  <2>2. t.account \in Accounts /\ MayLogIn(t.account)
    BY <2>1 DEF LiveInv, TypeOK
  <2>3. user'[t.account] = user[t.account]
    BY <1>1, <2>2, UserView
  <2>4. QED
    BY <2>2, <2>3 DEF MayLogIn, Known
<1>2. ASSUME NEW t \in live', t.account = a
      PROVE  MayLogIn(a)'
  <2>1. live' # SignedOut(a)
    BY <1>2 DEF SignedOut
  <2>2. CASE SignsIn(r, a)
    BY <2>2 DEF SignsIn, MayLogIn, Known
  <2>3. CASE live' = live
    <3>1. MayLogIn(a)
      BY <1>2, <2>3 DEF LiveInv
    <3>2. Known(a)' /\ user'[a].permanent
      BY <2>1, <3>1, UserView DEF MayLogIn, KeepsPassword, Known
    <3>3. QED
      BY <3>2 DEF MayLogIn
  <2>4. QED
    BY <2>1, <2>2, <2>3 DEF Step, SessionChange, SignsOut
<1>3. QED
  BY <1>1, <1>2 DEF LiveInv

LEMMA ClaimsStep ==
  ASSUME TypeOK, ClaimsInv, NEW r \in Requests, NEW a \in Accounts, Step(r, a)
  PROVE  ClaimsInv'
  BY UserView DEF ClaimsInv, Known, KeepsEmail

(* An e-mail is taken only when no other user has it.                      *)
LEMMA AliasStep ==
  ASSUME TypeOK, AliasInv, NEW r \in Requests, NEW a \in Accounts, Step(r, a)
  PROVE  AliasInv'
<1>1. ASSUME NEW b \in Accounts \ {a}, Known(a)', Known(b)',
             user'[a].email = user'[b].email
      PROVE  FALSE
  <2>1. user'[b] = user[b] /\ Known(b)
    BY <1>1, UserView DEF Known
  <2>2. b \in AliasOf(user'[a].email)
    BY <1>1, <2>1 DEF AliasOf
  <2>3. Known(a) /\ user'[a].email = user[a].email
    BY <1>1, <2>2, UserView DEF Known, KeepsEmail
  <2>4. QED
    BY <1>1, <2>1, <2>3 DEF AliasInv
<1>2. QED
  BY <1>1, UserView DEF AliasInv, Known

LEMMA HeldStep ==
  ASSUME TypeOK, ClaimsInv, HeldInv, NEW r \in Requests, NEW a \in Accounts, Step(r, a)
  PROVE  HeldInv'
<1>1. \A q \in Requests : IsSent(q) => IsSent(q)'
  BY ReqView
<1>2. \A s \in held : /\ s.claims = s.owner /\ s.refresh \in Names
                      /\ s.refresh \in Requests => IsSent(s.refresh)'
  BY <1>1 DEF HeldInv
<1>3. CASE held' = held
  BY <1>2, <1>3 DEF HeldInv
<1>4. CASE NewSession(r, a)
  <2>1. user[a].claims = a
    BY <1>4 DEF NewSession, ClaimsInv
  <2>2. IsSent(r)' /\ r \in Names
    BY ReqView DEF Names
  <2>3. QED
    BY <1>2, <1>4, <2>1, <2>2 DEF HeldInv, NewSession, Session
<1>5. ASSUME NEW s \in held, Refreshed(s)
      PROVE  HeldInv'
  <2>1. s \in Sessions /\ user[s.owner].claims = s.owner
    BY <1>5 DEF Refreshed, ClaimsInv, TypeOK, Sessions
  <2> DEFINE n == [s EXCEPT !.claims = user[s.owner].claims, !.refresh = s.refresh]
  <2>2. n.claims = s.owner /\ n.owner = s.owner /\ n.refresh = s.refresh
    BY <2>1 DEF Sessions
  <2>3. held' \subseteq held \cup {n}
    BY <1>5 DEF Refreshed
  <2> HIDE DEF n
  <2>4. QED
    BY <1>2, <2>2, <2>3 DEF HeldInv
<1>6. QED
  BY <1>3, <1>4, <1>5 DEF Step, SessionChange

LEMMA DoneStep ==
  ASSUME TypeOK, DoneInv, NEW r \in Requests, NEW a \in Accounts, Step(r, a)
  PROVE  DoneInv'
<1>1. Answered \subseteq Answered'
  BY AnsweredStays
<1>2. ASSUME NEW q \in Requests, IsSent(q)'
      PROVE  req'[q].done \subseteq Answered
  <2>1. CASE IsSent(q)
    BY <2>1, ReqView DEF DoneInv
  <2>2. CASE ~IsSent(q)
    <3>1. q = r
      BY <1>2, <2>2, ReqView DEF IsSent
    <3>2. QED
      BY <2>2, <3>1, ReqView
  <2>3. QED
    BY <2>1, <2>2
<1>3. QED
  BY <1>1, <1>2 DEF DoneInv

LEMMA PcStep ==
  ASSUME TypeOK, PcInv, NEW r \in Requests, Start(r) \/ Proceed(r),
         NEW a \in Accounts, Step(r, a), Begins(r, a) \/ PcOk(r)'
  PROVE  PcInv'
<1>1. PcOk(r)'
  <2>1. ASSUME NEW new \in Sent,
               req' = [req EXCEPT ![r] = new],
               new.pc \in Refusals \cup {"loggedIn", "created"} => ~new.changed,
               new.pc = "loggedIn" => new.kind = "setPassword",
               new.kind = "setPassword" => new.pc = "loggedIn",
               new.kind = "update" => new.email \in Emails
        PROVE  PcOk(r)'
    <3>1. req'[r] = new
      BY <2>1 DEF TypeOK
    <3>2. QED
      BY <2>1, <3>1 DEF PcOk
  <2>2. QED
    BY <2>1 DEF Begins
<1>2. ASSUME NEW q \in Requests \ {r}, IsSent(q)'
      PROVE  PcOk(q)'
  <2>1. req'[q] = req[q]
    BY ReqView
  <2>2. QED
    BY <1>2, <2>1 DEF PcInv, PcOk, IsSent
<1>3. QED
  BY <1>1, <1>2 DEF PcInv
-----------------------------------------------------------------------------
(* A password stays of the one who set it.                                 *)
SetByNext(p, a) ==
    \/ p = a
    \/ p \in Requests /\ req'[p] # NotSent /\ req'[p].account = a /\ req'[p].changed

LEMMA SetByStays ==
  ASSUME TypeOK, NEW r \in Requests, NEW a \in Accounts, Step(r, a),
         NEW p, NEW b \in Accounts, SetBy(p, b)
  PROVE  SetByNext(p, b)
  BY ReqView DEF SetBy, SetByNext, IsSent

(* What a request of the password endpoint starts with.                    *)
LEMMA SetPasswordBegins ==
  ASSUME TypeOK, NEW r \in Requests, NEW a \in Accounts, Begins(r, a),
         req'[r].kind = "setPassword"
  PROVE  /\ MayLogIn(a) /\ req'[r].old = user[a].password /\ user' = user
         /\ req'[r].pc = "loggedIn" /\ ~req'[r].changed
  BY DEF Begins, TypeOK

LEMMA PasswordStep ==
  ASSUME TypeOK, PasswordInv, NEW r \in Requests, NEW a \in Accounts, Step(r, a)
  PROVE  PasswordInv'
<1>1. ASSUME NEW b \in Accounts, Known(b)'
      PROVE  SetByNext(user'[b].password, b)
  <2>1. CASE Known(b) /\ user'[b].password = user[b].password
    BY <2>1, SetByStays DEF PasswordInv
  <2>2. CASE b = a /\ user'[b].password = r /\ req'[r].changed
    BY <2>2, ReqView DEF SetByNext, IsSent
  <2>3. CASE b = a /\ user'[b].password = a
    BY <2>3 DEF SetByNext
  <2>4. QED
    BY <1>1, <2>1, <2>2, <2>3, UserView DEF Known, KeepsPassword
<1>2. ASSUME NEW q \in Requests, Is(q, "setPassword")'
      PROVE  SetByNext(req'[q].old, req'[q].account)
  <2>1. CASE IsSent(q)
    <3>1. req[q].account \in Accounts /\ SetBy(req[q].old, req[q].account)
      BY <1>2, <2>1, ReqView, SentRecord DEF PasswordInv, Is
    <3>2. QED
      BY <2>1, <3>1, ReqView, SetByStays
  <2>2. CASE ~IsSent(q)
    <3>1. q = r /\ req'[r].account = a
      BY <1>2, <2>2, ReqView DEF Is, IsSent
    <3>2. Begins(r, a) /\ req'[r].kind = "setPassword"
      BY <1>2, <2>2, <3>1 DEF Step, GoesOn, Is
    <3>3. Known(a) /\ req'[r].old = user[a].password
      BY <3>2, SetPasswordBegins DEF MayLogIn
    <3>4. QED
      BY <3>1, <3>3, SetByStays DEF PasswordInv
  <2>3. QED
    BY <2>1, <2>2
<1>3. QED
  BY <1>1, <1>2 DEF PasswordInv, SetBy, SetByNext, IsSent

(* ChangePassword is where a request of the password endpoint changes the  *)
(* user: with the old password, and with the access token it signed in for. *)
LEMMA ChangesOnce ==
  ASSUME TypeOK, NEW r \in Requests, Start(r) \/ Proceed(r),
         NEW a \in Accounts, Step(r, a), HasChanged(r)', ~HasChanged(r)
  PROVE  /\ Is(r, "setPassword") /\ ~req[r].changed /\ req[r].account = a
         /\ MayChange(r) /\ user'[a].password = r
<1>1. IsSent(r) /\ req'[r].kind = "setPassword" /\ req'[r].changed
  <2>1. req'[r].kind = "setPassword" /\ req'[r].changed
    BY DEF HasChanged, Is
  <2>2. ~Begins(r, a)
    BY <2>1, SetPasswordBegins
  <2>3. QED
    BY <2>1, <2>2 DEF Step, GoesOn
<1>2. Is(r, "setPassword") /\ ~req[r].changed /\ req[r].account = a
  BY <1>1, ReqView DEF HasChanged, Is
<1>3. ASSUME NEW pc, Goto(r, pc)
      PROVE  FALSE
  <2>1. req[r] \in Sent /\ req'[r] = [req[r] EXCEPT !.pc = pc]
    BY <1>1, <1>3, SentRecord DEF Goto, TypeOK
  <2>2. req'[r].changed = req[r].changed
    BY <2>1 DEF Sent
  <2>3. QED
    BY <1>1, <1>2, <2>2
<1>4. ~Start(r)
  BY <1>1 DEF Start, Login, Forgot, Refresh, Confirm, Logout, SetPasswordLogin, Delete,
     Create, Update, Begin, IsSent
<1>5. SetPasswordChange(r)
  BY <1>2, <1>3, <1>4 DEF Proceed, ReadUser, ForgotRead, CreateSetPassword, UpdateAttributes,
     UpdateSignOut, DeleteUser, CallFails, At, Is
<1>6. MayChange(r)
  BY <1>3, <1>5 DEF SetPasswordChange
<1>7. user[a] \in Users
  BY <1>2, <1>6 DEF MayChange, TypeOK, Known
<1>8. user'[a].password = r
  BY <1>2, <1>3, <1>5, <1>6, <1>7 DEF SetPasswordChange, Change, TypeOK, Users
<1>9. QED
  BY <1>2, <1>6, <1>8

(* Whoever may change a password has not changed it before.                *)
LEMMA ChangeIsFirst ==
  ASSUME TypeOK, LiveInv, SpentInv, NEW r \in Requests, Is(r, "setPassword"), MayChange(r)
  PROVE  ~req[r].changed /\ MayLogIn(req[r].account)
<1>1. MayLogIn(req[r].account)
  BY DEF MayChange, LiveInv, Token
<1>2. QED
  BY <1>1 DEF SpentInv, HasChanged, MayChange

(* A request that has not changed anything set no password.                *)
LEMMA NotMine ==
  ASSUME PasswordInv, NEW r \in Requests, IsSent(r) => ~req[r].changed,
         NEW q \in Requests, Is(q, "setPassword"), req[q].account \in Accounts
  PROVE  req[q].old # r
  BY NameAssumption DEF PasswordInv, SetBy, NameAssumption

LEMMA SpentStep ==
  ASSUME TypeOK, LiveInv, PasswordInv, SpentInv, NEW r \in Requests,
         Start(r) \/ Proceed(r), NEW a \in Accounts, Step(r, a)
  PROVE  SpentInv'
<1>1. ASSUME NEW q \in Requests, HasChanged(q), NEW b \in Accounts,
             b = req'[q].account, MayLogIn(b)'
      PROVE  user'[b].password # req'[q].old
  <2>1. b = req[q].account /\ req'[q].old = req[q].old
    BY <1>1, ReqView DEF HasChanged, Is
  <2>3. CASE Known(b) /\ KeepsPassword(b, user'[b])
    BY <1>1, <2>1, <2>3 DEF SpentInv, MayLogIn, KeepsPassword
  <2>4. CASE /\ user'[b].password = r
             /\ IsSent(r) /\ req[r].changed => Is(r, "setPassword") /\ MayChange(r)
    <3>1. IsSent(r) => ~req[r].changed
      <4>1. Is(r, "setPassword") /\ MayChange(r) => ~req[r].changed
        BY ChangeIsFirst
      <4>2. QED
        BY <2>4, <4>1
    <3>2. QED
      BY <1>1, <2>1, <2>4, <3>1, NotMine DEF HasChanged
  <2>5. CASE ~Known(b)' \/ ~user'[b].permanent
    BY <1>1, <2>5 DEF MayLogIn
  <2>6. QED
    BY <1>1, <2>3, <2>4, <2>5, UserView DEF MayLogIn, Known, KeepsPassword
<1>2. ASSUME ~HasChanged(r), HasChanged(r)'
      PROVE  user'[req'[r].account].password # req'[r].old
  <2>1. /\ Is(r, "setPassword") /\ ~req[r].changed /\ req[r].account = a
        /\ user'[a].password = r
    BY <1>2, ChangesOnce
  <2>2. req[r].old # r
    BY <2>1, NotMine
  <2>3. QED
    BY <2>1, <2>2, ReqView DEF Is
<1>3. \A q \in Requests : HasChanged(q)' => HasChanged(q) \/ q = r
  BY ReqView DEF HasChanged, Is, IsSent
<1>4. \A q \in Requests : HasChanged(q)' => req'[q].account \in Accounts
  <2>1. TypeOK'
    BY TypeStep
  <2>2. QED
    BY <2>1 DEF TypeOK, Sent, HasChanged, Is, IsSent
<1>5. QED
  BY <1>1, <1>2, <1>3, <1>4 DEF SpentInv

LEMMA OnceStep ==
  ASSUME TypeOK, LiveInv, PasswordInv, SpentInv, OnceInv, NEW r \in Requests,
         Start(r) \/ Proceed(r), NEW a \in Accounts, Step(r, a)
  PROVE  OnceInv'
<1>1. \A q \in Requests : HasChanged(q) => req'[q].old = req[q].old
  BY ReqView DEF HasChanged, Is
<1>2. \A q \in Requests : HasChanged(q)' => HasChanged(q) \/ q = r
  BY ReqView DEF HasChanged, Is, IsSent
<1>3. ASSUME ~HasChanged(r), HasChanged(r)', NEW s \in Requests, HasChanged(s)
      PROVE  req'[r].old # req'[s].old
  <2>1. /\ Is(r, "setPassword") /\ req[r].account = a /\ MayChange(r)
        /\ req'[r].old = req[r].old
    BY <1>3, ChangesOnce, ReqView DEF Is
  <2>2. MayLogIn(a) /\ user[a].password = req[r].old
    BY <2>1, ChangeIsFirst DEF MayChange
  <2>3. req[s].account = a => req[s].old # req[r].old
    BY <1>3, <2>2 DEF SpentInv
  <2>4. SetBy(req[s].old, req[s].account) /\ SetBy(req[r].old, a)
    BY <1>3, <2>1 DEF PasswordInv, HasChanged
  <2>5. req[s].account \in Accounts
    BY <1>3, SentRecord DEF HasChanged, Is
  <2>6. req[s].old = req[r].old => req[s].account = a
    BY <2>4, <2>5, NameAssumption DEF SetBy, NameAssumption
  <2>7. QED
    BY <1>1, <1>3, <2>1, <2>3, <2>6
<1>4. QED
  BY <1>1, <1>2, <1>3 DEF OnceInv
-----------------------------------------------------------------------------
(* A change that was made since a request began stays one.                 *)
LEMMA ChangedStays ==
  ASSUME TypeOK, NEW r \in Requests, NEW a \in Accounts, Step(r, a),
         NEW q \in Requests, Is(q, "forgot"), NEW b \in Accounts,
         ChangedSince(q, {"update", "delete"}, b)
  PROVE  ChangedSince(q, {"update", "delete"}, b)'
<1>1. PICK u \in Requests \ req[q].done :
         /\ IsSent(u) /\ req[u].kind \in {"update", "delete"}
         /\ req[u].account = b /\ req[u].changed
  BY DEF ChangedSince, IsSent
<1>2. /\ u \in Requests \ req'[q].done
      /\ IsSent(u)' /\ req'[u].kind \in {"update", "delete"}
      /\ req'[u].account = b /\ req'[u].changed
  BY <1>1, ReqView DEF Is
<1>3. QED
  BY <1>2 DEF ChangedSince, IsSent

LEMMA ForgotStep ==
  ASSUME TypeOK, AliasInv, DoneInv, ForgotInv, NEW r \in Requests,
         NEW a \in Accounts, Step(r, a)
  PROVE  ForgotInv'
<1>1. ASSUME NEW q \in Requests, Is(q, "forgot"), NEW b \in Accounts, b = req[q].account
      PROVE  ForgotOk(q)'
  <2>1. /\ req'[q].account = b /\ req'[q].email = req[q].email
        /\ req'[q].done = req[q].done
    BY <1>1, ReqView DEF Is
  <2>2. CASE ChangedSince(q, {"update", "delete"}, b)
    BY <1>1, <2>1, <2>2, ChangedStays DEF ForgotOk
  <2>3. CASE /\ a = b /\ req'[r].changed
             /\ Is(r, "update") \/ Is(r, "delete")
    <3>1. r \notin req[q].done
      BY <1>1, ReqView DEF DoneInv, Is
    <3>2. /\ IsSent(r)' /\ req'[r].kind \in {"update", "delete"}
          /\ req'[r].account = b /\ r \notin req'[q].done
      BY <2>1, <2>3, <3>1, ReqView DEF Is
    <3>3. ChangedSince(q, {"update", "delete"}, b)'
      BY <2>3, <3>2 DEF ChangedSince, IsSent
    <3>4. QED
      BY <2>1, <3>3 DEF ForgotOk
  <2>4. CASE /\ req[q].pc = "mailed" /\ req[q].answered = b
             /\ Known(b) /\ user[b].email = req[q].email
    <3>1. \/ Known(b)' /\ user'[b].email = user[b].email
          \/ a = b /\ req'[r].changed /\ (Is(r, "update") \/ Is(r, "delete"))
      BY <2>4, UserView DEF Known, KeepsEmail
    <3>2. CASE q # r
      BY <2>1, <2>3, <2>4, <3>1, <3>2, ReqView DEF ForgotOk
    <3>3. CASE q = r
      <4>1. PICK m \in Sent :
               /\ req' = [req EXCEPT ![r] = m] /\ m.pc # "mailed"
               /\ m.answered = req[r].answered \/ m.answered \in AliasOf(req[r].email)
        BY <1>1, <3>3 DEF Step, Begins, GoesOn, Is
      <4>2. m.answered = b
        BY <2>4, <3>3, <4>1 DEF AliasOf, AliasInv
      <4>3. req'[r] = m
        BY <4>1 DEF TypeOK
      <4>4. QED
        BY <2>1, <3>3, <4>1, <4>2, <4>3 DEF ForgotOk
    <3>4. QED
      BY <3>2, <3>3
  <2>5. CASE req[q].pc # "mailed" /\ req[q].answered = b
    <3>1. req'[q].pc # "mailed" /\ req'[q].answered = b
      <4>1. CASE q # r
        BY <2>5, <4>1, ReqView
      <4>2. CASE q = r
        BY <1>1, <2>5, <4>2 DEF Step, Begins, GoesOn, Is, TypeOK
      <4>3. QED
        BY <4>1, <4>2
    <3>2. QED
      BY <2>1, <3>1 DEF ForgotOk
  <2>6. QED
    BY <1>1, <2>2, <2>4, <2>5 DEF ForgotInv, ForgotOk
<1>2. ASSUME ~IsSent(r), Is(r, "forgot")'
      PROVE  ForgotOk(r)'
  <2>1. PICK new \in Sent :
           /\ req' = [req EXCEPT ![r] = new]
           /\ new.account = a /\ new.answered = a
           /\ new.kind = "forgot" =>
                 new.pc = "mailed" /\ Known(a) /\ user[a].email = new.email
    BY <1>2 DEF Step, Begins, GoesOn
  <2>2. req'[r] = new /\ new.kind = "forgot"
    BY <1>2, <2>1 DEF TypeOK, Is
  <2>3. Known(a)' /\ user'[a].email = user[a].email
    BY <1>2, <2>1, <2>2, UserView DEF Known, KeepsEmail, Is
  <2>4. QED
    BY <2>1, <2>2, <2>3 DEF ForgotOk
<1>3. ASSUME NEW q \in Requests, Is(q, "forgot")'
      PROVE  Is(q, "forgot") \/ (q = r /\ ~IsSent(r))
  BY <1>3, ReqView DEF Is, IsSent
<1>4. \A q \in Requests : Is(q, "forgot") => req[q].account \in Accounts
  BY SentRecord DEF Is
<1>5. QED
  BY <1>1, <1>2, <1>3, <1>4 DEF ForgotInv

(* A session ends only when somebody signs its user out after it began.    *)
Continues(s) ==
    \/ [by |-> s.refresh, account |-> s.owner] \in live
    \/ /\ s.refresh \in Names
       /\ \E o \in Requests \ DoneBefore(s.refresh) :
             /\ IsSent(o)
             /\ req[o].kind \in {"logout", "update", "delete"}
             /\ req[o].account = s.owner

LEMMA ContinueStep ==
  ASSUME TypeOK, HeldInv, DoneInv, SessionContinues, NEW r \in Requests,
         NEW a \in Accounts, Step(r, a)
  PROVE  SessionContinues'
<1>1. ASSUME NEW s \in held
      PROVE  Continues(s)'
  <2>1. s.refresh \in Names /\ Continues(s)
    BY DEF HeldInv, SessionContinues, Continues, IsSent
  <2>2. DoneBefore(s.refresh)' = DoneBefore(s.refresh)
        /\ r \notin DoneBefore(s.refresh)
    BY ReqView DEF HeldInv, DoneBefore, DoneInv
  <2>3. CASE \E o \in Requests \ DoneBefore(s.refresh) :
                /\ IsSent(o)
                /\ req[o].kind \in {"logout", "update", "delete"}
                /\ req[o].account = s.owner
    BY <2>1, <2>2, <2>3, ReqView DEF Continues
  <2>4. CASE [by |-> s.refresh, account |-> s.owner] \in live
    <3>1. CASE [by |-> s.refresh, account |-> s.owner] \in live'
      BY <3>1 DEF Continues
    <3>2. CASE [by |-> s.refresh, account |-> s.owner] \notin live'
      <4>1. SignsOut(r, a) /\ s.owner = a
        BY <2>4, <3>2 DEF Step, SessionChange, SignsIn, SignsOut, SignedOut
      <4>2. /\ IsSent(r)' /\ req'[r].account = s.owner
            /\ req'[r].kind \in {"logout", "update", "delete"}
        BY <4>1, ReqView DEF SignsOut
      <4>3. QED
        BY <2>1, <2>2, <4>2 DEF Continues
    <3>3. QED
      BY <3>1, <3>2
  <2>5. QED
    BY <2>1, <2>3, <2>4 DEF Continues
<1>2. CASE held' = held
  BY <1>1, <1>2 DEF SessionContinues, Continues, IsSent
<1>3. CASE NewSession(r, a)
  <2>1. PICK n : n = Session(r, a)
    OBVIOUS
  <2>2. [by |-> n.refresh, account |-> n.owner] \in live'
    BY <1>3, <2>1 DEF NewSession, SignsIn, Session, Token
  <2>3. \A k \in held' : k \in held \/ k = n
    BY <1>3, <2>1 DEF NewSession
  <2>4. QED
    BY <1>1, <2>2, <2>3 DEF SessionContinues, Continues, IsSent
<1>4. ASSUME NEW s \in held, Refreshed(s)
      PROVE  SessionContinues'
  <2> DEFINE n == [s EXCEPT !.claims = user[s.owner].claims, !.refresh = s.refresh]
  <2>1. n.owner = s.owner /\ n.refresh = s.refresh
    BY DEF TypeOK, Sessions
  <2>2. held' \subseteq held \cup {n} /\ [by |-> s.refresh, account |-> s.owner] \in live'
    BY <1>4 DEF Refreshed
  <2> HIDE DEF n
  <2>3. [by |-> n.refresh, account |-> n.owner] \in live'
    BY <2>1, <2>2
  <2>4. \A k \in held' : k \in held \/ k = n
    BY <2>2
  <2>5. QED
    BY <1>1, <2>3, <2>4 DEF SessionContinues, Continues, IsSent
<1>5. QED
  BY <1>2, <1>3, <1>4 DEF Step, SessionChange
-----------------------------------------------------------------------------
LEMMA InvInit == Init => IInv
<1> SUFFICES ASSUME Init
             PROVE  IInv
  OBVIOUS
<1>1. \A r \in Requests : ~IsSent(r)
  BY DEF Init, IsSent
<1>2. ASSUME NEW a \in Registered
      PROVE  [password |-> a, permanent |-> TRUE, claims |-> a,
              email |-> StartEmail[a], code |-> NoCode] \in Users
  BY StartAssumption DEF StartAssumption, Users, Names
<1>3. /\ user \in [Accounts -> Users \cup {NoUser}]
      /\ \A a \in Registered : /\ user[a] \in Users /\ Known(a) /\ user[a].permanent
                               /\ user[a].password = a /\ user[a].claims = a
                               /\ user[a].email = StartEmail[a]
      /\ \A a \in Accounts \ Registered : ~Known(a)
  BY <1>2, StartAssumption, MarkerAssumption
  DEF Init, Known, StartAssumption, MarkerAssumption
<1>4. held \subseteq Sessions /\ live \subseteq [by: Names, account: Accounts]
  BY StartAssumption DEF Init, StartAssumption, Sessions, Names, Token
<1>5. TypeOK
  <2>1. req \in [Requests -> Sent \cup {NotSent}]
    BY DEF Init
  <2>2. QED
    BY <1>3, <1>4, <2>1 DEF TypeOK
<1>6. LiveInv
  <2>1. \A t \in live : t.account \in Registered
    BY DEF Init, Token
  <2>2. QED
    BY <1>3, <2>1 DEF LiveInv, MayLogIn
<1>7. ClaimsInv /\ AliasInv
  BY <1>3, StartAssumption DEF ClaimsInv, AliasInv, StartAssumption
<1>8. HeldInv
  BY StartAssumption, NameAssumption
  DEF Init, HeldInv, StartAssumption, NameAssumption, Names
<1>9. DoneInv /\ PcInv /\ SpentInv /\ OnceInv /\ ForgotInv
  BY <1>1 DEF DoneInv, PcInv, SpentInv, OnceInv, ForgotInv, HasChanged, Is
<1>10. PasswordInv
  BY <1>1, <1>3 DEF PasswordInv, SetBy, Is
<1>11. SessionContinues
  BY DEF Init, SessionContinues, Token
<1>12. QED
  BY <1>5, <1>6, <1>7, <1>8, <1>9, <1>10, <1>11 DEF IInv

LEMMA InvStep == IInv /\ [Next]_vars => IInv'
<1> SUFFICES ASSUME IInv, [Next]_vars
             PROVE  IInv'
  OBVIOUS
<1>1. ASSUME NEW r \in Requests, Start(r) \/ Proceed(r)
      PROVE  IInv'
  <2>1. PICK a \in Accounts : Step(r, a) /\ (Begins(r, a) \/ PcOk(r)')
    BY <1>1, StartView, MoveView DEF IInv, Step
  <2>2. /\ TypeOK' /\ LiveInv' /\ ClaimsInv' /\ AliasInv' /\ HeldInv' /\ DoneInv'
    BY <2>1, TypeStep, LiveStep, ClaimsStep, AliasStep, HeldStep, DoneStep DEF IInv
  <2>3. PcInv' /\ PasswordInv' /\ SpentInv' /\ OnceInv'
    BY <1>1, <2>1, PcStep, PasswordStep, SpentStep, OnceStep DEF IInv
  <2>4. ForgotInv' /\ SessionContinues'
    BY <2>1, ForgotStep, ContinueStep DEF IInv
  <2>5. QED
    BY <2>2, <2>3, <2>4 DEF IInv
<1>2. CASE UNCHANGED vars
  BY <1>2 DEF vars, IInv, TypeOK, LiveInv, ClaimsInv, AliasInv, HeldInv, DoneInv, PcInv,
     PcOk, PasswordInv, SetBy, SpentInv, OnceInv, HasChanged, ForgotInv, ForgotOk,
     ChangedSince, SessionContinues, DoneBefore, Is, IsSent, Known, MayLogIn, Answered
<1>3. QED
  BY <1>1, <1>2 DEF Next

(* The inductive invariant.                                                *)
THEOREM InductiveInvariant == Spec => []IInv
  BY InvInit, InvStep, PTL DEF Spec

(* Types of the state.                                                     *)
THEOREM TypeCorrect == Spec => []TypeOK
<1>1. IInv => TypeOK
  BY DEF IInv
<1>2. QED
  BY InductiveInvariant, <1>1, PTL

(* Two password changes from the same password never both succeed, however *)
(* many requests of the endpoint have signed in with it before.            *)
THEOREM OneChange == Spec => []OneChangePerPassword
<1>1. IInv => OneChangePerPassword
  BY DEF IInv, PcInv, PcOk, OnceInv, HasChanged, Is, IsSent, OneChangePerPassword, At
<1>2. QED
  BY InductiveInvariant, <1>1, PTL

(* A refusal changed nothing, unless an answer of Cognito was lost.        *)
THEOREM RefusedUnchanged == Spec => []RefusedMeansUnchanged
<1>1. ASSUME IInv, NEW r \in Requests, req[r].pc \in Refusals, req[r].changed
      PROVE  req[r].resent
  <2>1. IsSent(r)
    BY <1>1 DEF IsSent, NotSent, Refusals
  <2>2. QED
    BY <1>1, <2>1 DEF IInv, PcInv, PcOk
<1>2. IInv => RefusedMeansUnchanged
  BY <1>1 DEF RefusedMeansUnchanged
<1>3. QED
  BY InductiveInvariant, <1>2, PTL

(* A forgotten-password request answers with the account its code was      *)
(* mailed to, unless that account was changed in between.                  *)
THEOREM ResetReaches == Spec => []ResetReachesItsAccount
<1>1. IInv => ResetReachesItsAccount
  BY DEF IInv, ForgotInv, ForgotOk, ResetReachesItsAccount, At, Is, IsSent
<1>2. QED
  BY InductiveInvariant, <1>1, PTL

(* A client can refresh for as long as nobody signs the account out.       *)
THEOREM SessionsContinue == Spec => []SessionContinues
<1>1. IInv => SessionContinues
  BY DEF IInv
<1>2. QED
  BY InductiveInvariant, <1>1, PTL

(* ID tokens name the account of the user that signed in.                  *)
THEOREM TokensNameAccounts == Spec => []TokensNameTheirAccount
<1>1. IInv => TokensNameTheirAccount
  BY DEF IInv, HeldInv, TokensNameTheirAccount
<1>2. QED
  BY InductiveInvariant, <1>1, PTL
=============================================================================
