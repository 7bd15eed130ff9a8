--------------------------- MODULE LoginEmailProofs ---------------------------
(***************************************************************************)
(* Theorems about LoginEmail for any accounts, requests and e-mails: why   *)
(* the two copies of a login e-mail can differ, and when an e-mail is      *)
(* stored twice.                                                           *)
(*                                                                         *)
(* The proof sorts the steps into three sorts: a request begins (Begins),  *)
(* goes on or fails (Moves), or commits.                                   *)
(***************************************************************************)
EXTENDS LoginEmail, TLAPS

(* A change of one's own e-mail, and one that Cognito has been told of.    *)
IsOwn(r) == /\ req[r].kind = "update" /\ req[r].by = req[r].account
            /\ req[r].email \in Emails
IsTold(r) == req[r] # NotSent /\ IsOwn(r) /\ req[r].pc \in {"told", "ready"}

(* How far each kind of request can be, and what an update holds.          *)
OpenInv ==
    \A r \in Requests : req[r] # NotSent =>
        /\ req[r].kind \in {"signUp", "create"} => req[r].pc \notin {"read", "written", "told"}
        /\ req[r].kind = "verify" => req[r].pc \notin {"written", "told"}
        /\ req[r].kind = "delete" => req[r].pc # "told"
        /\ req[r].kind = "update" /\ req[r].pc \in {"written", "told"} => req[r].email \in Emails
        /\ req[r].kind = "update" /\ req[r].pc \in {"written", "told", "ready"} =>
              lock[req[r].account] = r

(* Who is signed in, and whatever a request has read, exists.  Only what   *)
(* had been committed counts as done; a row that has changed since it was  *)
(* read was changed by somebody who was not.                               *)
ReadInv ==
    /\ \A f \in Founders : Exists(f)
    /\ \A r \in Requests : req[r] # NotSent =>
        /\ \A x \in req[r].done \cap Requests : req[x].pc = "committed"
        /\ req[r].kind = "create" => Exists(req[r].by)
        /\ req[r].kind \in {"signUp", "create"} => req[r].email \in Emails
        /\ req[r].kind \in {"verify", "update", "delete"} =>
              Exists(req[r].account) /\ req[r].seen \in Details
        /\ req[r].kind = "update" => req[r].seen.live
        /\ EmailOf(detail[req[r].account]) # EmailOf(req[r].seen) =>
              writer[req[r].account] \notin req[r].done

(* A row is made by one request, and nobody else knows its account yet.    *)
CreateInv ==
    \A r \in Requests :
        req[r] # NotSent /\ req[r].kind \in {"signUp", "create"} /\ req[r].pc = "ready" =>
            /\ ~Exists(req[r].account)
            /\ \A s \in Requests \ {r} :
                  req[s] # NotSent => req[s].account # req[r].account

(* Rows are live until their account is deleted; the e-mail in a row is    *)
(* that of its writer, and a sign-up saw none like its own.                *)
RowInv ==
    /\ \A a \in Accounts :
          /\ Exists(a) /\ a \notin gone => detail[a].live
          /\ writer[a] \in Requests =>
                /\ req[writer[a]].pc = "committed"
                /\ req[writer[a]].kind = "signUp" => detail[a].email = req[writer[a]].email
    /\ \A r \in Requests : req[r] # NotSent /\ req[r].kind = "signUp" =>
          \A a \in Accounts : Exists(a) /\ a \notin gone /\ writer[a] \in req[r].done =>
              detail[a].email # req[r].email

(* A login has the e-mail its last teller gave it.                         *)
TellerInv ==
    \A a \in Accounts :
        /\ login[a] # NoLogin => Exists(a)
        /\ teller[a] \in Requests => Exists(a) /\ req[teller[a]] # NotSent
        /\ login[a] # NoLogin /\ teller[a] \in Requests =>
              /\ req[teller[a]].kind = "update" => login[a] = req[teller[a]].email
              /\ req[teller[a]].kind = "verify" =>
                    req[teller[a]].account = a /\ login[a] = req[teller[a]].seen.email

(* Between telling Cognito and its commit no other change of the own       *)
(* e-mail comes in, as the row is held.                                    *)
TellInv ==
    \A r \in Requests : IsTold(r) =>
        LET a == req[r].account
            t == teller[a]
        IN  \/ t = r
            \/ login[a] = NoLogin
            \/ t \in Requests /\ req[t].kind = "update" /\ req[t].account # a
            \/ t \in Requests /\ req[t].kind = "verify"

(* LoginEmailExplained, for deleted rows too: an update may bring one back.*)
ExplainedInv ==
    \A a \in Accounts :
        Exists(a) /\ login[a] # NoLogin /\ login[a] # detail[a].email =>
            DifferenceExplained(a)

IInv == /\ TypeOK /\ OpenInv /\ ReadInv /\ CreateInv /\ RowInv
        /\ TellerInv /\ TellInv /\ ExplainedInv
-----------------------------------------------------------------------------
Record(kind, pc, a, by, email) ==
    [kind |-> kind, pc |-> pc, account |-> a, by |-> by, email |-> email,
     seen |-> detail[a], done |-> Done]

(* What a request is when it begins.                                       *)
Begins(r, new) ==
    /\ req[r] = NotSent
    /\ req' = [req EXCEPT ![r] = new]
    /\ new \in Sent
    /\ new.seen = detail[new.account] /\ new.done = Done
    /\ new.kind \in {"signUp", "create"} =>
          /\ new.pc = "ready" /\ new.email \in Emails
          /\ Fresh(new.account)
    /\ new.kind = "signUp" => new.email \notin LiveEmails
    /\ new.kind = "create" => Exists(new.by)
    /\ new.kind \in {"verify", "update", "delete"} =>
          new.pc = "read" /\ Live(new.account)
    /\ UNCHANGED <<rows, lock, cognito>>

(* A step between the first and the last: it only moves the request on,    *)
(* takes or frees row locks, and may tell Cognito.                         *)
Moves(r, p) ==
    /\ req[r] \in Sent /\ req[r].pc \notin {"committed", "failed"}
    /\ req' = [req EXCEPT ![r].pc = p]
    /\ p \in {"written", "told", "ready", "failed"}
    /\ UNCHANGED rows

LEMMA SentType == NotSent \notin Sent
  BY DEF NotSent, Sent

LEMMA DoneType == TypeOK => Done \in SUBSET (Requests \cup Accounts)
  BY StartAssumption DEF Done, StartAssumption

(* Whoever is signed in has a row.                                         *)
LEMMA SignedInExists ==
    ASSUME ReadInv, TellerInv, NEW by \in Accounts, SignedIn(by)
    PROVE  Exists(by)
  BY DEF ReadInv, TellerInv, SignedIn

LEMMA StartBegins ==
    ASSUME TypeOK, ReadInv, TellerInv, NEW r \in Requests, Start(r)
    PROVE  \E new \in Sent : Begins(r, new)
<1>1. PICK a \in Accounts :
          \/ \E e \in Emails : SignUp(r, a, e)
          \/ \E e \in Emails, by \in Accounts : Create(r, a, by, e)
          \/ VerifyRead(r, a)
          \/ \E e \in Emails \cup {Unset, Empty}, by \in Accounts : UpdateRead(r, a, by, e)
          \/ \E by \in Accounts : DeleteRead(r, a, by)
  BY DEF Start
<1>2. ASSUME NEW kind \in Kinds, NEW pc \in {"read", "ready"}, NEW by \in Accounts,
             NEW email \in Emails \cup {Unset, Empty}, Begin(r, kind, pc, a, by, email)
      PROVE  /\ Record(kind, pc, a, by, email) \in Sent
             /\ req[r] = NotSent
             /\ req' = [req EXCEPT ![r] = Record(kind, pc, a, by, email)]
             /\ UNCHANGED <<rows, lock, cognito>>
  BY <1>2, DoneType DEF Record, Begin, Sent, TypeOK
<1>3. ASSUME NEW e \in Emails, SignUp(r, a, e) PROVE Begins(r, Record("signUp", "ready", a, a, e))
  BY <1>2, <1>3 DEF SignUp, Begins, Kinds, Record, IsEmailAlreadyTaken
<1>4. ASSUME NEW e \in Emails, NEW by \in Accounts, Create(r, a, by, e)
      PROVE  Begins(r, Record("create", "ready", a, by, e))
  BY <1>2, <1>4, SignedInExists DEF Create, Begins, Kinds, Record
<1>5. ASSUME VerifyRead(r, a) PROVE Begins(r, Record("verify", "read", a, a, Unset))
  BY <1>2, <1>5 DEF VerifyRead, Begins, Kinds, Record
<1>6. ASSUME NEW e \in Emails \cup {Unset, Empty}, NEW by \in Accounts, UpdateRead(r, a, by, e)
      PROVE  Begins(r, Record("update", "read", a, by, e))
  BY <1>2, <1>6 DEF UpdateRead, Begins, Kinds, Record
<1>7. ASSUME NEW by \in Accounts, DeleteRead(r, a, by)
      PROVE  Begins(r, Record("delete", "read", a, by, Unset))
  BY <1>2, <1>7 DEF DeleteRead, Begins, Kinds, Record
<1>8. \A new : Begins(r, new) => new \in Sent
  BY DEF Begins
<1> QED
  BY <1>1, <1>3, <1>4, <1>5, <1>6, <1>7, <1>8

(* Moving on leaves everything of a request but its place alone.           *)
LEMMA MoveFrame ==
    ASSUME TypeOK, NEW r \in Requests, NEW p, Moves(r, p)
    PROVE  /\ \A s \in Requests \ {r} : req'[s] = req[s]
           /\ req'[r] \in Sent /\ req'[r].pc = p
           /\ \A s \in Requests : req[s] # NotSent =>
                 /\ req'[s] # NotSent
                 /\ req'[s].kind = req[s].kind /\ req'[s].account = req[s].account
                 /\ req'[s].by = req[s].by /\ req'[s].email = req[s].email
                 /\ req'[s].seen = req[s].seen /\ req'[s].done = req[s].done
           /\ \A s \in Requests : req'[s] # NotSent => req[s] # NotSent
           /\ \A s \in Requests : req'[s].pc = "committed" <=> req[s].pc = "committed"
<1>1. req'[r] = [req[r] EXCEPT !.pc = p] /\ req[r] # NotSent
  BY SentType DEF Moves, TypeOK
<1>2. /\ req'[r] \in Sent /\ req'[r].pc = p
      /\ req'[r].kind = req[r].kind /\ req'[r].account = req[r].account
      /\ req'[r].by = req[r].by /\ req'[r].email = req[r].email
      /\ req'[r].seen = req[r].seen /\ req'[r].done = req[r].done
  BY <1>1 DEF Moves, Sent
<1>3. \A s \in Requests \ {r} : req'[s] = req[s]
  BY DEF Moves, TypeOK
<1> QED
  BY <1>1, <1>2, <1>3, SentType DEF Moves

(* What becomes of the locks: those of others stay; one's own until the end*)
Locks(r, p) ==
    /\ lock' \in [Accounts -> Requests \cup {Nobody}]
    /\ \A b \in Accounts : lock[b] \in Requests \ {r} => lock'[b] = lock[b]
    /\ req[r].kind = "update" /\ p \in {"written", "told", "ready"} => lock'[req[r].account] = r

(* The ways through the steps, with what Cognito is told.                  *)
Tells(r, p) ==
    \/ /\ UNCHANGED cognito
       /\ p # "told"
       /\ req[r].kind \in {"signUp", "create", "verify"} => p = "failed"
       /\ p \in {"written", "ready"} /\ req[r].kind = "update" =>
             IF req[r].email \in Emails THEN p = "ready" => req[r].pc = "told" ELSE p = "ready"
    \/ /\ req[r].kind = "update" /\ req[r].pc = "written" /\ p = "told"
       /\ login[req[r].by] # NoLogin
       /\ SetLoginEmail(r, req[r].by, req[r].email)
    \/ /\ req[r].kind = "verify" /\ p = "ready" /\ req[r].seen.email # Empty
       /\ SetLoginEmail(r, req[r].account, req[r].seen.email)
    \/ /\ req[r].kind = "delete" /\ p = "ready"
       /\ SetLoginEmail(r, req[r].account, NoLogin)

GoesOn(r) == \/ VerifyCreateUser(r) \/ UpdateWrite(r) \/ UpdateTell(r) \/ UpdateSignOut(r)
             \/ DeleteWrite(r) \/ DeleteUser(r) \/ Fail(r)

LEMMA SentWhen ==
    ASSUME TypeOK, NEW r \in Requests, NEW kind, NEW pc, At(r, kind, pc)
    PROVE  req[r] \in Sent /\ req[r].kind = kind /\ req[r].pc = pc
  BY DEF At, TypeOK

LEMMA ThrowMoves ==
    ASSUME TypeOK, NEW r \in Requests, req[r] \in Sent,
           req[r].pc \notin {"committed", "failed"}, Throw(r), UNCHANGED rows
    PROVE  Moves(r, "failed") /\ Locks(r, "failed")
  BY MarkerAssumption DEF Throw, Goto, Free, Moves, Locks, TypeOK

LEMMA StepMoves ==
    ASSUME TypeOK, OpenInv, NEW r \in Requests, GoesOn(r)
    PROVE  \E p \in {"written", "told", "ready", "failed"} :
              Moves(r, p) /\ Locks(r, p) /\ Tells(r, p)
<1>1. CASE VerifyCreateUser(r)
  <2>1. req[r] \in Sent /\ req[r].kind = "verify" /\ req[r].pc = "read"
    BY <1>1, SentWhen DEF VerifyCreateUser
  <2>2. CASE Throw(r) /\ UNCHANGED cognito
    BY <1>1, <2>1, <2>2, ThrowMoves DEF VerifyCreateUser, Tells
  <2>3. CASE /\ req[r].seen.email # Empty
             /\ SetLoginEmail(r, req[r].account, req[r].seen.email)
             /\ Goto(r, "ready")
             /\ UNCHANGED lock
    BY <1>1, <2>1, <2>3 DEF VerifyCreateUser, Moves, Locks, Tells, Goto, TypeOK
  <2> QED
    BY <1>1, <2>2, <2>3 DEF VerifyCreateUser
<1>2. CASE UpdateWrite(r)
  <2>1. req[r] \in Sent /\ req[r].kind = "update" /\ req[r].pc = "read"
    BY <1>2, SentWhen DEF UpdateWrite
  <2> DEFINE p == IF IsLoginEmailChange(req[r].email) THEN "written" ELSE "ready"
  <2>2. Moves(r, p)
    BY <1>2, <2>1 DEF UpdateWrite, Moves, Goto
  <2>3. req[r].account \in Accounts
    BY <2>1 DEF Sent
  <2>4. Locks(r, p)
    BY <1>2, <2>1, <2>3, MarkerAssumption DEF UpdateWrite, Locks, TypeOK, MarkerAssumption
  <2>5. Tells(r, p)
    BY <1>2, <2>1 DEF UpdateWrite, Tells, IsLoginEmailChange
  <2> QED
    BY <2>2, <2>4, <2>5
<1>3. CASE UpdateTell(r)
  <2>1. /\ req[r] \in Sent /\ req[r].kind = "update" /\ req[r].pc = "written"
        /\ lock[req[r].account] = r
    BY <1>3, SentWhen, SentType DEF UpdateTell, OpenInv
  <2>2. CASE Throw(r) /\ UNCHANGED cognito
    BY <1>3, <2>1, <2>2, ThrowMoves DEF UpdateTell, Tells
  <2>3. CASE /\ login[req[r].by] # NoLogin
             /\ SetLoginEmail(r, req[r].by, req[r].email)
             /\ Goto(r, "told")
             /\ UNCHANGED lock
    BY <1>3, <2>1, <2>3 DEF UpdateTell, UpdatedUser, Moves, Locks, Tells, Goto, TypeOK
  <2> QED
    BY <1>3, <2>2, <2>3 DEF UpdateTell, UpdatedUser
<1>4. CASE UpdateSignOut(r)
  <2>1. /\ req[r] \in Sent /\ req[r].kind = "update" /\ req[r].pc = "told"
        /\ lock[req[r].account] = r
    BY <1>4, SentWhen, SentType DEF UpdateSignOut, OpenInv
  <2>2. CASE Throw(r)
    BY <1>4, <2>1, <2>2, ThrowMoves DEF UpdateSignOut, Tells
  <2>3. CASE Goto(r, "ready") /\ UNCHANGED lock
    <3>1. req[r].email \in Emails
      BY <2>1, SentType DEF OpenInv
    <3> QED
      BY <1>4, <2>1, <2>3, <3>1 DEF UpdateSignOut, Moves, Locks, Tells, Goto, TypeOK
  <2> QED
    BY <1>4, <2>2, <2>3 DEF UpdateSignOut
<1>5. CASE DeleteWrite(r)
  <2>1. req[r] \in Sent /\ req[r].kind = "delete" /\ req[r].pc = "read"
    BY <1>5, SentWhen DEF DeleteWrite
  <2>2. PICK p \in {"written", "ready"} : Goto(r, p)
    BY <1>5 DEF DeleteWrite
  <2>3. req[r].account \in Accounts
    BY <2>1 DEF Sent
  <2>4. Moves(r, p) /\ Locks(r, p) /\ Tells(r, p)
    BY <1>5, <2>1, <2>2, <2>3, MarkerAssumption
       DEF DeleteWrite, Moves, Locks, Tells, Goto, TypeOK, MarkerAssumption
  <2> QED
    BY <2>2, <2>4
<1>6. CASE DeleteUser(r)
  <2>1. req[r] \in Sent /\ req[r].kind = "delete" /\ req[r].pc = "written"
    BY <1>6, SentWhen DEF DeleteUser
  <2>2. CASE Throw(r) /\ UNCHANGED cognito
    BY <1>6, <2>1, <2>2, ThrowMoves DEF DeleteUser, Tells
  <2>3. CASE /\ SetLoginEmail(r, req[r].account, NoLogin)
             /\ Goto(r, "ready")
             /\ UNCHANGED lock
    BY <1>6, <2>1, <2>3 DEF DeleteUser, Moves, Locks, Tells, Goto, TypeOK
  <2> QED
    BY <1>6, <2>2, <2>3 DEF DeleteUser
<1>7. CASE Fail(r)
  <2>1. req[r] \in Sent
    BY <1>7 DEF Fail, NotSent, TypeOK
  <2> QED
    BY <1>7, <2>1, ThrowMoves DEF Fail, Tells
<1> QED
  BY <1>1, <1>2, <1>3, <1>4, <1>5, <1>6, <1>7 DEF GoesOn

(* Every step is of one of the three sorts.                                *)
LEMMA StepCases ==
    ASSUME TypeOK, OpenInv, ReadInv, TellerInv, Next
    PROVE  \E r \in Requests :
              \/ \E new \in Sent : Begins(r, new)
              \/ \E p \in {"written", "told", "ready", "failed"} :
                    Moves(r, p) /\ Locks(r, p) /\ Tells(r, p)
              \/ Commit(r)
  BY StartBegins, StepMoves DEF Next, GoesOn
-----------------------------------------------------------------------------
LEMMA CommitFrame ==
    ASSUME TypeOK, NEW r \in Requests, Commit(r)
    PROVE  /\ req[r] \in Sent /\ req[r] # NotSent /\ req[r].pc = "ready"
           /\ \A s \in Requests \ {r} : req'[s] = req[s]
           /\ req'[r] \in Sent /\ req'[r].pc = "committed"
           /\ \A s \in Requests : req[s] # NotSent =>
                 /\ req'[s] # NotSent
                 /\ req'[s].kind = req[s].kind /\ req'[s].account = req[s].account
                 /\ req'[s].by = req[s].by /\ req'[s].email = req[s].email
                 /\ req'[s].seen = req[s].seen /\ req'[s].done = req[s].done
           /\ \A s \in Requests : req'[s] # NotSent => req[s] # NotSent
           /\ \A b \in Accounts : lock[b] \in Requests \ {r} => lock'[b] = lock[b]
<1>1. req[r] \in Sent /\ req[r].pc = "ready"
  BY DEF Commit, NotSent, TypeOK
<1>2. req'[r] = [req[r] EXCEPT !.pc = "committed"]
  BY DEF Commit, Goto, TypeOK
<1>3. /\ req'[r] \in Sent /\ req'[r].pc = "committed"
      /\ req'[r].kind = req[r].kind /\ req'[r].account = req[r].account
      /\ req'[r].by = req[r].by /\ req'[r].email = req[r].email
      /\ req'[r].seen = req[r].seen /\ req'[r].done = req[r].done
  BY <1>1, <1>2 DEF Sent
<1>4. \A s \in Requests \ {r} : req'[s] = req[s]
  BY DEF Commit, Goto, TypeOK
<1>5. \A b \in Accounts : lock[b] \in Requests \ {r} => lock'[b] = lock[b]
  BY DEF Commit, Free
<1> QED
  BY <1>1, <1>3, <1>4, <1>5, SentType

(* What a commit makes of the row, by the kind of the request.             *)
LEMMA CommitRow ==
    ASSUME TypeOK, ReadInv, CreateInv, NEW r \in Requests, Commit(r)
    PROVE  LET a == req[r].account
           IN  /\ detail'[a] \in Details
               /\ \A b \in Accounts \ {a} : /\ detail'[b] = detail[b]
                                            /\ writer'[b] = writer[b]
                                            /\ b \in gone' <=> b \in gone
               /\ a \in gone => a \in gone'
               /\ writer'[a] = IF EmailOf(detail[a]) = EmailOf(detail'[a]) THEN writer[a] ELSE r
               /\ req[r].kind \in {"signUp", "create"} =>
                     /\ ~Exists(a) /\ detail'[a].live
                     /\ detail'[a].email = req[r].email /\ req[r].email \in Emails
               /\ req[r].kind = "verify" => Exists(a) /\ detail'[a] = detail[a] /\ gone' = gone
               /\ req[r].kind = "delete" =>
                     /\ Exists(a) /\ a \in gone'
                     /\ detail'[a].email = detail[a].email
               /\ req[r].kind = "update" =>
                     /\ Exists(a) /\ detail'[a].live
                     /\ detail'[a].email = IF req[r].email = Unset THEN req[r].seen.email
                                           ELSE req[r].email
<1> DEFINE a == req[r].account
<1>1. req[r] \in Sent /\ req[r] # NotSent /\ req[r].pc = "ready"
  BY CommitFrame
<1>2. a \in Accounts /\ req[r].by \in Accounts /\ req[r].kind \in Kinds
  BY <1>1 DEF Sent
<1>3. /\ detail' = [detail EXCEPT ![a] = DetailAfter(r)]
      /\ gone' = IF req[r].kind = "delete" THEN gone \cup {a} ELSE gone
      /\ writer' = IF EmailOf(detail[a]) = EmailOf(detail'[a]) THEN writer
                   ELSE [writer EXCEPT ![a] = r]
  BY DEF Commit
<1>4. /\ detail'[a] = DetailAfter(r)
      /\ \A b \in Accounts \ {a} : /\ detail'[b] = detail[b]
                                   /\ writer'[b] = writer[b]
                                   /\ b \in gone' <=> b \in gone
      /\ a \in gone => a \in gone'
      /\ writer'[a] = IF EmailOf(detail[a]) = EmailOf(detail'[a]) THEN writer[a] ELSE r
  BY <1>2, <1>3 DEF TypeOK
<1>5. CASE req[r].kind \in {"signUp", "create"}
  <2>1. DetailAfter(r) = NewDetail(r)
    BY <1>5 DEF DetailAfter
  <2>2. ~Exists(a) /\ req[r].email \in Emails
    BY <1>1, <1>5 DEF CreateInv, ReadInv
  <2>3. req[r].kind = "create" => detail[req[r].by] \in Details
    BY <1>1, <1>2 DEF ReadInv, Exists, TypeOK
  <2>4. /\ NewDetail(r) \in Details /\ NewDetail(r).live
        /\ NewDetail(r).email = req[r].email
    BY <1>2, <1>5, <2>2, <2>3 DEF NewDetail, Details
  <2> QED
    BY <1>4, <1>5, <2>1, <2>2, <2>4
<1>6. CASE req[r].kind = "verify"
  <2>1. DetailAfter(r) = detail[a]
    BY <1>6 DEF DetailAfter
  <2> QED
    BY <1>1, <1>2, <1>3, <1>4, <1>6, <2>1 DEF ReadInv, Exists, TypeOK
<1>7. CASE req[r].kind = "delete"
  <2>1. DetailAfter(r) = [detail[a] EXCEPT !.live = FALSE]
    BY <1>7 DEF DetailAfter
  <2>2. Exists(a) /\ detail[a] \in Details
    BY <1>1, <1>2, <1>7 DEF ReadInv, Exists, TypeOK
  <2>3. DetailAfter(r) \in Details /\ DetailAfter(r).email = detail[a].email
    BY <2>1, <2>2 DEF Details
  <2> QED
    BY <1>3, <1>4, <1>7, <2>2, <2>3
<1>8. CASE req[r].kind = "update"
  <2>1. DetailAfter(r) = UpdatedDetail(r)
    BY <1>8 DEF DetailAfter
  <2>2. Exists(a) /\ req[r].seen \in Details /\ req[r].seen.live
    BY <1>1, <1>8 DEF ReadInv
  <2>3. req[r].email \in Emails \cup {Unset, Empty}
    BY <1>1 DEF Sent
  <2>4. /\ UpdatedDetail(r) \in Details /\ UpdatedDetail(r).live
        /\ UpdatedDetail(r).email = IF req[r].email = Unset THEN req[r].seen.email
                                    ELSE req[r].email
    BY <2>2, <2>3 DEF UpdatedDetail, Details
  <2> QED
    BY <1>4, <1>8, <2>1, <2>2, <2>4
<1> QED
  BY <1>2, <1>5, <1>6, <1>7, <1>8 DEF Kinds

LEMMA BeginFrame ==
    ASSUME TypeOK, NEW r \in Requests, NEW new, Begins(r, new)
    PROVE  /\ req'[r] = new /\ new # NotSent
           /\ \A s \in Requests \ {r} : req'[s] = req[s]
  BY SentType DEF Begins, TypeOK

(* Some e-mail for a row that may be missing.                              *)
LEMMA EmailFacts ==
    /\ \A d \in Details : EmailOf(d) = d.email /\ d.email \in Emails \cup {Empty}
    /\ EmailOf(NoDetail) = Unset
    /\ Unset \notin Emails \cup {Empty} /\ NoLogin \notin Emails
    /\ NoDetail \notin Details
  BY MarkerAssumption, NoDetailAssumption
     DEF EmailOf, Details, MarkerAssumption, NoDetailAssumption
-----------------------------------------------------------------------------
LEMMA InitInv == Init => IInv
<1> SUFFICES ASSUME Init PROVE IInv
  OBVIOUS
<1>1. \A a \in Founders : /\ a \in Accounts /\ StartEmail[a] \in Emails
  BY StartAssumption DEF StartAssumption
<1>2. \A a \in Accounts :
         /\ detail[a] \in Details \cup {NoDetail}
         /\ a \in Founders => /\ detail[a] \in Details
                              /\ detail[a].live /\ detail[a].email = StartEmail[a]
                              /\ login[a] = StartEmail[a]
         /\ a \notin Founders => detail[a] = NoDetail /\ login[a] = NoLogin
  BY <1>1 DEF Init, Details
<1>3. TypeOK
  BY <1>1, <1>2 DEF Init, TypeOK
<1>4. OpenInv /\ CreateInv /\ TellInv
  BY DEF Init, OpenInv, CreateInv, TellInv, IsTold
<1>5. ReadInv
  BY <1>1, <1>2, EmailFacts DEF Init, ReadInv, Exists
<1>6. RowInv
  BY <1>2, MarkerAssumption DEF Init, RowInv, Exists, MarkerAssumption
<1>7. TellerInv
  <2>1. \A a \in Accounts : teller[a] = a /\ a \notin Requests
    BY MarkerAssumption DEF Init, MarkerAssumption
  <2>2. \A a \in Accounts : login[a] # NoLogin => detail[a] # NoDetail
    BY <1>2, EmailFacts
  <2> QED
    BY <2>1, <2>2 DEF TellerInv, Exists
<1>8. ExplainedInv
  BY <1>2 DEF ExplainedInv, Exists
<1> QED
  BY <1>3, <1>4, <1>5, <1>6, <1>7, <1>8 DEF IInv

LEMMA TypeStep ==
    ASSUME TypeOK, OpenInv, ReadInv, CreateInv, TellerInv, Next
    PROVE  TypeOK'
<1>1. ASSUME NEW r \in Requests, NEW new \in Sent, Begins(r, new) PROVE TypeOK'
  BY <1>1 DEF Begins, TypeOK, rows, cognito
<1>2. ASSUME NEW r \in Requests, NEW p, Moves(r, p), Locks(r, p), Tells(r, p) PROVE TypeOK'
  <2>1. req' \in [Requests -> Sent \cup {NotSent}]
    BY <1>2, MoveFrame DEF Moves, TypeOK
  <2>2. req[r] \in Sent /\ req[r] # NotSent
    BY <1>2, SentType DEF Moves
  <2>3. /\ req[r].by \in Accounts /\ req[r].account \in Accounts
        /\ req[r].kind = "verify" => req[r].seen \in Details
        /\ req[r].kind = "update" /\ req[r].pc = "written" => req[r].email \in Emails
    BY <2>2 DEF Sent, OpenInv, ReadInv
  <2>4. req[r].kind = "verify" => req[r].seen.email \in Emails \cup {Empty}
    BY <2>3, EmailFacts
  <2>5. login' \in [Accounts -> Emails \cup {NoLogin}] /\ teller' \in [Accounts -> Accounts \cup Requests]
    BY <1>2, <2>3, <2>4 DEF Tells, SetLoginEmail, TypeOK, cognito
  <2> QED
    BY <1>2, <2>1, <2>5 DEF Moves, Locks, TypeOK, rows
<1>3. ASSUME NEW r \in Requests, Commit(r) PROVE TypeOK'
  <2>1. req[r].account \in Accounts
    BY <1>3, CommitFrame DEF Sent
  <2>2. detail' \in [Accounts -> Details \cup {NoDetail}]
    BY <1>3, <2>1, CommitRow DEF Commit, TypeOK
  <2>3. req' \in [Requests -> Sent \cup {NotSent}]
    <3>1. \A s \in Requests : req'[s] \in Sent \cup {NotSent}
      BY <1>3, CommitFrame DEF TypeOK
    <3>2. req' = [s \in Requests |-> req'[s]]
      BY <1>3 DEF Commit, Goto, TypeOK
    <3> QED
      BY <3>1, <3>2
  <2>4. gone' \subseteq Accounts /\ writer' \in [Accounts -> Accounts \cup Requests]
    BY <1>3, <2>1 DEF Commit, TypeOK
  <2>5. lock' \in [Accounts -> Requests \cup {Nobody}]
    BY <1>3 DEF Commit, Free, TypeOK
  <2> QED
    BY <1>3, <2>2, <2>3, <2>4, <2>5 DEF Commit, TypeOK, cognito
<1> QED
  BY <1>1, <1>2, <1>3, StepCases

LEMMA OpenStep ==
    ASSUME TypeOK, OpenInv, ReadInv, TellerInv, Next
    PROVE  OpenInv'
<1>1. ASSUME NEW r \in Requests, NEW new \in Sent, Begins(r, new) PROVE OpenInv'
  BY <1>1, BeginFrame DEF Begins, OpenInv, Sent, Kinds
<1>2. ASSUME NEW r \in Requests, NEW p, Moves(r, p), Locks(r, p), Tells(r, p) PROVE OpenInv'
  <2>1. ASSUME NEW s \in Requests \ {r}, req[s] # NotSent, req[s].kind = "update",
               req[s].pc \in {"written", "told", "ready"}
        PROVE  lock'[req[s].account] = s
    <3>1. lock[req[s].account] = s /\ req[s].account \in Accounts
      BY <2>1 DEF OpenInv, TypeOK, Sent
    <3> QED
      BY <1>2, <3>1 DEF Locks
  <2>2. req[r] # NotSent
    BY <1>2, SentType DEF Moves
  <2>3. /\ req[r].kind \in {"signUp", "create"} => p \notin {"read", "written", "told"}
        /\ req[r].kind = "verify" => p \notin {"written", "told"}
        /\ req[r].kind = "delete" => p # "told"
        /\ req[r].kind = "update" /\ p \in {"written", "told"} => req[r].email \in Emails
        /\ req[r].kind = "update" /\ p \in {"written", "told", "ready"} =>
              lock'[req[r].account] = r
    BY <1>2, <2>2 DEF Moves, Locks, Tells, OpenInv
  <2> QED
    BY <1>2, <2>1, <2>2, <2>3, MoveFrame DEF OpenInv
<1>3. ASSUME NEW r \in Requests, Commit(r) PROVE OpenInv'
  <2>1. ASSUME NEW s \in Requests \ {r}, req[s] # NotSent, req[s].kind = "update",
               req[s].pc \in {"written", "told", "ready"}
        PROVE  lock'[req[s].account] = s
    <3>1. lock[req[s].account] = s /\ req[s].account \in Accounts
      BY <2>1 DEF OpenInv, TypeOK, Sent
    <3> QED
      BY <1>3, <3>1, CommitFrame
  <2> QED
    BY <1>3, <2>1, CommitFrame DEF OpenInv
<1> QED
  BY <1>1, <1>2, <1>3, StepCases

LEMMA ReadStep ==
    ASSUME TypeOK, OpenInv, ReadInv, CreateInv, TellerInv, Next
    PROVE  ReadInv'
<1>1. ASSUME NEW r \in Requests, NEW new \in Sent, Begins(r, new) PROVE ReadInv'
  <2>1. UNCHANGED <<detail, writer>>
    BY <1>1 DEF Begins, rows
  <2>2. \A x \in Done \cap Requests : x # r /\ req[x].pc = "committed"
    BY <1>1, StartAssumption, MarkerAssumption
       DEF Begins, Done, NotSent, StartAssumption, MarkerAssumption
  <2>3. \A s \in Requests : req[s] # NotSent =>
           \A x \in req[s].done \cap Requests : x # r
    BY <1>1 DEF Begins, NotSent, ReadInv
  <2>4. new.kind \in {"verify", "update", "delete"} =>
           Exists(new.account) /\ new.seen \in Details /\ new.seen.live
    BY <1>1 DEF Begins, Live, Exists, TypeOK, Sent
  <2> QED
    BY <1>1, <2>1, <2>2, <2>3, <2>4, BeginFrame DEF ReadInv, Begins, Exists
<1>2. ASSUME NEW r \in Requests, NEW p, Moves(r, p) PROVE ReadInv'
  <2>1. UNCHANGED <<detail, writer>>
    BY <1>2 DEF Moves, rows
  <2>2. \A s \in Requests : req[s] # NotSent =>
           \A x \in req[s].done \cap Requests : req'[x].pc = "committed"
    BY <1>2, MoveFrame DEF ReadInv
  <2> QED
    BY <1>2, <2>1, <2>2, MoveFrame DEF ReadInv, Exists
<1>3. ASSUME NEW r \in Requests, Commit(r) PROVE ReadInv'
  <2>1. \A b \in Accounts : Exists(b) => detail'[b] # NoDetail
    BY <1>3, CommitRow, NoDetailAssumption DEF Exists, NoDetailAssumption
  <2>2. \A s \in Requests : req[s] # NotSent =>
           /\ r \notin req[s].done
           /\ \A x \in req[s].done \cap Requests : req'[x].pc = "committed"
    BY <1>3, CommitFrame DEF ReadInv
  <2>3. ASSUME NEW s \in Requests, req[s] # NotSent,
               EmailOf(detail'[req[s].account]) # EmailOf(req[s].seen)
        PROVE  writer'[req[s].account] \notin req[s].done
    <3>1. req[s].account \in Accounts
      BY <2>3 DEF TypeOK, Sent
    <3> QED
      BY <1>3, <2>2, <2>3, <3>1, CommitRow DEF ReadInv
  <2>4. \A f \in Founders : detail'[f] # NoDetail
    BY <2>1, StartAssumption DEF ReadInv, StartAssumption
  <2>5. \A s \in Requests : req[s] # NotSent => req[s].account \in Accounts /\ req[s].by \in Accounts
    BY DEF TypeOK, Sent
  <2>6. ASSUME NEW s \in Requests, req'[s] # NotSent
        PROVE  /\ \A x \in req'[s].done \cap Requests : req'[x].pc = "committed"
               /\ req'[s].kind = "create" => detail'[req'[s].by] # NoDetail
               /\ req'[s].kind \in {"signUp", "create"} => req'[s].email \in Emails
               /\ req'[s].kind \in {"verify", "update", "delete"} =>
                     detail'[req'[s].account] # NoDetail /\ req'[s].seen \in Details
               /\ req'[s].kind = "update" => req'[s].seen.live
               /\ EmailOf(detail'[req'[s].account]) # EmailOf(req'[s].seen) =>
                     writer'[req'[s].account] \notin req'[s].done
    <3>1. req[s] # NotSent
      BY <1>3, <2>6, CommitFrame
    <3>2. /\ req'[s].kind = req[s].kind /\ req'[s].account = req[s].account
          /\ req'[s].by = req[s].by /\ req'[s].email = req[s].email
          /\ req'[s].seen = req[s].seen /\ req'[s].done = req[s].done
      BY <1>3, <3>1, CommitFrame
    <3> QED
      BY <2>1, <2>2, <2>3, <2>5, <3>1, <3>2 DEF ReadInv
  <2> QED
    BY <2>4, <2>6 DEF ReadInv, EmailOf, Exists
<1> QED
  BY <1>1, <1>2, <1>3, StepCases

LEMMA CreateStep ==
    ASSUME TypeOK, OpenInv, ReadInv, CreateInv, TellerInv, Next
    PROVE  CreateInv'
<1>1. ASSUME NEW r \in Requests, NEW new \in Sent, Begins(r, new) PROVE CreateInv'
  <2>1. detail' = detail
    BY <1>1 DEF Begins, rows
  <2>2. \A s \in Requests : req[s] # NotSent /\ req[s].kind \in {"signUp", "create"}
                            /\ req[s].pc = "ready" => req[s].account # new.account
    BY <1>1 DEF Begins, Fresh, Live, CreateInv, Sent, Kinds
  <2> QED
    BY <1>1, <2>1, <2>2, BeginFrame DEF CreateInv, Begins, Fresh, Exists
<1>2. ASSUME NEW r \in Requests, NEW p, Moves(r, p), Tells(r, p) PROVE CreateInv'
  <2>1. detail' = detail
    BY <1>2 DEF Moves, rows
  <2>2. req[r].kind \in {"signUp", "create"} => req'[r].pc = "failed"
    BY <1>2, MoveFrame DEF Tells
  <2> QED
    BY <1>2, <2>1, <2>2, MoveFrame DEF CreateInv, Exists
<1>3. ASSUME NEW r \in Requests, Commit(r) PROVE CreateInv'
  <2>1. ASSUME NEW s \in Requests \ {r}, req[s] # NotSent,
               req[s].kind \in {"signUp", "create"}, req[s].pc = "ready"
        PROVE  detail'[req[s].account] = NoDetail
    <3>1. /\ req[s].account # req[r].account /\ detail[req[s].account] = NoDetail
          /\ req[s].account \in Accounts
      BY <1>3, <2>1, CommitFrame DEF CreateInv, Exists, TypeOK, Sent
    <3> QED
      BY <1>3, <3>1, CommitRow
  <2> QED
    BY <1>3, <2>1, CommitFrame DEF CreateInv, Exists
<1> QED
  BY <1>1, <1>2, <1>3, StepCases

LEMMA RowStep ==
    ASSUME TypeOK, OpenInv, ReadInv, CreateInv, RowInv, TellerInv, Next
    PROVE  RowInv'
<1>1. ASSUME NEW r \in Requests, NEW new \in Sent, Begins(r, new) PROVE RowInv'
  <2>1. UNCHANGED <<detail, gone, writer>>
    BY <1>1 DEF Begins, rows
  <2>2. \A a \in Accounts : writer[a] # r
    BY <1>1 DEF Begins, RowInv, NotSent
  <2>3. new.kind = "signUp" =>
           \A a \in Accounts : Exists(a) /\ a \notin gone => detail[a].email # new.email
    BY <1>1 DEF Begins, RowInv, LiveEmails, Live
  <2> QED
    BY <1>1, <2>1, <2>2, <2>3, BeginFrame DEF RowInv, Exists
<1>2. ASSUME NEW r \in Requests, NEW p, Moves(r, p) PROVE RowInv'
  <2>1. UNCHANGED <<detail, gone, writer>>
    BY <1>2 DEF Moves, rows
  <2>2. \A a \in Accounts : writer[a] # r
    BY <1>2 DEF Moves, RowInv
  <2> QED
    BY <1>2, <2>1, <2>2, MoveFrame DEF RowInv, Exists
<1>3. ASSUME NEW r \in Requests, Commit(r) PROVE RowInv'
  <2> DEFINE a == req[r].account
  <2>1. a \in Accounts /\ req[r] # NotSent /\ req[r].kind \in Kinds
    BY <1>3, CommitFrame DEF Sent
  <2>2. \A b \in Accounts : writer[b] # r
    BY <1>3, CommitFrame DEF RowInv
  <2>3. \A s \in Requests : req[s] # NotSent => r \notin req[s].done
    BY <1>3, CommitFrame DEF ReadInv
  <2>4. detail'[a] # NoDetail /\ (a \notin gone' => detail'[a].live)
    <3>1. detail'[a] \in Details
      BY <1>3, CommitRow
    <3>2. a \notin gone' => detail'[a].live
      BY <1>3, <2>1, CommitRow DEF RowInv, Kinds
    <3> QED
      BY <3>1, <3>2, NoDetailAssumption DEF NoDetailAssumption
  <2>5. CASE EmailOf(detail'[a]) # EmailOf(detail[a])
    <3>1. writer'[a] = r
      BY <1>3, <2>5, CommitRow
    <3>2. req[r].kind = "signUp" => detail'[a].email = req[r].email
      BY <1>3, CommitRow
    <3> QED
      BY <1>3, <2>1, <2>2, <2>3, <2>4, <3>1, <3>2, CommitFrame, CommitRow DEF RowInv, Exists
  <2>6. CASE EmailOf(detail'[a]) = EmailOf(detail[a])
    <3>1. writer'[a] = writer[a]
      BY <1>3, <2>6, CommitRow
    <3>2. detail'[a] \in Details /\ detail[a] \in Details
      BY <1>3, <2>1, <2>6, CommitRow, EmailFacts DEF TypeOK
    <3>3. Exists(a) /\ detail'[a].email = detail[a].email
      BY <2>6, <3>2, EmailFacts DEF Exists
    <3>4. a \in gone => a \in gone'
      BY <1>3, CommitRow
    <3> QED
      BY <1>3, <2>1, <2>2, <2>4, <3>1, <3>3, <3>4, CommitFrame, CommitRow DEF RowInv, Exists
  <2> QED
    BY <2>5, <2>6
<1> QED
  BY <1>1, <1>2, <1>3, StepCases

(* A login changes for one account at a time.                              *)
LEMMA TellFrame ==
    ASSUME TypeOK, NEW r \in Requests, NEW u \in Accounts, NEW e, SetLoginEmail(r, u, e)
    PROVE  /\ login'[u] = e /\ teller'[u] = r
           /\ \A b \in Accounts \ {u} : login'[b] = login[b] /\ teller'[b] = teller[b]
  BY DEF SetLoginEmail, TypeOK

LEMMA TellerStep ==
    ASSUME TypeOK, OpenInv, ReadInv, CreateInv, TellerInv, Next
    PROVE  TellerInv'
<1>1. ASSUME NEW r \in Requests, NEW new \in Sent, Begins(r, new) PROVE TellerInv'
  <2>1. UNCHANGED <<detail, login, teller>>
    BY <1>1 DEF Begins, rows, cognito
  <2>2. \A a \in Accounts : teller[a] # r
    BY <1>1 DEF Begins, TellerInv
  <2> QED
    BY <1>1, <2>1, <2>2, BeginFrame DEF TellerInv, Exists
<1>2. ASSUME NEW r \in Requests, NEW p, Moves(r, p), Tells(r, p) PROVE TellerInv'
  <2>1. detail' = detail /\ req[r] \in Sent /\ req[r] # NotSent
    BY <1>2, SentType DEF Moves, rows
  <2>2. req[r].by \in Accounts /\ req[r].account \in Accounts
    BY <2>1 DEF Sent
  <2>3. CASE UNCHANGED cognito
    BY <1>2, <2>1, <2>3, MoveFrame DEF TellerInv, Exists, cognito
  <2>4. ASSUME NEW u \in Accounts, NEW e, SetLoginEmail(r, u, e),
               Exists(u),
               e # NoLogin => /\ req[r].kind = "update" => e = req[r].email
                              /\ req[r].kind = "verify" =>
                                    req[r].account = u /\ e = req[r].seen.email
        PROVE  TellerInv'
    <3>1. /\ login'[u] = e /\ teller'[u] = r
          /\ \A b \in Accounts \ {u} : login'[b] = login[b] /\ teller'[b] = teller[b]
      BY <2>4, TellFrame
    <3> QED
      BY <1>2, <2>1, <2>4, <3>1, MoveFrame DEF TellerInv, Exists
  <2>5. CASE /\ req[r].kind = "update" /\ login[req[r].by] # NoLogin
             /\ SetLoginEmail(r, req[r].by, req[r].email)
    BY <2>2, <2>4, <2>5 DEF TellerInv
  <2>6. CASE /\ req[r].kind = "verify"
             /\ SetLoginEmail(r, req[r].account, req[r].seen.email)
    BY <2>1, <2>2, <2>4, <2>6 DEF ReadInv
  <2>7. CASE req[r].kind = "delete" /\ SetLoginEmail(r, req[r].account, NoLogin)
    BY <2>1, <2>2, <2>4, <2>7 DEF ReadInv
  <2> QED
    BY <1>2, <2>3, <2>5, <2>6, <2>7 DEF Tells
<1>3. ASSUME NEW r \in Requests, Commit(r) PROVE TellerInv'
  <2>1. \A b \in Accounts : Exists(b) => detail'[b] # NoDetail
    BY <1>3, CommitRow, NoDetailAssumption DEF Exists, NoDetailAssumption
  <2>2. UNCHANGED <<login, teller>>
    BY <1>3 DEF Commit, cognito
  <2> QED
    BY <1>3, <2>1, <2>2, CommitFrame DEF TellerInv, Exists
<1> QED
  BY <1>1, <1>2, <1>3, StepCases

(* An own change that was told is told by the same request until then.     *)
LEMMA ToldBefore ==
    ASSUME TypeOK, NEW r \in Requests, NEW p, Moves(r, p), Tells(r, p),
           NEW s \in Requests, IsTold(s)'
    PROVE  /\ req[s] # NotSent /\ IsOwn(s)
           /\ \/ IsTold(s)
              \/ s = r /\ p = "told" /\ SetLoginEmail(r, req[r].account, req[r].email)
<1>1. req[s] # NotSent /\ IsOwn(s)
  BY MoveFrame DEF IsTold, IsOwn
<1>2. CASE s # r
  BY <1>1, <1>2, MoveFrame DEF IsTold
<1>3. CASE s = r
  <2>1. p \in {"told", "ready"}
    BY <1>3, MoveFrame DEF IsTold
  <2>2. CASE p = "told"
    BY <1>1, <1>3, <2>2, MarkerAssumption DEF Tells, IsOwn
  <2>3. CASE p = "ready"
    BY <1>1, <1>3, <2>3 DEF Tells, IsOwn, IsTold
  <2> QED
    BY <2>1, <2>2, <2>3
<1> QED
  BY <1>1, <1>2, <1>3

LEMMA TellStep ==
    ASSUME TypeOK, OpenInv, ReadInv, CreateInv, TellerInv, TellInv, Next
    PROVE  TellInv'
<1>1. ASSUME NEW r \in Requests, NEW new \in Sent, Begins(r, new) PROVE TellInv'
  <2>1. UNCHANGED <<login, teller>>
    BY <1>1 DEF Begins, cognito
  <2>2. \A a \in Accounts : teller[a] # r
    BY <1>1 DEF Begins, TellerInv
  <2>3. ASSUME NEW s \in Requests, IsTold(s)'
        PROVE  s # r /\ IsTold(s)
    BY <1>1, <2>3, BeginFrame DEF IsTold, IsOwn, Begins, Sent, Kinds
  <2>4. \A s \in Requests : IsTold(s) => req[s].account \in Accounts
    BY DEF IsTold, TypeOK, Sent
  <2> QED
    BY <1>1, <2>1, <2>2, <2>3, <2>4, BeginFrame DEF TellInv
<1>2. ASSUME NEW r \in Requests, NEW p, Moves(r, p), Tells(r, p) PROVE TellInv'
  <2>1. req[r] \in Sent /\ req[r] # NotSent /\ req[r].by \in Accounts /\ req[r].account \in Accounts
    BY <1>2, SentType DEF Moves, Sent
  <2> SUFFICES ASSUME NEW s \in Requests, IsTold(s)'
               PROVE  LET a == req'[s].account
                          t == teller'[a]
                      IN  \/ t = s
                          \/ login'[a] = NoLogin
                          \/ t \in Requests /\ req'[t].kind = "update" /\ req'[t].account # a
                          \/ t \in Requests /\ req'[t].kind = "verify"
    BY DEF TellInv
  <2> DEFINE a == req[s].account
             t == teller[a]
  <2>2. req[s] # NotSent /\ IsOwn(s) /\ req'[s].account = a /\ a \in Accounts
    BY <1>2, ToldBefore, MoveFrame DEF TypeOK, Sent
  <2>3. CASE s = r /\ p = "told" /\ SetLoginEmail(r, req[r].account, req[r].email)
    BY <2>1, <2>2, <2>3, TellFrame
  <2>4. CASE IsTold(s)
    <3>1. \/ t = s
          \/ login[a] = NoLogin
          \/ t \in Requests /\ req[t].kind = "update" /\ req[t].account # a
          \/ t \in Requests /\ req[t].kind = "verify"
      BY <2>4 DEF TellInv
    <3>2. t \in Requests => req[t] # NotSent
      BY <2>2 DEF TellerInv
    <3>3. CASE login'[a] = login[a] /\ teller'[a] = t
      BY <1>2, <2>2, <3>1, <3>2, <3>3, MoveFrame
    <3>4. ASSUME NEW u \in Accounts, NEW e, SetLoginEmail(r, u, e),
                 \/ u # a \/ e = NoLogin \/ req[r].kind = "verify"
                 \/ req[r].kind = "update" /\ req[r].account # a
          PROVE  \/ login'[a] = login[a] /\ teller'[a] = t
                 \/ login'[a] = NoLogin
                 \/ teller'[a] = r /\ req'[r].kind = "verify"
                 \/ teller'[a] = r /\ req'[r].kind = "update" /\ req'[r].account # a
      BY <1>2, <2>1, <2>2, <3>4, TellFrame, MoveFrame
    <3>5. CASE UNCHANGED cognito
      BY <3>3, <3>5 DEF cognito
    <3>6. CASE req[r].kind = "update" /\ req[r].pc = "written" /\ p = "told"
               /\ SetLoginEmail(r, req[r].by, req[r].email)
      <4>1. s # r /\ lock[a] = s /\ lock[req[r].account] = r
        BY <2>1, <2>2, <2>4, <3>6 DEF IsTold, IsOwn, OpenInv
      <4>2. req[r].account # a
        BY <4>1
      <4> QED
        BY <2>1, <2>2, <3>3, <3>4, <3>6, <4>2
    <3>7. CASE req[r].kind = "verify"
               /\ SetLoginEmail(r, req[r].account, req[r].seen.email)
      BY <2>1, <2>2, <3>3, <3>4, <3>7
    <3>8. CASE SetLoginEmail(r, req[r].account, NoLogin)
      BY <2>1, <2>2, <3>3, <3>4, <3>8
    <3> QED
      BY <1>2, <3>5, <3>6, <3>7, <3>8 DEF Tells
  <2> QED
    BY <1>2, <2>3, <2>4, ToldBefore
<1>3. ASSUME NEW r \in Requests, Commit(r) PROVE TellInv'
  <2>1. UNCHANGED <<login, teller>>
    BY <1>3 DEF Commit, cognito
  <2>2. ASSUME NEW s \in Requests, IsTold(s)'
        PROVE  /\ IsTold(s) /\ req'[s].account = req[s].account
               /\ req[s].account \in Accounts
    BY <1>3, <2>2, CommitFrame DEF IsTold, IsOwn, TypeOK, Sent
  <2>3. \A b \in Accounts : teller[b] \in Requests => req[teller[b]] # NotSent
    BY DEF TellerInv
  <2> QED
    BY <1>3, <2>1, <2>2, <2>3, CommitFrame DEF TellInv
<1> QED
  BY <1>1, <1>2, <1>3, StepCases

(* An explanation lasts while its two requests stay what they are.         *)
LEMMA StillExplained ==
    ASSUME NEW b \in Accounts, DifferenceExplained(b),
           teller'[b] = teller[b], writer'[b] = writer[b],
           teller[b] \in Requests =>
              LET t == teller[b]
              IN  /\ req'[t].kind = req[t].kind /\ req'[t].account = req[t].account
                  /\ req'[t].done = req[t].done
                  /\ req[t].kind = "update" =>
                        \/ req'[t].account # b
                        \/ req'[t].pc = "committed" => req[t].pc = "committed",
           writer[b] \in Requests =>
              LET w == writer[b]
              IN  /\ req'[w].kind = req[w].kind /\ req'[w].by = req[w].by
                  /\ req'[w].email = req[w].email
    PROVE  DifferenceExplained(b)'
  BY DEF DifferenceExplained, IsUpdate

LEMMA ExplainedStep ==
    ASSUME TypeOK, OpenInv, ReadInv, CreateInv, RowInv, TellerInv, TellInv, ExplainedInv, Next
    PROVE  ExplainedInv'
<1>1. /\ \A b \in Accounts : teller[b] \in Requests => req[teller[b]] # NotSent
      /\ \A b \in Accounts : writer[b] \in Requests => req[writer[b]].pc = "committed"
      /\ \A b \in Accounts : writer[b] \in Requests => req[writer[b]] # NotSent
  BY DEF TellerInv, RowInv, NotSent
<1>2. ASSUME NEW r \in Requests, NEW new \in Sent, Begins(r, new) PROVE ExplainedInv'
  <2>1. UNCHANGED <<detail, writer, login, teller>>
    BY <1>2 DEF Begins, rows, cognito
  <2>2. \A b \in Accounts : teller[b] # r /\ writer[b] # r
    BY <1>1, <1>2 DEF Begins
  <2>3. \A b \in Accounts : DifferenceExplained(b) => DifferenceExplained(b)'
    BY <1>2, <2>1, <2>2, StillExplained, BeginFrame
  <2> QED
    BY <2>1, <2>3 DEF ExplainedInv, Exists
<1>3. ASSUME NEW r \in Requests, NEW p, Moves(r, p), Tells(r, p) PROVE ExplainedInv'
  <2>1. /\ UNCHANGED <<detail, writer>> /\ req[r] \in Sent /\ req[r] # NotSent
        /\ req[r].by \in Accounts /\ req[r].account \in Accounts
    BY <1>3, SentType DEF Moves, rows, Sent
  <2>2. ASSUME NEW b \in Accounts, DifferenceExplained(b), teller'[b] = teller[b]
        PROVE  DifferenceExplained(b)'
    BY <1>1, <1>3, <2>1, <2>2, StillExplained, MoveFrame
  <2>3. CASE UNCHANGED cognito
    BY <2>1, <2>2, <2>3 DEF ExplainedInv, Exists, cognito
  <2>4. ASSUME NEW u \in Accounts, NEW e, SetLoginEmail(r, u, e),
               e # NoLogin /\ e # detail[u].email /\ Exists(u) => DifferenceExplained(u)'
        PROVE  ExplainedInv'
    <3>1. /\ login'[u] = e
          /\ \A b \in Accounts \ {u} : login'[b] = login[b] /\ teller'[b] = teller[b]
      BY <2>4, TellFrame
    <3>2. \A b \in Accounts \ {u} : DifferenceExplained(b) => DifferenceExplained(b)'
      BY <2>2, <3>1
    <3> QED
      BY <2>1, <2>4, <3>1, <3>2 DEF ExplainedInv, Exists
  <2>5. CASE req[r].kind = "update" /\ p = "told" /\ SetLoginEmail(r, req[r].by, req[r].email)
    <3>1. teller'[req[r].by] = r
      BY <2>1, <2>5, TellFrame
    <3>2. req'[r].kind = "update" /\ req'[r].pc = "told"
      BY <1>3, <2>1, <2>5, MoveFrame
    <3>3. \A b \in Accounts : b = req[r].by => DifferenceExplained(b)'
      BY <3>1, <3>2 DEF DifferenceExplained, IsUpdate
    <3> QED
      BY <2>1, <2>4, <2>5, <3>3
  <2>6. CASE req[r].kind = "verify" /\ SetLoginEmail(r, req[r].account, req[r].seen.email)
    <3>1. teller'[req[r].account] = r /\ req'[r].kind = "verify" /\ req'[r].done = req[r].done
      BY <1>3, <2>1, <2>6, TellFrame, MoveFrame
    <3>2. req[r].seen \in Details /\ detail[req[r].account] \in Details
      BY <2>1, <2>6 DEF ReadInv, Exists, TypeOK
    <3>3. req[r].seen.email # detail[req[r].account].email =>
             writer[req[r].account] \notin req[r].done
      BY <2>1, <3>2, EmailFacts DEF ReadInv
    <3>4. ASSUME NEW b \in Accounts, b = req[r].account, req[r].seen.email # detail[b].email
          PROVE  DifferenceExplained(b)'
      BY <2>1, <3>1, <3>3, <3>4 DEF DifferenceExplained
    <3> QED
      BY <2>1, <2>4, <2>6, <3>4
  <2>7. CASE SetLoginEmail(r, req[r].account, NoLogin)
    BY <2>1, <2>4, <2>7
  <2> QED
    BY <1>3, <2>3, <2>5, <2>6, <2>7 DEF Tells
<1>4. ASSUME NEW r \in Requests, Commit(r) PROVE ExplainedInv'
  <2> DEFINE a == req[r].account
  <2>1. /\ UNCHANGED <<login, teller>>
        /\ a \in Accounts /\ req[r] # NotSent /\ req[r].kind \in Kinds /\ req[r].pc = "ready"
        /\ req[r].email \in Emails \cup {Unset, Empty}
    BY <1>4, CommitFrame DEF Commit, cognito, Sent
  <2>2. ASSUME NEW b \in Accounts, DifferenceExplained(b), writer'[b] = writer[b],
               teller[b] = r => req[r].kind # "update" \/ a # b
        PROVE  DifferenceExplained(b)'
    BY <1>1, <1>4, <2>1, <2>2, StillExplained, CommitFrame
  <2>3. ASSUME NEW b \in Accounts \ {a}, detail'[b] # NoDetail, login[b] # NoLogin,
               login[b] # detail'[b].email
        PROVE  DifferenceExplained(b)'
    <3>1. detail'[b] = detail[b] /\ writer'[b] = writer[b]
      BY <1>4, <2>3, CommitRow
    <3> QED
      BY <2>2, <2>3, <3>1 DEF ExplainedInv, Exists
  <2>4. ASSUME login[a] # NoLogin, login[a] # detail'[a].email
        PROVE  \A b \in Accounts : b = a => DifferenceExplained(b)'
    <3>1. Exists(a) /\ detail[a] \in Details /\ detail'[a] \in Details
      BY <1>4, <2>1, <2>4, CommitRow DEF TellerInv, Exists, TypeOK
    <3>2. req[r].kind \notin {"signUp", "create"}
      BY <1>4, <3>1, CommitRow
    <3>3. ASSUME detail'[a].email = detail[a].email,
                 teller[a] = r => req[r].kind # "update"
          PROVE  \A b \in Accounts : b = a => DifferenceExplained(b)'
      <4>1. writer'[a] = writer[a]
        BY <1>4, <3>1, <3>3, EmailFacts, CommitRow
      <4> QED
        BY <2>1, <2>2, <2>4, <3>1, <3>3, <4>1 DEF ExplainedInv
    <3>4. CASE req[r].kind \in {"verify", "delete"}
      BY <1>4, <3>3, <3>4, CommitRow
    <3>5. CASE req[r].kind = "update"
      <4>1. detail'[a].email = IF req[r].email = Unset THEN req[r].seen.email ELSE req[r].email
        BY <1>4, <3>5, CommitRow
      <4>2. teller[a] # r
        <5>1. teller[a] = r => login[a] = req[r].email /\ login[a] \in Emails
          BY <2>1, <2>4, <3>5 DEF TellerInv, TypeOK
        <5> QED
          BY <2>4, <4>1, <5>1, EmailFacts
      <4>3. CASE detail'[a].email = detail[a].email
        BY <3>3, <4>2, <4>3
      <4>4. CASE detail'[a].email # detail[a].email
        <5>1. writer'[a] = r
          BY <1>4, <3>1, <4>4, EmailFacts, CommitRow
        <5>2. /\ req'[r].kind = req[r].kind /\ req'[r].by = req[r].by
              /\ req'[r].email = req[r].email
          BY <1>4, <2>1, CommitFrame
        <5>3. CASE req[r].by # a \/ req[r].email \notin Emails
          BY <3>5, <5>1, <5>2, <5>3 DEF DifferenceExplained, IsUpdate
        <5>4. CASE req[r].by = a /\ req[r].email \in Emails
          <6>1. IsTold(r)
            BY <2>1, <3>5, <5>4 DEF IsTold, IsOwn
          <6>2. \/ teller[a] \in Requests /\ req[teller[a]].kind = "update"
                   /\ req[teller[a]].account # a
                \/ teller[a] \in Requests /\ req[teller[a]].kind = "verify"
            BY <2>4, <4>2, <6>1 DEF TellInv
          <6>3. req'[teller[a]] = req[teller[a]] /\ r \notin req[teller[a]].done
            BY <1>1, <1>4, <2>1, <4>2, <6>2, CommitFrame DEF ReadInv
          <6> QED
            BY <2>1, <5>1, <6>2, <6>3 DEF DifferenceExplained, IsUpdate
        <5> QED
          BY <5>3, <5>4
      <4> QED
        BY <4>3, <4>4
    <3> QED
      BY <2>1, <3>2, <3>4, <3>5 DEF Kinds
  <2> QED
    BY <2>1, <2>3, <2>4 DEF ExplainedInv, Exists
<1> QED
  BY <1>2, <1>3, <1>4, StepCases

LEMMA StutterInv ==
    ASSUME IInv, UNCHANGED vars
    PROVE  IInv'
<1>1. TypeOK' /\ OpenInv' /\ CreateInv' /\ TellInv'
  BY DEF IInv, vars, TypeOK, OpenInv, CreateInv, TellInv, IsTold, IsOwn, Exists
<1>2. ReadInv' /\ RowInv' /\ TellerInv'
  BY DEF IInv, vars, ReadInv, RowInv, TellerInv, EmailOf, Exists
<1>3. ExplainedInv'
  BY DEF IInv, vars, ExplainedInv, DifferenceExplained, IsUpdate, Exists
<1> QED
  BY <1>1, <1>2, <1>3 DEF IInv

LEMMA StepInv == IInv /\ [Next]_vars => IInv'
  BY StutterInv, TypeStep, OpenStep, ReadStep, CreateStep, RowStep, TellerStep, TellStep,
     ExplainedStep DEF IInv
-----------------------------------------------------------------------------
(* The strengthened invariant holds in every reachable state.              *)
THEOREM InductiveInvariant == Spec => []IInv
  BY InitInv, StepInv, PTL DEF Spec

(* The state always has its type.                                          *)
THEOREM TypeCorrect == Spec => []TypeOK
  BY InductiveInvariant, PTL DEF IInv

(* Whatever the accounts and requests, the two copies of a login e-mail    *)
(* differ for the listed reasons only: two changes of one's own e-mail     *)
(* cannot leave them apart (ContactDetailUpdateHandler).                   *)
THEOREM Explained == Spec => []LoginEmailExplained
<1>1. IInv => LoginEmailExplained
  BY DEF IInv, ExplainedInv, LoginEmailExplained, Live
<1> QED
  BY <1>1, InductiveInvariant, PTL

(* An e-mail that a sign-up stored a second time had been stored meanwhile, *)
(* or the other detail was deleted and brought back                        *)
(* (SubscriptionCreateHandler.validate).                                   *)
THEOREM Overlap == Spec => []SignUpsOverlap
<1>1. IInv => SignUpsOverlap
  <2> SUFFICES ASSUME IInv, NEW a \in Accounts, NEW b \in Accounts,
                      a # b, Live(a), Live(b), detail[a].email = detail[b].email,
                      writer[b] \in Requests, req[writer[b]].kind = "signUp",
                      writer[a] \in req[writer[b]].done, a \notin gone
               PROVE  FALSE
    BY DEF SignUpsOverlap
  <2>1. req[writer[b]] # NotSent /\ detail[b].email = req[writer[b]].email
    BY DEF IInv, RowInv, NotSent
  <2>2. Exists(a)
    BY DEF Live
  <2> QED
    BY <2>1, <2>2 DEF IInv, RowInv
<1> QED
  BY <1>1, InductiveInvariant, PTL

(* An update that gives no detail puts back an older e-mail only when the  *)
(* row was changed since it was read (ContactDetailEntity.update writes    *)
(* every column).                                                          *)
THEOREM OverlapReverts == Spec => OnlyOverlapReverts
<1>1. ASSUME IInv, Next, NEW r \in Requests,
             req[r].pc = "ready", req'[r].pc = "committed", req[r].kind = "update",
             req[r].email = Unset, detail'[req[r].account].email # detail[req[r].account].email
      PROVE  writer[req[r].account] \notin req[r].done
  <2>1. TypeOK /\ OpenInv /\ ReadInv /\ CreateInv /\ TellerInv
    BY <1>1 DEF IInv
  <2>2. Commit(r)
    <3>1. ASSUME NEW s \in Requests, NEW new \in Sent, Begins(s, new) PROVE FALSE
      <4>1. req'[s] = new /\ new.pc # "committed"
        BY <2>1, <3>1, BeginFrame DEF Begins, Sent, Kinds
      <4> QED
        BY <1>1, <2>1, <3>1, <4>1, BeginFrame
    <3>2. ASSUME NEW s \in Requests, NEW p, Moves(s, p) PROVE FALSE
      BY <1>1, <2>1, <3>2, MoveFrame
    <3>3. ASSUME NEW s \in Requests, Commit(s) PROVE s = r
      BY <1>1, <2>1, <3>3, CommitFrame
    <3> QED
      BY <1>1, <2>1, <3>1, <3>2, <3>3, StepCases
  <2>3. req[r] \in Sent /\ req[r] # NotSent /\ req[r].account \in Accounts
    BY <2>1, <2>2, CommitFrame DEF Sent
  <2>4. detail'[req[r].account].email = req[r].seen.email
    BY <1>1, <2>1, <2>2, CommitRow
  <2>5. detail[req[r].account] \in Details /\ req[r].seen \in Details
    BY <1>1, <2>1, <2>3 DEF ReadInv, Exists, TypeOK
  <2> QED
    BY <1>1, <2>1, <2>3, <2>4, <2>5, EmailFacts DEF ReadInv
<1>2. IInv /\ [Next]_vars =>
        [\A r \in Requests :
           LET a == req[r].account
           IN  req[r].pc = "ready" /\ req'[r].pc = "committed"
               /\ req[r].kind = "update" /\ req[r].email = Unset
               /\ detail'[a].email # detail[a].email
               => writer[a] \notin req[r].done]_vars
  BY <1>1
<1> QED
  BY <1>2, InductiveInvariant, PTL DEF Spec, OnlyOverlapReverts
-----------------------------------------------------------------------------
(* Deletions and what takes them back.  An update that knew of a deletion  *)
(* read a row that had been brought back before.                           *)
Revived(a) ==
    \E r \in Committed(a, "update") : ~(Committed(a, "delete") \subseteq req[r].done)

ReviveInv ==
    /\ \A a \in Accounts : a \in gone <=> Committed(a, "delete") # {}
    /\ \A a \in gone : Live(a) => Revived(a)
    /\ \A a \in Accounts, r \in Requests :
          req[r] # NotSent /\ req[r].kind = "update" /\ req[r].account = a =>
              \A d \in Committed(a, "delete") : d \in req[r].done => Revived(a)

(* Requests that have committed stay as they are, so what they explain     *)
(* stays explained.                                                        *)
LEMMA RevivedStays ==
    ASSUME \A s \in Requests : req[s] # NotSent /\ req[s].pc = "committed" => req'[s] = req[s],
           NEW a \in Accounts, Revived(a)
    PROVE  Revived(a)'
  BY SentType DEF Revived, Committed, At

LEMMA ReviveInit == Init => ReviveInv
  BY DEF Init, ReviveInv, Committed, At

LEMMA ReviveStep ==
    ASSUME IInv, ReviveInv, Next
    PROVE  ReviveInv'
<1>1. TypeOK /\ OpenInv /\ ReadInv /\ CreateInv /\ TellerInv
  BY DEF IInv
<1>2. ASSUME NEW r \in Requests, NEW new \in Sent, Begins(r, new) PROVE ReviveInv'
  <2>1. /\ req'[r] = new /\ new # NotSent /\ req[r] = NotSent
        /\ \A s \in Requests \ {r} : req'[s] = req[s]
        /\ new.done = Done /\ new.account \in Accounts
        /\ new.pc # "committed"
    BY <1>1, <1>2, BeginFrame DEF Begins, Sent, Kinds
  <2>2. \A a \in Accounts : \A kind : Committed(a, kind)' = Committed(a, kind)
    BY <2>1 DEF Committed, At
  <2>3. \A a \in Accounts : /\ Revived(a) => Revived(a)'
                            /\ Live(a)' <=> Live(a)
    BY <1>2, <2>1, RevivedStays DEF Begins, rows, Live, Exists
  <2>4. ASSUME new.kind = "update", NEW d \in Committed(new.account, "delete")
        PROVE  Revived(new.account)
    BY <1>2, <2>1, <2>4 DEF ReviveInv, Begins
  <2>5. gone' = gone
    BY <1>2 DEF Begins, rows
  <2>6. ASSUME NEW a \in Accounts, NEW s \in Requests,
               req'[s] # NotSent, req'[s].kind = "update", req'[s].account = a,
               NEW d \in Committed(a, "delete"), d \in req'[s].done
        PROVE  Revived(a)
    <3>1. CASE s = r
      BY <2>1, <2>4, <2>6, <3>1
    <3>2. CASE s # r
      BY <2>1, <2>6, <3>2 DEF ReviveInv
    <3> QED
      BY <3>1, <3>2
  <2>8. \A a \in Accounts : a \in gone' <=> Committed(a, "delete")' # {}
    BY <2>2, <2>5 DEF ReviveInv
  <2>9. \A a \in gone' : Live(a)' => Revived(a)'
    BY <1>1, <2>3, <2>5 DEF ReviveInv, TypeOK
  <2> QED
    BY <2>2, <2>3, <2>6, <2>8, <2>9 DEF ReviveInv
<1>3. ASSUME NEW r \in Requests, NEW p \in {"written", "told", "ready", "failed"}, Moves(r, p)
      PROVE  ReviveInv'
  <2>1. /\ \A s \in Requests : req'[s] # NotSent => req[s] # NotSent
        /\ \A s \in Requests : req[s] # NotSent =>
              /\ req'[s] # NotSent
              /\ req'[s].kind = req[s].kind /\ req'[s].account = req[s].account
              /\ req'[s].done = req[s].done
        /\ \A s \in Requests : req'[s].pc = "committed" <=> req[s].pc = "committed"
        /\ \A s \in Requests : req[s] # NotSent /\ req[s].pc = "committed" => req'[s] = req[s]
    BY <1>1, <1>3, MoveFrame DEF Moves
  <2>2. \A a \in Accounts : \A kind : Committed(a, kind)' = Committed(a, kind)
    BY <2>1 DEF Committed, At
  <2>3. \A a \in Accounts : /\ Revived(a) => Revived(a)'
                            /\ Live(a)' <=> Live(a)
    BY <1>3, <2>1, RevivedStays DEF Moves, rows, Live, Exists
  <2>4. gone' = gone
    BY <1>3 DEF Moves, rows
  <2>6. \A a \in Accounts : a \in gone' <=> Committed(a, "delete")' # {}
    BY <2>2, <2>4 DEF ReviveInv
  <2>7. \A a \in gone' : Live(a)' => Revived(a)'
    BY <1>1, <2>3, <2>4 DEF ReviveInv, TypeOK
  <2>8. ASSUME NEW a \in Accounts, NEW s \in Requests,
               req'[s] # NotSent, req'[s].kind = "update", req'[s].account = a,
               NEW d \in Committed(a, "delete")', d \in req'[s].done
        PROVE  Revived(a)
    BY <2>1, <2>2, <2>8 DEF ReviveInv
  <2> QED
    BY <2>3, <2>6, <2>7, <2>8 DEF ReviveInv
<1>4. ASSUME NEW r \in Requests, Commit(r) PROVE ReviveInv'
  <2> DEFINE a == req[r].account
  <2>1. /\ req[r] # NotSent /\ req[r].pc = "ready"
        /\ a \in Accounts /\ req[r].kind \in Kinds
        /\ \A s \in Requests \ {r} : req'[s] = req[s]
        /\ req'[r] # NotSent /\ req'[r].pc = "committed"
        /\ req'[r].kind = req[r].kind /\ req'[r].account = a /\ req'[r].done = req[r].done
    BY <1>1, <1>4, CommitFrame DEF Sent
  <2>2. /\ \A b \in Accounts \ {a} : detail'[b] = detail[b]
        /\ gone' = IF req[r].kind = "delete" THEN gone \cup {a} ELSE gone
        /\ req[r].kind = "verify" => detail'[a] = detail[a]
        /\ req[r].kind = "delete" => ~detail'[a].live
    <3>1. detail'[a] = DetailAfter(r)
      BY <1>1, <1>4, <2>1 DEF Commit, TypeOK
    <3>2. ASSUME req[r].kind = "delete" PROVE ~DetailAfter(r).live
      <4>1. detail[a] \in Details
        BY <1>1, <2>1, <3>2 DEF ReadInv, Exists, TypeOK
      <4>2. DetailAfter(r) = [detail[a] EXCEPT !.live = FALSE]
        BY <3>2 DEF DetailAfter
      <4> QED
        BY <4>1, <4>2 DEF Details
    <3> QED
      BY <1>1, <1>4, <3>1, <3>2, CommitRow DEF Commit
  <2>3. \A b \in Accounts : \A kind :
           Committed(b, kind)' = IF b = a /\ kind = req[r].kind
                                 THEN Committed(b, kind) \cup {r} ELSE Committed(b, kind)
    BY <2>1 DEF Committed, At
  <2>4. \A b \in Accounts : Revived(b) => Revived(b)'
    BY <2>1, RevivedStays
  <2>5. \A b \in Accounts : b \in gone' <=> Committed(b, "delete")' # {}
    BY <2>1, <2>2, <2>3 DEF ReviveInv
  <2>6. ASSUME NEW b \in Accounts, b # a, b \in gone', Live(b)' PROVE Revived(b)'
    <3>1. b \in gone /\ Live(b)
      BY <2>2, <2>6 DEF Live, Exists
    <3> QED
      BY <2>4, <3>1 DEF ReviveInv
  <2>7. ASSUME NEW b \in Accounts, b = a, b \in gone', Live(b)' PROVE Revived(b)'
    <3>1. req[r].kind # "delete" /\ b \in gone
      BY <2>2, <2>7 DEF Live
    <3>2. PICK d \in Requests : d \in Committed(b, "delete")
      BY <3>1 DEF ReviveInv, Committed
    <3>3. d # r /\ req[d] # NotSent /\ req[d].account = b
      BY <2>1, <3>2 DEF Committed, At
    <3>4. CASE req[r].kind \in {"signUp", "create"}
      BY <1>1, <2>1, <2>7, <3>3, <3>4 DEF CreateInv
    <3>5. CASE req[r].kind = "verify"
      BY <2>2, <2>4, <2>7, <3>1, <3>5 DEF ReviveInv, Live, Exists
    <3>6. CASE req[r].kind = "update" /\ d \in req[r].done
      BY <2>1, <2>4, <2>7, <3>2, <3>6 DEF ReviveInv
    <3>7. CASE req[r].kind = "update" /\ d \notin req[r].done
      <4>1. r \in Committed(b, "update")' /\ d \in Committed(b, "delete")'
        BY <2>1, <2>3, <2>7, <3>2, <3>7
      <4> QED
        BY <2>1, <3>7, <4>1 DEF Revived
    <3> QED
      BY <2>1, <3>1, <3>4, <3>5, <3>6, <3>7 DEF Kinds
  <2>8. ASSUME NEW b \in Accounts, NEW s \in Requests,
               req'[s] # NotSent, req'[s].kind = "update", req'[s].account = b,
               NEW d \in Committed(b, "delete")', d \in req'[s].done
        PROVE  Revived(b)
    <3>1. /\ req[s] # NotSent /\ req[s].kind = "update" /\ req[s].account = b
          /\ d \in req[s].done
      BY <2>1, <2>8
    <3>2. d \in Requests
      BY <2>8 DEF Committed
    <3>3. d # r
      BY <1>1, <2>1, <3>1, <3>2 DEF ReadInv
    <3>4. d \in Committed(b, "delete")
      BY <2>1, <2>3, <2>8, <3>3
    <3> QED
      BY <3>1, <3>4 DEF ReviveInv
  <2>9. gone' \subseteq Accounts
    BY <1>1, <2>1, <2>2 DEF TypeOK
  <2> QED
    BY <2>4, <2>5, <2>6, <2>7, <2>8, <2>9 DEF ReviveInv
<1> QED
  BY <1>1, <1>2, <1>3, <1>4, StepCases

(* What a deletion took along comes back only through an update that had   *)
(* read it before (the preserve of contact-detail.typeorm.repository.ts).  *)
THEOREM OverlapRevives == Spec => []OnlyOverlapRevives
<1>1. IInv /\ ReviveInv /\ [Next]_vars => ReviveInv'
  <2>1. ASSUME ReviveInv, UNCHANGED vars PROVE ReviveInv'
    BY <2>1 DEF ReviveInv, Revived, Committed, At, Live, Exists, vars
  <2> QED
    BY <2>1, ReviveStep
<1>2. ReviveInv => OnlyOverlapRevives
  BY DEF ReviveInv, OnlyOverlapRevives, Revived
<1> QED
  BY <1>1, <1>2, ReviveInit, InductiveInvariant, PTL DEF Spec
=============================================================================
