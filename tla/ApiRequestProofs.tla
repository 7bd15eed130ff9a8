--------------------------- MODULE ApiRequestProofs ---------------------------
(***************************************************************************)
(* Theorems about ApiRequest for any requests, any of the routes and any   *)
(* size of the connection pool; and, after them, about ServiceProcess, the *)
(* process that serves them.                                               *)
(*                                                                         *)
(* A request is Good when the steps it has left have a Plan: how deep its  *)
(* runs are nested after each of them.  The plan says that a run that ends *)
(* has begun, that writes happen in a run, and that the run that opened    *)
(* the transaction ends with the last step; only what reads alone may      *)
(* begin a run afterwards.  So nothing can fail after a COMMIT but the     *)
(* answer, unless nothing was written.                                     *)
(*                                                                         *)
(* The connections in use are a set of names (Held), and the queue holds   *)
(* requests that need one.  Every step asks for a connection, gets one, or *)
(* moves a request to a Good record with no new connection (StepKinds).    *)
(* Whoever holds one needs no other, so the pool is never stuck.           *)
(***************************************************************************)
EXTENDS ApiRequest, ServiceProcess, SequenceTheorems, FiniteSetTheorems, TLAPS

(* Records of requests, with a name for the set of every field.            *)
Stages == {"new", "onRequest", "validate", "handle", "answered"}
Tokens == {"none", "forged", "incomplete", "good"}
AnyInput == {"good", "invalid", "malformed"}
Contexts == {"none", "open", "released"}
Failures == {400, 401, 403, 404, 409, 422, 500}
Statuses == {0, 200} \cup Failures
Truths == BOOLEAN

(* Records, with the names of the sets of its fields.                      *)
LEMMA RecordFields ==
  Records = [stage : Stages, guarded : Truths, token : Tokens,
             input : AnyInput, user : Truths, todo : Seq(Steps),
             context : Contexts, runs : Seq(Runs), borrowed : Truths,
             done : Nat, committed : Nat, doubt : Truths, status : Statuses]
<1>1. Statuses = {0, 200, 400, 401, 403, 404, 409, 422, 500}
  BY DEF Statuses, Failures
<1> QED BY <1>1, Zenon
        DEF Records, Stages, Tokens, AnyInput, Contexts, Truths

(* The values the steps give to the fields.                                *)
LEMMA FieldValues ==
  /\ "new" \in Stages /\ "none" \in Contexts /\ 0 \in Statuses
  /\ "onRequest" \in Stages /\ "validate" \in Stages
  /\ "handle" \in Stages /\ "answered" \in Stages
  /\ "open" \in Contexts /\ "released" \in Contexts
  /\ TRUE \in Truths /\ FALSE \in Truths
  /\ 200 \in Statuses /\ 500 \in Statuses
  /\ \A code \in Failures : code \in Statuses /\ code # 200
  /\ <<>> \in Seq(Steps) /\ <<>> \in Seq(Runs)
<1>1. <<>> \in Seq(Steps) /\ <<>> \in Seq(Runs)
  BY EmptySeq
<1> QED BY <1>1 DEF Stages, Contexts, Truths, Statuses, Failures

(* Truths is BOOLEAN, which the SMT solver does not take for a field's set.*)
LEMMA RunSet == Runs = [opened : Truths, written : Nat]
BY DEF Runs, Truths

LEMMA RunFields ==
  ASSUME NEW run \in Runs
  PROVE  run.opened \in BOOLEAN /\ run.written \in Nat
<1>1. run.opened \in Truths /\ run.written \in Nat
  BY RunSet
<1> QED BY <1>1 DEF Truths

LEMMA NewRun ==
  ASSUME NEW opened \in Truths, NEW p,
         p = [opened |-> opened, written |-> 0]
  PROVE  p \in Runs /\ p.opened = opened /\ p.written = 0
BY RunSet

LEMMA RunWrites ==
  ASSUME NEW run \in Runs, NEW n \in Nat, NEW p,
         p = [run EXCEPT !.written = n]
  PROVE  p \in Runs /\ p.opened = run.opened /\ p.written = n
BY RunSet

(* Plans.  A function d from 0 .. Len(todo) is how deep the runs are       *)
(* nested after each of the steps that are left.                           *)
Depths(todo) == [0 .. Len(todo) -> 0 .. 2]

Nests(d, todo) ==
    /\ d[Len(todo)] = 0
    /\ \A i \in 1 .. Len(todo) :
          /\ todo[i] = "run" => d[i] = d[i - 1] + 1
          /\ todo[i] = "end" => d[i - 1] = d[i] + 1
          /\ todo[i] \notin {"run", "end"} => d[i] = d[i - 1]
          /\ todo[i] \in {"write", "mayWrite"} => d[i - 1] # 0

(* The transaction ends with the last step.                                *)
EndsOnce(d, todo) ==
    \A i \in 1 .. Len(todo) : todo[i] = "end" /\ d[i] = 0 => i = Len(todo)

Reading(todo) == \A i \in 1 .. Len(todo) : todo[i] \in {"run", "read", "end"}
OneRun(todo, first) ==
    \A i, j \in first .. Len(todo) : todo[i] = "run" /\ todo[j] = "run" => i = j
NoRun(todo) == \A i \in 1 .. Len(todo) : todo[i] # "run"

(* It reads in one transaction, and again after it.                        *)
Rereads(q) ==
    /\ q.done = 0 /\ Reading(q.todo)
    /\ q.context = "none" => /\ q.todo # <<>> /\ q.todo[1] = "run"
                             /\ OneRun(q.todo, 2)
    /\ q.context # "none" => OneRun(q.todo, 1)

Planned(q) ==
    \E d \in Depths(q.todo) : /\ Nests(d, q.todo) /\ d[0] = Len(q.runs)
                              /\ EndsOnce(d, q.todo) \/ Rereads(q)

(* Before, in and after the transaction of a request.                      *)
Before(q) == q.runs = <<>> /\ q.done = 0 /\ q.committed = 0

Written(q) == IF Len(q.runs) = 1 THEN q.runs[1].written
                                 ELSE q.runs[1].written + q.runs[2].written
Inside(q) == /\ q.stage = "handle" /\ q.committed = 0
             /\ q.runs # <<>> /\ q.runs[1].opened
             /\ \A i \in 2 .. Len(q.runs) : ~q.runs[i].opened
             /\ q.done = Written(q)

After(q) == /\ q.stage = "handle" /\ q.committed = q.done
            /\ \A i \in 1 .. Len(q.runs) : ~q.runs[i].opened
            /\ q.todo # <<>> => /\ q.done = 0 /\ Reading(q.todo)
                                /\ OneRun(q.todo, 1)
            /\ q.runs # <<>> => NoRun(q.todo)

Answer(q) == IF q.status = 200 THEN q.committed = q.done
             ELSE q.committed = 0 \/ (q.doubt /\ q.status = 500)

Good(q) ==
    /\ q \in Records
    /\ q.stage = "answered" => q.runs = <<>> /\ Answer(q)
    /\ q.stage # "answered" => /\ Planned(q)
                               /\ q.context = "none" => Before(q)
                               /\ q.context = "open" => Inside(q)
                               /\ q.context = "released" => After(q)

(* Who waits for a connection needs one, and stands in the queue once.     *)
QueueInv ==
    /\ waiting \in Seq(Requests)
    /\ \A i \in 1 .. Len(waiting) : NeedsConnection(waiting[i])
    /\ \A i, j \in 1 .. Len(waiting) : waiting[i] = waiting[j] => i = j

Held == UNION {Connections(r) : r \in Requests}
PoolInv == IsFiniteSet(Held) /\ Cardinality(Held) <= PoolSize

IInv == /\ request \in [Requests -> Records]
        /\ \A r \in Requests : Good(request[r])
        /\ QueueInv /\ PoolInv
-----------------------------------------------------------------------------

(* The plans of the routes.                                                *)
Route(steps) ==
    /\ steps \in Seq(Steps)
    /\ \E d \in Depths(steps) :
          /\ Nests(d, steps) /\ d[0] = 0
          /\ \/ EndsOnce(d, steps)
             \/ /\ Reading(steps) /\ steps # <<>> /\ steps[1] = "run"
                /\ OneRun(steps, 2)

(* Routes that start no handler: health, the lists, the sessions.          *)
LEMMA RouteWithoutRun ==
  ASSUME NEW steps \in Seq(Steps),
         \A i \in 1 .. Len(steps) :
            steps[i] \notin {"run", "end", "write", "mayWrite"}
  PROVE  Route(steps)
<1> DEFINE d == [i \in 0 .. Len(steps) |-> 0]
<1>1. d \in Depths(steps) /\ d[0] = 0
  BY DEF Depths
<1>2. Nests(d, steps) /\ EndsOnce(d, steps)
  BY DEF Nests, EndsOnce
<1> QED BY <1>1, <1>2 DEF Route

(* Routes of one handler without nested ones.                              *)
LEMMA RouteOfOneRun ==
  ASSUME NEW steps \in Seq(Steps), Len(steps) > 1,
         steps[1] = "run", steps[Len(steps)] = "end",
         \A i \in 2 .. Len(steps) - 1 : steps[i] \notin {"run", "end"}
  PROVE  Route(steps)
<1> DEFINE d == [i \in 0 .. Len(steps) |->
                    IF i = 0 \/ i = Len(steps) THEN 0 ELSE 1]
<1>1. d \in Depths(steps) /\ d[0] = 0
  BY DEF Depths
<1>2. Nests(d, steps)
  <2>1. d[Len(steps)] = 0
    OBVIOUS
  <2>2. ASSUME NEW i \in 1 .. Len(steps)
        PROVE  /\ steps[i] = "run" => d[i] = d[i - 1] + 1
               /\ steps[i] = "end" => d[i - 1] = d[i] + 1
               /\ steps[i] \notin {"run", "end"} => d[i] = d[i - 1]
               /\ steps[i] \in {"write", "mayWrite"} => d[i - 1] # 0
    <3>1. CASE i = 1
      BY <3>1
    <3>2. CASE i = Len(steps)
      BY <3>2
    <3>3. CASE i \in 2 .. Len(steps) - 1
      BY <3>3
    <3> QED BY <3>1, <3>2, <3>3
  <2> QED BY <2>1, <2>2 DEF Nests
<1>3. EndsOnce(d, steps)
  BY DEF EndsOnce
<1> QED BY <1>1, <1>2, <1>3 DEF Route

(* POST /accounts: the invitation is a nested run.                         *)
LEMMA RouteOfAccountCreate == Route(AccountCreate.steps)
<1> DEFINE steps == <<"run", "write", "run", "read", "mayWrite", "read",
                      "call", "end", "end">>
           d == [i \in 0 .. 9 |-> IF i \in {0, 9} THEN 0
                                  ELSE IF i \in {1, 2, 8} THEN 1 ELSE 2]
<1>1. steps \in Seq(Steps) /\ Len(steps) = 9
  BY DEF Steps
<1>2. d \in Depths(steps) /\ d[0] = 0
  BY <1>1 DEF Depths
<1>3. Nests(d, steps) /\ EndsOnce(d, steps)
  BY <1>1 DEF Nests, EndsOnce
<1>4. Route(steps)
  BY <1>1, <1>2, <1>3 DEF Route
<1> QED BY <1>4 DEF AccountCreate, Guarded

(* GET /accounts/me: two handlers share one transaction manager.           *)
LEMMA RouteOfAccountRetrieveMe == Route(AccountRetrieveMe.steps)
<1> DEFINE steps == <<"run", "read", "end", "run", "read", "end">>
           d == [i \in 0 .. 6 |-> IF i \in {0, 3, 6} THEN 0 ELSE 1]
<1>1. steps \in Seq(Steps) /\ Len(steps) = 6
  BY DEF Steps
<1>2. d \in Depths(steps) /\ d[0] = 0
  BY <1>1 DEF Depths
<1>3. Nests(d, steps)
  BY <1>1 DEF Nests
<1>4. Reading(steps) /\ steps # <<>> /\ steps[1] = "run" /\ OneRun(steps, 2)
  BY <1>1 DEF Reading, OneRun
<1>5. Route(steps)
  BY <1>1, <1>2, <1>3, <1>4 DEF Route
<1> QED BY <1>5 DEF AccountRetrieveMe, Guarded

Plain == Steps \ {"run", "end"}
Apart == {"read", "call", "mayCall"}

LEMMA ShortRoutes ==
  ASSUME NEW a \in Apart, NEW b \in Apart, NEW c \in Apart
  PROVE  Route(<<>>) /\ Route(<<a>>) /\ Route(<<a, b>>) /\ Route(<<a, b, c>>)
<1>1. /\ a \in Steps \ {"run", "end", "write", "mayWrite"}
      /\ b \in Steps \ {"run", "end", "write", "mayWrite"}
      /\ c \in Steps \ {"run", "end", "write", "mayWrite"}
  BY DEF Apart, Steps
<1>2. /\ <<>> \in Seq(Steps) /\ <<a>> \in Seq(Steps)
      /\ <<a, b>> \in Seq(Steps) /\ <<a, b, c>> \in Seq(Steps)
  BY <1>1
<1>3. ASSUME NEW s \in {<<>>, <<a>>, <<a, b>>, <<a, b, c>>}
      PROVE  Route(s)
  <2>1. \A i \in 1 .. Len(s) :
           s[i] \notin {"run", "end", "write", "mayWrite"}
    BY <1>1, <1>3
  <2> QED BY <1>2, <1>3, <2>1, RouteWithoutRun
<1> QED BY <1>3

LEMMA RunRoutes ==
  ASSUME NEW a \in Plain, NEW b \in Plain, NEW c \in Plain, NEW e \in Plain
  PROVE  /\ Route(<<"run", a, "end">>)
         /\ Route(<<"run", a, b, "end">>)
         /\ Route(<<"run", a, b, c, "end">>)
         /\ Route(<<"run", a, b, c, e, "end">>)
<1>1. /\ a \in Steps \ {"run", "end"} /\ b \in Steps \ {"run", "end"}
      /\ c \in Steps \ {"run", "end"} /\ e \in Steps \ {"run", "end"}
      /\ "run" \in Steps /\ "end" \in Steps
  BY DEF Plain, Steps
<1>2. /\ <<"run", a, "end">> \in Seq(Steps)
      /\ <<"run", a, b, "end">> \in Seq(Steps)
      /\ <<"run", a, b, c, "end">> \in Seq(Steps)
      /\ <<"run", a, b, c, e, "end">> \in Seq(Steps)
  BY <1>1
<1>3. Route(<<"run", a, "end">>)
  <2> DEFINE s == <<"run", a, "end">>
  <2>1. Len(s) = 3 /\ s[1] = "run" /\ s[2] = a /\ s[3] = "end"
    OBVIOUS
  <2>2. s \in Seq(Steps)
    BY <1>2
  <2> HIDE DEF s
  <2>3. /\ Len(s) > 1 /\ s[Len(s)] = "end"
        /\ \A i \in 2 .. Len(s) - 1 : s[i] \notin {"run", "end"}
    BY <1>1, <2>1
  <2>4. Route(s)
    BY <2>1, <2>2, <2>3, RouteOfOneRun
  <2> QED BY <2>4 DEF s
<1>4. Route(<<"run", a, b, "end">>)
  <2> DEFINE s == <<"run", a, b, "end">>
  <2>1. Len(s) = 4 /\ s[1] = "run" /\ s[2] = a /\ s[3] = b /\ s[4] = "end"
    OBVIOUS
  <2>2. s \in Seq(Steps)
    BY <1>2
  <2> HIDE DEF s
  <2>3. /\ Len(s) > 1 /\ s[Len(s)] = "end"
        /\ \A i \in 2 .. Len(s) - 1 : s[i] \notin {"run", "end"}
    BY <1>1, <2>1
  <2>4. Route(s)
    BY <2>1, <2>2, <2>3, RouteOfOneRun
  <2> QED BY <2>4 DEF s
<1>5. Route(<<"run", a, b, c, "end">>)
  <2> DEFINE s == <<"run", a, b, c, "end">>
  <2>1. /\ Len(s) = 5 /\ s[1] = "run" /\ s[2] = a /\ s[3] = b /\ s[4] = c
        /\ s[5] = "end"
    OBVIOUS
  <2>2. s \in Seq(Steps)
    BY <1>2
  <2> HIDE DEF s
  <2>3. /\ Len(s) > 1 /\ s[Len(s)] = "end"
        /\ \A i \in 2 .. Len(s) - 1 : s[i] \notin {"run", "end"}
    BY <1>1, <2>1
  <2>4. Route(s)
    BY <2>1, <2>2, <2>3, RouteOfOneRun
  <2> QED BY <2>4 DEF s
<1>6. Route(<<"run", a, b, c, e, "end">>)
  <2> DEFINE s == <<"run", a, b, c, e, "end">>
  <2>1. /\ Len(s) = 6 /\ s[1] = "run" /\ s[2] = a /\ s[3] = b /\ s[4] = c
        /\ s[5] = e /\ s[6] = "end"
    OBVIOUS
  <2>2. s \in Seq(Steps)
    BY <1>2
  <2> HIDE DEF s
  <2>3. /\ Len(s) > 1 /\ s[Len(s)] = "end"
        /\ \A i \in 2 .. Len(s) - 1 : s[i] \notin {"run", "end"}
    BY <1>1, <2>1
  <2>4. Route(s)
    BY <2>1, <2>2, <2>3, RouteOfOneRun
  <2> QED BY <2>4 DEF s
<1> QED BY <1>3, <1>4, <1>5, <1>6

(* The routes of the server, whichever of them are offered.                *)
LEMMA EveryRoute ==
  \A name \in DOMAIN Routes : /\ Route(Routes[name].steps)
                              /\ Routes[name].guarded \in BOOLEAN
<1> DEFINE R(route) == Route(route.steps) /\ route.guarded \in BOOLEAN
<1>0. Apart = {"read", "call", "mayCall"}
      /\ Plain = {"read", "write", "mayWrite", "call", "mayCall"}
  BY DEF Apart, Plain, Steps
<1>1. R(Health) /\ R(AuthenticationLogin) /\ R(AuthenticationLogout)
  BY <1>0, ShortRoutes
     DEF Health, AuthenticationLogin, AuthenticationLogout, Open
<1>2. /\ R(AuthenticationRefreshToken) /\ R(UserForgotPassword)
      /\ R(UserForgotPasswordConfirmation) /\ R(UserSetPassword)
      /\ R(AccountList)
  BY <1>0, ShortRoutes
     DEF AuthenticationRefreshToken, UserForgotPassword,
         UserForgotPasswordConfirmation, UserSetPassword, AccountList,
         Open, Guarded
<1>3. /\ R(SubscriptionCreate) /\ R(SubscriptionUpdate)
      /\ R(SubscriptionRetrieve)
  BY <1>0, RunRoutes
     DEF SubscriptionCreate, SubscriptionUpdate, SubscriptionRetrieve,
         Open, Guarded
<1>4. R(AccountVerify) /\ R(AccountDelete) /\ R(AccountRetrieve)
  BY <1>0, RunRoutes
     DEF AccountVerify, AccountDelete, AccountRetrieve, Open, Guarded
<1>5. R(AccountUpdateMe) /\ R(AccountSendInvitation)
  BY <1>0, RunRoutes DEF AccountUpdateMe, AccountSendInvitation, Guarded
<1>6. R(PersonUpdate) /\ R(PersonRetrieve) /\ R(PersonMeRetrieve)
  BY <1>0, RunRoutes
     DEF PersonUpdate, PersonRetrieve, PersonMeRetrieve, Guarded
<1>7. R(ContactDetailUpdate)
  BY <1>0, RunRoutes DEF ContactDetailUpdate, Guarded
<1>8. R(AccountCreate) /\ R(AccountRetrieveMe)
  BY RouteOfAccountCreate, RouteOfAccountRetrieveMe
     DEF AccountCreate, AccountRetrieveMe, Guarded
<1> HIDE DEF R
<1>9. \A name \in DOMAIN Routes : R(Routes[name])
  BY <1>1, <1>2, <1>3, <1>4, <1>5, <1>6, <1>7, <1>8 DEF Routes
<1> QED BY <1>9 DEF R
-----------------------------------------------------------------------------

(* What a plan says of the next step, and of those after it.               *)
LEMMA NextStep ==
  ASSUME NEW q \in Records, Planned(q)
  PROVE  /\ Len(q.runs) \in 0 .. 2
         /\ q.todo = <<>> => q.runs = <<>>
         /\ q.todo # <<>> =>
               /\ q.todo \in Seq(Steps) /\ Head(q.todo) = q.todo[1]
               /\ q.todo[1] = "run" => Len(q.runs) < 2
               /\ q.todo[1] = "end" => Len(q.runs) > 0
               /\ q.todo[1] \in {"write", "mayWrite"} => Len(q.runs) > 0
               /\ q.todo[1] = "end" /\ Len(q.runs) = 1
                     => Len(q.todo) = 1 \/ Rereads(q)
<1>1. q.todo \in Seq(Steps) /\ q.runs \in Seq(Runs)
  BY DEF Records
<1>2. PICK d \in Depths(q.todo) :
            /\ Nests(d, q.todo) /\ d[0] = Len(q.runs)
            /\ EndsOnce(d, q.todo) \/ Rereads(q)
  BY DEF Planned
<1>3. /\ Len(q.todo) \in Nat
      /\ \A i \in 0 .. Len(q.todo) : d[i] \in 0 .. 2
  BY <1>1, <1>2 DEF Depths
<1>4. Len(q.runs) \in 0 .. 2
  <2>1. 0 \in 0 .. Len(q.todo)
    BY <1>3
  <2> QED BY <1>2, <1>3, <2>1
<1>5. ASSUME q.todo = <<>>
      PROVE  q.runs = <<>>
  <2>1. Len(q.todo) = 0
    BY <1>5
  <2>2. Len(q.runs) = 0
    BY <1>2, <2>1 DEF Nests
  <2> QED BY <1>1, <2>2, EmptySeq
<1>6. ASSUME q.todo # <<>>
      PROVE  /\ Head(q.todo) = q.todo[1]
             /\ q.todo[1] = "run" => Len(q.runs) < 2
             /\ q.todo[1] = "end" => Len(q.runs) > 0
             /\ q.todo[1] \in {"write", "mayWrite"} => Len(q.runs) > 0
             /\ q.todo[1] = "end" /\ Len(q.runs) = 1
                   => Len(q.todo) = 1 \/ Rereads(q)
  <2>1. 1 \in 1 .. Len(q.todo) /\ d[1] \in 0 .. 2 /\ d[0] \in 0 .. 2
    BY <1>1, <1>3, <1>6, EmptySeq
  <2>2. /\ q.todo[1] = "run" => d[1] = d[0] + 1
        /\ q.todo[1] = "end" => d[0] = d[1] + 1
        /\ q.todo[1] \in {"write", "mayWrite"} => d[0] # 0
    BY <1>2, <2>1 DEF Nests
  <2>3. q.todo[1] = "end" /\ d[1] = 0 => Len(q.todo) = 1 \/ Rereads(q)
    BY <1>2, <2>1 DEF EndsOnce
  <2>4. Head(q.todo) = q.todo[1]
    BY <1>1, <1>6
  <2>5. /\ q.todo[1] = "run" => Len(q.runs) < 2
        /\ q.todo[1] = "end" => Len(q.runs) > 0
        /\ q.todo[1] \in {"write", "mayWrite"} => Len(q.runs) > 0
        /\ q.todo[1] = "end" /\ Len(q.runs) = 1 => d[1] = 0
    <3>1. d[0] = Len(q.runs) /\ d[0] \in {0, 1, 2} /\ d[1] \in {0, 1, 2}
      BY <1>2, <2>1
    <3>2. ASSUME q.todo[1] = "run"
          PROVE  Len(q.runs) < 2
      BY <2>2, <3>1, <3>2
    <3>3. ASSUME q.todo[1] = "end"
          PROVE  Len(q.runs) > 0 /\ (Len(q.runs) = 1 => d[1] = 0)
      <4>1. d[0] = d[1] + 1
        BY <2>2, <3>3
      <4>2. Len(q.runs) = d[1] + 1 /\ d[1] \in Nat
        BY <3>1, <4>1
      <4> QED BY <4>2
    <3>4. ASSUME q.todo[1] \in {"write", "mayWrite"}
          PROVE  Len(q.runs) > 0
      BY <2>2, <3>1, <3>4
    <3> QED BY <3>2, <3>3, <3>4
  <2> QED BY <2>3, <2>4, <2>5
<1> QED BY <1>1, <1>4, <1>5, <1>6

(* A plan of the steps that are left after the first.                      *)
LEMMA PlanOfRest ==
  ASSUME NEW todo \in Seq(Steps), todo # <<>>,
         NEW d \in Depths(todo), Nests(d, todo)
  PROVE  \E e \in Depths(Tail(todo)) :
            /\ Nests(e, Tail(todo)) /\ e[0] = d[1]
            /\ EndsOnce(d, todo) => EndsOnce(e, Tail(todo))
<1>1. /\ Len(todo) \in Nat \ {0} /\ Tail(todo) \in Seq(Steps)
      /\ Len(Tail(todo)) = Len(todo) - 1
      /\ \A i \in 1 .. Len(todo) - 1 : Tail(todo)[i] = todo[i + 1]
  BY EmptySeq
<1> DEFINE e == [i \in 0 .. Len(todo) - 1 |-> d[i + 1]]
<1>2. e \in Depths(Tail(todo))
  BY <1>1 DEF Depths
<1>3. \A i \in 0 .. Len(todo) - 1 : e[i] = d[i + 1]
  OBVIOUS
<1> HIDE DEF e
<1>4. Nests(e, Tail(todo))
  <2>1. e[Len(Tail(todo))] = 0
    BY <1>1, <1>3 DEF Nests
  <2>2. ASSUME NEW i \in 1 .. Len(todo) - 1
        PROVE  /\ Tail(todo)[i] = "run" => e[i] = e[i - 1] + 1
               /\ Tail(todo)[i] = "end" => e[i - 1] = e[i] + 1
               /\ Tail(todo)[i] \notin {"run", "end"} => e[i] = e[i - 1]
               /\ Tail(todo)[i] \in {"write", "mayWrite"} => e[i - 1] # 0
    <3>1. /\ i + 1 \in 1 .. Len(todo) /\ (i + 1) - 1 = i
          /\ e[i] = d[i + 1] /\ e[i - 1] = d[i]
          /\ Tail(todo)[i] = todo[i + 1]
      BY <1>1, <1>3
    <3> QED BY <3>1 DEF Nests
  <2> QED BY <1>1, <2>1, <2>2 DEF Nests
<1>5. ASSUME EndsOnce(d, todo)
      PROVE  EndsOnce(e, Tail(todo))
  <2> SUFFICES ASSUME NEW i \in 1 .. Len(todo) - 1,
                      Tail(todo)[i] = "end", e[i] = 0
               PROVE  i = Len(todo) - 1
    BY <1>1 DEF EndsOnce
  <2>1. i + 1 \in 1 .. Len(todo) /\ todo[i + 1] = "end" /\ d[i + 1] = 0
    BY <1>1, <1>3
  <2>2. i + 1 = Len(todo)
    BY <1>5, <2>1 DEF EndsOnce
  <2>3. i \in Int /\ Len(todo) \in Int
    BY <1>1
  <2> QED BY <2>2, <2>3
<1>6. e[0] = d[1]
  BY <1>1, <1>3
<1> QED BY <1>2, <1>4, <1>5, <1>6

(* What only reads goes on to only read, and starts no further run.        *)
LEMMA RestOfReading ==
  ASSUME NEW q \in Records, NEW p \in Records,
         q.todo # <<>>, p.todo = Tail(q.todo), Rereads(q),
         p.done = q.done, p.context = "none" => q.todo[1] # "run",
         p.context = "none" => q.context = "none"
  PROVE  Rereads(p)
<1>1. /\ q.todo \in Seq(Steps) /\ Len(q.todo) \in Nat \ {0}
      /\ Len(p.todo) = Len(q.todo) - 1
      /\ \A i \in 1 .. Len(q.todo) - 1 : p.todo[i] = q.todo[i + 1]
  BY EmptySeq DEF Records
<1>2. p.context # "none"
  BY DEF Rereads
<1>3. Reading(p.todo)
  <2> SUFFICES ASSUME NEW i \in 1 .. Len(p.todo)
               PROVE  p.todo[i] \in {"run", "read", "end"}
    BY DEF Reading
  <2>1. i + 1 \in 1 .. Len(q.todo) /\ p.todo[i] = q.todo[i + 1]
    BY <1>1
  <2> QED BY <2>1 DEF Rereads, Reading
<1>4. OneRun(q.todo, 2)
  BY <1>1 DEF Rereads, OneRun
<1>5. OneRun(p.todo, 1)
  <2> SUFFICES ASSUME NEW i \in 1 .. Len(p.todo), NEW j \in 1 .. Len(p.todo),
                      p.todo[i] = "run", p.todo[j] = "run"
               PROVE  i = j
    BY DEF OneRun
  <2>1. /\ i + 1 \in 2 .. Len(q.todo) /\ q.todo[i + 1] = "run"
        /\ j + 1 \in 2 .. Len(q.todo) /\ q.todo[j + 1] = "run"
    BY <1>1
  <2>2. i + 1 = j + 1
    BY <1>4, <2>1 DEF OneRun
  <2> QED BY <2>2
<1> QED BY <1>2, <1>3, <1>5 DEF Rereads

(* A step of the plan is done.                                             *)
LEMMA PlanGoesOn ==
  ASSUME NEW q \in Records, NEW p \in Records, Planned(q),
         q.todo # <<>>, p.todo = Tail(q.todo),
         p.done = q.done \/ q.todo[1] \in {"write", "mayWrite"},
         p.context = "none" => q.context = "none" /\ q.todo[1] # "run",
         q.todo[1] = "run" => Len(p.runs) = Len(q.runs) + 1,
         q.todo[1] = "end" => Len(p.runs) = Len(q.runs) - 1,
         q.todo[1] \notin {"run", "end"} => Len(p.runs) = Len(q.runs)
  PROVE  Planned(p)
<1>1. q.todo \in Seq(Steps) /\ Len(q.todo) \in Nat \ {0}
  BY EmptySeq DEF Records
<1>2. PICK d \in Depths(q.todo) :
            /\ Nests(d, q.todo) /\ d[0] = Len(q.runs)
            /\ EndsOnce(d, q.todo) \/ Rereads(q)
  BY DEF Planned
<1>3. PICK e \in Depths(p.todo) :
            /\ Nests(e, p.todo) /\ e[0] = d[1]
            /\ EndsOnce(d, q.todo) => EndsOnce(e, p.todo)
  BY <1>1, <1>2, PlanOfRest
<1>4. d[1] = Len(p.runs)
  <2>1. PICK n \in Nat \ {0} : n = Len(q.todo)
    BY <1>1
  <2>2. 1 \in 1 .. n /\ 0 \in 0 .. n /\ 1 \in 0 .. n
    BY <2>1
  <2>3. d[1] \in 0 .. 2 /\ d[0] \in 0 .. 2
    <3>1. d \in [0 .. n -> 0 .. 2]
      BY <1>2, <2>1 DEF Depths
    <3> QED BY <2>2, <3>1
  <2>4. /\ q.todo[1] = "run" => d[1] = d[1 - 1] + 1
        /\ q.todo[1] = "end" => d[1 - 1] = d[1] + 1
        /\ q.todo[1] \notin {"run", "end"} => d[1] = d[1 - 1]
    BY <1>2, <2>1, <2>2 DEF Nests
  <2> QED BY <1>2, <2>3, <2>4
<1>5. ASSUME Rereads(q)
      PROVE  Rereads(p)
  <2>1. q.todo[1] \notin {"write", "mayWrite"}
    BY <1>1, <1>5 DEF Rereads, Reading
  <2> QED BY <1>5, <2>1, RestOfReading
<1> QED BY <1>2, <1>3, <1>4, <1>5 DEF Planned
-----------------------------------------------------------------------------

(* Errors, and what a step makes of the record of its request.             *)
Errors == CommonErrors \cup CognitoErrors
          \cup {ThirdParty, UNAUTHENTICATED, INVALID_FORMAT,
                REQUEST_BODY_PARSE_ERROR}

(* p holds no connection that q did not hold.                              *)
Fewer(p, q) ==
    /\ p.borrowed => q.borrowed
    /\ \A i \in DOMAIN p.runs : p.runs[i].opened =>
          i \in DOMAIN q.runs /\ q.runs[i].opened

Moved(r) == \E p \in Records : /\ Good(p) /\ Fewer(p, request[r])
                               /\ Set(r, p)

(* The error handler never answers an error with 200.                      *)
LEMMA StatusOfError ==
  /\ ErrorHandler(ThirdParty) = 500 /\ ThirdParty \in Errors
  /\ \A error \in Errors :
        ErrorHandler(error) \in Failures
<1>1. ErrorHandler(ThirdParty) = 500
  BY DEF ErrorHandler, ThirdParty, ToInternal, Internal
<1>2. ASSUME NEW code \in {400, 401, 403, 404, 409, 422, 500}
      PROVE  ErrorHandler(Internal(code)) = code
  BY DEF ErrorHandler, Internal
<1>3. ASSUME NEW error \in Errors, error # ThirdParty
      PROVE  \E code \in {400, 401, 403, 404, 409, 422, 500} :
                error = Internal(code)
  BY <1>3 DEF Errors, CommonErrors, CognitoErrors, UNAUTHENTICATED,
     INVALID_FORMAT, REQUEST_BODY_PARSE_ERROR
<1> QED BY <1>1, <1>2, <1>3 DEF Errors, Failures

(* A plan depends on the steps, the runs and the writes only.              *)
LEMMA SamePlan ==
  ASSUME NEW q, NEW p, Planned(q), p.todo = q.todo, p.runs = q.runs,
         p.done = q.done, p.context = q.context
  PROVE  Planned(p)
<1>1. Rereads(q) => Rereads(p)
  BY DEF Rereads
<1> QED BY <1>1 DEF Planned

(* Nothing is committed as long as there is something to do.               *)
LEMMA NothingYet ==
  ASSUME NEW q, Good(q), q.stage # "answered",
         q.context = "released" => q.todo # <<>>
  PROVE  q.committed = 0
<1>1. q.context \in {"none", "open", "released"}
  BY DEF Good, Records
<1> QED BY <1>1 DEF Good, Before, Inside, After

(* An error before COMMIT: nothing is kept, every connection is released.  *)
LEMMA ErrorAnswered ==
  ASSUME NEW q, Good(q), NEW error \in Errors, q.committed = 0
  PROVE  /\ WithError(q, error) \in Records
         /\ Good(WithError(q, error)) /\ Fewer(WithError(q, error), q)
<1>1. q \in Records
  BY DEF Good
<1>2. ErrorHandler(error) \in Failures
  BY StatusOfError
<1>4. PICK p : p = WithError(q, error)
  OBVIOUS
<1>5. /\ p \in Records /\ p.stage = "answered" /\ p.runs = <<>>
      /\ ~p.borrowed /\ p.committed = 0 /\ p.status # 200
  <2>1. p \in Records
    <3>1. /\ "answered" \in Stages /\ ErrorHandler(error) \in Statuses
          /\ FALSE \in Truths /\ <<>> \in Seq(Steps) /\ <<>> \in Seq(Runs)
      BY <1>2, FieldValues
    <3> QED BY <1>1, <1>4, <3>1, RecordFields DEF WithError
  <2>2. /\ p.stage = "answered" /\ p.runs = <<>> /\ p.borrowed = FALSE
        /\ p.committed = q.committed /\ p.status = ErrorHandler(error)
    BY <1>1, <1>4, RecordFields DEF WithError
  <2> QED BY <1>2, <2>1, <2>2, FieldValues
<1>6. Good(p) /\ Fewer(p, q)
  BY <1>5 DEF Good, Answer, Fewer
<1> QED BY <1>4, <1>5, <1>6

(* An error after COMMIT was sent is answered with 500, and in doubt.      *)
LEMMA DoubtAnswered ==
  ASSUME NEW q \in Records, NEW p,
         p = [WithError(q, ThirdParty) EXCEPT !.doubt = TRUE]
  PROVE  p \in Records /\ Good(p) /\ \A any : Fewer(p, any)
<1>1. ErrorHandler(ThirdParty) = 500
  BY StatusOfError
<1>2. /\ p \in Records /\ p.stage = "answered" /\ p.runs = <<>>
      /\ ~p.borrowed /\ p.doubt /\ p.status = 500
  <2>1. p \in Records
    <3>1. /\ "answered" \in Stages /\ 500 \in Statuses
          /\ <<>> \in Seq(Steps) /\ <<>> \in Seq(Runs)
          /\ TRUE \in Truths /\ FALSE \in Truths
      BY FieldValues
    <3>2. ErrorHandler(ThirdParty) \in Statuses
      BY <1>1, <3>1
    <3> QED BY <3>1, <3>2, RecordFields DEF WithError
  <2>2. /\ p.stage = "answered" /\ p.runs = <<>> /\ p.borrowed = FALSE
        /\ p.doubt = TRUE /\ p.status = 500
    BY <1>1, RecordFields DEF WithError
  <2> QED BY <2>1, <2>2
<1> QED BY <1>2 DEF Good, Answer, Fewer

(* Whoever has something left to do may fail.                              *)
LEMMA Thrown ==
  ASSUME NEW r \in Requests, Good(request[r]),
         request[r].stage # "answered",
         request[r].context = "released" => request[r].todo # <<>>,
         NEW error \in Errors, Throw(r, error)
  PROVE  Moved(r)
<1>1. request[r].committed = 0
  BY NothingYet
<1> QED BY <1>1, ErrorAnswered DEF Throw, Moved

(* The record a request has before it is sent.                             *)
LEMMA NotSentTyped ==
  /\ NotSent \in Records /\ NotSent.context = "none"
  /\ NotSent.todo = <<>> /\ NotSent.runs = <<>> /\ NotSent.done = 0
  /\ NotSent.committed = 0 /\ ~NotSent.borrowed /\ NotSent.stage = "new"
<1>1. NotSent \in Records
  BY RecordFields, FieldValues DEF NotSent, Tokens, AnyInput
<1> QED BY <1>1 DEF NotSent

(* The handlers of a request before its controller.                        *)
LEMMA ArriveMoves ==
  ASSUME NEW r \in Requests, request \in [Requests -> Records],
         Good(request[r]), Arrive(r)
  PROVE  Moved(r)
<1>1. PICK name \in Offered,
           token \in {"none", "forged", "incomplete", "good"} :
           \E input \in Inputs(Routes[name].input) :
              Set(r, [NotSent EXCEPT !.stage = "onRequest",
                                     !.guarded = Routes[name].guarded,
                                     !.token = token, !.input = input,
                                     !.todo = Routes[name].steps])
  BY DEF Arrive
<1>10. PICK input \in Inputs(Routes[name].input) :
              Set(r, [NotSent EXCEPT !.stage = "onRequest",
                                     !.guarded = Routes[name].guarded,
                                     !.token = token, !.input = input,
                                     !.todo = Routes[name].steps])
  BY <1>1
<1>2. Route(Routes[name].steps) /\ Routes[name].guarded \in Truths
  BY OfferedAssumption, EveryRoute DEF Truths
<1>3. input \in AnyInput /\ token \in Tokens
  BY DEF Inputs, AnyInput, Tokens
<1>4. PICK steps \in Seq(Steps) : steps = Routes[name].steps
  BY <1>2 DEF Route
<1>5. PICK p : p = [NotSent EXCEPT !.stage = "onRequest",
                                   !.guarded = Routes[name].guarded,
                                   !.token = token, !.input = input,
                                   !.todo = steps]
  OBVIOUS
<1>6. /\ p \in Records /\ p.stage = "onRequest" /\ p.context = "none"
      /\ p.todo = steps /\ p.runs = <<>> /\ p.done = 0
      /\ p.committed = 0 /\ ~p.borrowed
  <2>1. p \in Records
    <3>1. "onRequest" \in Stages
      BY FieldValues
    <3> QED BY <1>2, <1>3, <1>5, <3>1, NotSentTyped, RecordFields
  <2>2. /\ p.stage = "onRequest" /\ p.context = NotSent.context
        /\ p.todo = steps /\ p.runs = NotSent.runs
        /\ p.done = NotSent.done /\ p.committed = NotSent.committed
        /\ p.borrowed = NotSent.borrowed
    BY <1>5, NotSentTyped, RecordFields
  <2> QED BY <2>1, <2>2, NotSentTyped
<1>7. Planned(p)
  BY <1>2, <1>4, <1>6, EmptySeq DEF Planned, Route, Rereads
<1>8. Good(p) /\ Fewer(p, request[r])
  BY <1>6, <1>7 DEF Good, Before, Fewer
<1> QED BY <1>10, <1>4, <1>5, <1>6, <1>8 DEF Moved

LEMMA HookGood ==
  ASSUME NEW q, Good(q), q.stage \in {"onRequest", "validate"},
         NEW p \in Records, p.stage \in {"validate", "handle"},
         p.todo = q.todo, p.runs = q.runs, p.done = q.done,
         p.committed = q.committed, p.context = q.context,
         p.borrowed = q.borrowed
  PROVE  Good(p) /\ Fewer(p, q)
<1>1. Planned(q) /\ q.context = "none" /\ Before(q)
  <2>1. q.context \in Contexts
    BY RecordFields DEF Good
  <2> QED BY <2>1 DEF Good, Contexts, Inside, After
<1>2. Planned(p)
  BY <1>1, SamePlan
<1> QED BY <1>1, <1>2 DEF Good, Before, Fewer

LEMMA CheckMoves ==
  ASSUME NEW r \in Requests, Good(request[r]), Check(r)
  PROVE  Moved(r)
<1> DEFINE q == request[r]
<1>1. q.stage = "onRequest" /\ q \in Records
  BY DEF Check, Good
<1>2. ASSUME NEW error \in Errors, Throw(r, error)
      PROVE  Moved(r)
  <2>1. q.context # "released"
    BY <1>1 DEF Good, After
  <2> QED BY <1>1, <1>2, <2>1, Thrown
<1>3. ASSUME NEW p, \/ p = [q EXCEPT !.stage = "validate"]
                    \/ p = PlaceUserOnRequest(q),
             Set(r, p)
      PROVE  Moved(r)
  <2>1. "validate" \in Stages /\ (q.token = "good") \in Truths
    BY FieldValues DEF Truths
  <2>2. p \in Records
    BY <1>1, <1>3, <2>1, RecordFields DEF PlaceUserOnRequest
  <2>3. /\ p.stage = "validate" /\ p.todo = q.todo /\ p.runs = q.runs
        /\ p.done = q.done /\ p.committed = q.committed
        /\ p.context = q.context /\ p.borrowed = q.borrowed
    BY <1>1, <1>3, RecordFields DEF PlaceUserOnRequest
  <2>4. Good(p) /\ Fewer(p, q)
    BY <1>1, <2>2, <2>3, HookGood
  <2> QED BY <1>3, <2>2, <2>4 DEF Moved
<1> QED BY <1>2, <1>3 DEF Check, Errors

LEMMA ValidateMoves ==
  ASSUME NEW r \in Requests, Good(request[r]), Validate(r)
  PROVE  Moved(r)
<1> DEFINE q == request[r]
<1>1. q.stage = "validate" /\ q \in Records
  BY DEF Validate, Good
<1>2. ASSUME NEW error \in Errors, Throw(r, error)
      PROVE  Moved(r)
  <2>1. q.context # "released"
    BY <1>1 DEF Good, After
  <2> QED BY <1>1, <1>2, <2>1, Thrown
<1>3. ASSUME NEW p, p = [q EXCEPT !.stage = "handle"], Set(r, p)
      PROVE  Moved(r)
  <2>1. "handle" \in Stages
    BY FieldValues
  <2>2. p \in Records
    BY <1>1, <1>3, <2>1, RecordFields
  <2>3. /\ p.stage = "handle" /\ p.todo = q.todo /\ p.runs = q.runs
        /\ p.done = q.done /\ p.committed = q.committed
        /\ p.context = q.context /\ p.borrowed = q.borrowed
    BY <1>1, <1>3, RecordFields
  <2>4. Good(p) /\ Fewer(p, q)
    BY <1>1, <2>2, <2>3, HookGood
  <2> QED BY <1>3, <2>2, <2>4 DEF Moved
<1> QED BY <1>2, <1>3 DEF Validate, Errors

-----------------------------------------------------------------------------
(* The steps after the first.                                              *)
LEMMA RestOfSteps ==
  ASSUME NEW todo \in Seq(Steps), todo # <<>>
  PROVE  /\ Tail(todo) \in Seq(Steps)
         /\ Reading(todo) => Reading(Tail(todo))
         /\ OneRun(todo, 1) => OneRun(Tail(todo), 1)
         /\ NoRun(todo) => NoRun(Tail(todo))
         /\ OneRun(todo, 1) /\ todo[1] = "run" => NoRun(Tail(todo))
<1>1. /\ Len(todo) \in Nat \ {0} /\ Tail(todo) \in Seq(Steps)
      /\ Len(Tail(todo)) = Len(todo) - 1
      /\ \A i \in 1 .. Len(todo) - 1 : /\ Tail(todo)[i] = todo[i + 1]
                                       /\ i + 1 \in 1 .. Len(todo)
      /\ 1 \in 1 .. Len(todo)
  BY EmptySeq
<1>2. Reading(todo) => Reading(Tail(todo))
  BY <1>1 DEF Reading
<1>3. NoRun(todo) => NoRun(Tail(todo))
  BY <1>1 DEF NoRun
<1>4. ASSUME OneRun(todo, 1)
      PROVE  OneRun(Tail(todo), 1)
  <2> SUFFICES ASSUME NEW i \in 1 .. Len(todo) - 1,
                      NEW j \in 1 .. Len(todo) - 1,
                      Tail(todo)[i] = "run", Tail(todo)[j] = "run"
               PROVE  i = j
    BY <1>1 DEF OneRun
  <2>1. /\ i + 1 \in 1 .. Len(todo) /\ todo[i + 1] = "run"
        /\ j + 1 \in 1 .. Len(todo) /\ todo[j + 1] = "run"
    BY <1>1
  <2>2. i + 1 = j + 1
    BY <1>4, <2>1 DEF OneRun
  <2> QED BY <2>2
<1>5. ASSUME OneRun(todo, 1), todo[1] = "run"
      PROVE  NoRun(Tail(todo))
  <2> SUFFICES ASSUME NEW i \in 1 .. Len(todo) - 1, Tail(todo)[i] = "run"
               PROVE  FALSE
    BY <1>1 DEF NoRun
  <2>1. i + 1 \in 1 .. Len(todo) /\ todo[i + 1] = "run"
    BY <1>1
  <2>2. i + 1 = 1
    BY <1>1, <1>5, <2>1 DEF OneRun
  <2> QED BY <2>2
<1> QED BY <1>1, <1>2, <1>3, <1>4, <1>5

(* What holds of a request whose next step is taken.                       *)
LEMMA AtStep ==
  ASSUME NEW r \in Requests, Good(request[r]), NEW S, IsAt(r, S)
  PROVE  /\ request[r] \in Records /\ request[r].stage = "handle"
         /\ request[r].todo # <<>> /\ request[r].todo \in Seq(Steps)
         /\ request[r].todo[1] \in S
         /\ request[r].runs \in Seq(Runs) /\ request[r].context \in Contexts
         /\ request[r].done \in Nat
         /\ Planned(request[r])
<1>1. request[r] \in Records /\ request[r].stage = "handle"
      /\ request[r].todo # <<>> /\ Head(request[r].todo) \in S
  BY DEF IsAt, Good
<1>2. /\ request[r].todo \in Seq(Steps) /\ request[r].runs \in Seq(Runs)
      /\ request[r].context \in Contexts /\ request[r].done \in Nat
  BY <1>1, RecordFields
<1>3. Head(request[r].todo) = request[r].todo[1]
  BY <1>1, <1>2
<1> QED BY <1>1, <1>2, <1>3 DEF Good

(* A step that is not the beginning or the end of a run and writes nothing.*)
LEMMA StepDone ==
  ASSUME NEW q \in Records, Good(q), q.stage = "handle", q.todo # <<>>,
         q.todo[1] \notin {"run", "end"},
         NEW p \in Records, p.stage = "handle", p.todo = Tail(q.todo),
         p.runs = q.runs, p.done = q.done, p.committed = q.committed,
         p.context = q.context, p.borrowed => q.borrowed
  PROVE  Good(p) /\ Fewer(p, q)
<1>1. Planned(p)
  BY PlanGoesOn DEF Good
<1>2. q.todo \in Seq(Steps)
  BY RecordFields
<1>3. ASSUME q.context = "none"
      PROVE  Before(p)
  BY <1>3 DEF Good, Before
<1>4. ASSUME q.context = "open"
      PROVE  Inside(p)
  BY <1>4 DEF Good, Inside, Written
<1>5. ASSUME q.context = "released"
      PROVE  After(p)
  <2>1. After(q)
    BY <1>5 DEF Good
  <2>2. p.todo # <<>> => p.done = 0 /\ Reading(p.todo) /\ OneRun(p.todo, 1)
    BY <1>2, <2>1, RestOfSteps DEF After
  <2>3. p.runs # <<>> => NoRun(p.todo)
    BY <1>2, <2>1, RestOfSteps DEF After
  <2> QED BY <2>1, <2>2, <2>3 DEF After
<1> QED BY <1>1, <1>3, <1>4, <1>5 DEF Good, Fewer

(* Reads and calls change nothing but the steps that are left.             *)
LEMMA TailDone ==
  ASSUME NEW r \in Requests, Good(request[r]),
         IsAt(r, {"read", "call", "mayCall", "mayWrite"}), NEW p,
         \/ p = [request[r] EXCEPT !.todo = Tail(@)]
         \/ p = [request[r] EXCEPT !.todo = Tail(@), !.borrowed = FALSE],
         Set(r, p)
  PROVE  Moved(r)
<1> DEFINE q == request[r]
<1>1. /\ q \in Records /\ q.stage = "handle" /\ q.todo # <<>>
      /\ q.todo \in Seq(Steps) /\ q.todo[1] \notin {"run", "end"}
  BY AtStep
<1>2. Tail(q.todo) \in Seq(Steps) /\ FALSE \in Truths
  BY <1>1, RestOfSteps, FieldValues
<1>3. p \in Records
  BY <1>1, <1>2, RecordFields
<1>4. /\ p.stage = "handle" /\ p.todo = Tail(q.todo) /\ p.runs = q.runs
      /\ p.done = q.done /\ p.committed = q.committed
      /\ p.context = q.context /\ (p.borrowed => q.borrowed)
  BY <1>1, RecordFields
<1>5. Good(p) /\ Fewer(p, q)
  BY <1>1, <1>3, <1>4, StepDone
<1> QED BY <1>3, <1>5 DEF Moved

(* A write counts for the innermost run.                                   *)
LEMMA WroteGood ==
  ASSUME NEW q \in Records, Good(q), q.stage = "handle", q.todo # <<>>,
         q.todo[1] \in {"write", "mayWrite"}, q.context # "released",
         NEW p, p = Wrote(q)
  PROVE  p \in Records /\ Good(p) /\ Fewer(p, q)
<1>1. /\ q.todo \in Seq(Steps) /\ q.runs \in Seq(Runs)
      /\ q.done \in Nat /\ q.context \in Contexts
  BY RecordFields
<1>2. Planned(q) /\ Len(q.runs) \in {1, 2}
  <2>1. Planned(q)
    BY DEF Good
  <2>2. Len(q.runs) \in 0 .. 2 /\ Len(q.runs) > 0
    BY <2>1, NextStep
  <2> QED BY <2>1, <2>2
<1>3. q.context = "open" /\ Inside(q)
  BY <1>1, <1>2 DEF Good, Before, Contexts
<1> DEFINE n == Len(q.runs)
           w == [q.runs EXCEPT ![n].written = @ + 1]
<1>4. /\ n \in {1, 2} /\ n \in 1 .. n
      /\ \A i \in 1 .. n : q.runs[i] \in Runs /\ q.runs[i].written \in Nat
  <2>1. \A i \in 1 .. n : q.runs[i] \in Runs
    BY <1>1, <1>2
  <2>2. n \in 1 .. n
    <3>1. n = 1 \/ n = 2
      BY <1>2
    <3>2. 1 \in 1 .. 1 /\ 2 \in 1 .. 2
      OBVIOUS
    <3> QED BY <3>1, <3>2
  <2> QED BY <1>2, <2>1, <2>2, RunFields
<1>5. PICK new \in Runs : /\ new = [q.runs[n] EXCEPT !.written = @ + 1]
                          /\ new.opened = q.runs[n].opened
                          /\ new.written = q.runs[n].written + 1
  <2>1. n \in 1 .. n /\ q.runs[n] \in Runs /\ q.runs[n].written + 1 \in Nat
    BY <1>4
  <2>2. PICK x : x = [q.runs[n] EXCEPT !.written = q.runs[n].written + 1]
    OBVIOUS
  <2>3. x \in Runs /\ x.opened = q.runs[n].opened
        /\ x.written = q.runs[n].written + 1
    BY <2>1, <2>2, RunWrites
  <2> QED BY <2>2, <2>3
<1>6. w = [q.runs EXCEPT ![n] = new]
  BY <1>5
<1>7. /\ w \in Seq(Runs) /\ Len(w) = n
      /\ \A i \in 1 .. n : w[i] = IF i = n THEN new ELSE q.runs[i]
  <2>1. n \in 1 .. Len(q.runs) /\ Len(q.runs) = n
    BY <1>4
  <2> QED BY <1>1, <1>6, <2>1, ExceptSeq
<1> HIDE DEF w
<1>8. Tail(q.todo) \in Seq(Steps) /\ q.done + 1 \in Nat
  BY <1>1, RestOfSteps
<1>9. p = [q EXCEPT !.done = q.done + 1, !.runs = w, !.todo = Tail(q.todo)]
  BY RecordFields DEF Wrote, w
<1>10. p \in Records
  BY <1>7, <1>8, <1>9, RecordFields
<1>11. /\ p.stage = "handle" /\ p.todo = Tail(q.todo) /\ p.runs = w
       /\ p.done = q.done + 1 /\ p.committed = q.committed
       /\ p.context = q.context /\ p.borrowed = q.borrowed
  BY <1>9, RecordFields
<1>12. Planned(p)
  BY <1>1, <1>2, <1>3, <1>7, <1>10, <1>11, PlanGoesOn
<1>13. Written(p) = Written(q) + 1
  <2>1. CASE n = 1
    <3>1. Len(p.runs) = 1 /\ p.runs[1].written = q.runs[1].written + 1
      <4>1. p.runs = w /\ Len(w) = 1 /\ w[1] = new
        BY <1>7, <1>11, <2>1
      <4> QED BY <1>5, <2>1, <4>1
    <3> QED BY <2>1, <3>1 DEF Written
  <2>2. CASE n = 2
    <3>1. /\ Len(p.runs) = 2 /\ p.runs[1] = q.runs[1]
          /\ p.runs[2].written = q.runs[2].written + 1
      <4>1. p.runs = w /\ Len(w) = 2 /\ w[1] = q.runs[1] /\ w[2] = new
        BY <1>7, <1>11, <2>2
      <4> QED BY <1>5, <2>2, <4>1
    <3>2. q.runs[1].written \in Nat /\ q.runs[2].written \in Nat
      BY <1>4, <2>2
    <3> QED BY <2>2, <3>1, <3>2 DEF Written
  <2> QED BY <1>4, <2>1, <2>2
<1>14. /\ w # <<>> /\ w[1].opened /\ \A i \in 2 .. n : ~w[i].opened
       /\ \A i \in 1 .. n : w[i].opened => q.runs[i].opened
  <2>1. \A i \in 1 .. n : w[i].opened = q.runs[i].opened
    BY <1>5, <1>7
  <2>2. 1 \in 1 .. n /\ \A i \in 2 .. n : i \in 1 .. n
    BY <1>4
  <2>3. w # <<>>
    BY <1>4, <1>7
  <2> QED BY <1>3, <2>1, <2>2, <2>3 DEF Inside
<1>15. Inside(p)
  BY <1>3, <1>7, <1>11, <1>13, <1>14 DEF Inside
<1>16. Good(p)
  BY <1>3, <1>10, <1>11, <1>12, <1>15 DEF Good
<1>17. Fewer(p, q)
  BY <1>1, <1>7, <1>11, <1>14 DEF Fewer
<1> QED BY <1>10, <1>16, <1>17

(* Statements and calls, with all the errors they may throw.               *)
LEMMA StatementMoves ==
  ASSUME NEW r \in Requests, Good(request[r]), Statement(r)
  PROVE  Moved(r)
<1> DEFINE q == request[r]
<1>1. /\ q \in Records /\ q.stage = "handle" /\ q.todo # <<>>
      /\ q.todo[1] \in Statements
  BY AtStep DEF Statement
<1>2. ASSUME NEW error \in Errors, Throw(r, error)
      PROVE  Moved(r)
  BY <1>1, <1>2, Thrown
<1>3. CASE IsAt(r, {"read"}) /\ Set(r, [q EXCEPT !.todo = Tail(@),
                                                !.borrowed = FALSE])
  <2>1. IsAt(r, {"read", "call", "mayCall", "mayWrite"})
    BY <1>3 DEF IsAt
  <2> QED BY <1>3, <2>1, TailDone
<1>4. CASE ~IsAt(r, {"read"}) /\ q.context # "released" /\ Set(r, Wrote(q))
  <2>1. q.todo[1] # "read"
    <3>1. Head(q.todo) = q.todo[1]
      BY <1>1, RecordFields
    <3> QED BY <1>1, <1>4, <3>1 DEF IsAt
  <2>2. q.todo[1] \in {"write", "mayWrite"}
    BY <1>1, <2>1 DEF Statements
  <2>3. PICK p : p = Wrote(q)
    OBVIOUS
  <2>4. p \in Records /\ Good(p) /\ Fewer(p, q)
    BY <1>1, <1>4, <2>2, <2>3, WroteGood
  <2> QED BY <1>4, <2>3, <2>4 DEF Moved
<1> QED BY <1>2, <1>3, <1>4 DEF Statement, Errors

LEMMA CallMoves ==
  ASSUME NEW r \in Requests, Good(request[r]), Call(r) \/ Skip(r)
  PROVE  Moved(r)
<1> DEFINE q == request[r]
<1>1. IsAt(r, {"read", "call", "mayCall", "mayWrite"})
  BY DEF Call, Skip, IsAt, Optional
<1>2. q.stage = "handle" /\ q.todo # <<>>
  BY <1>1, AtStep
<1>3. ASSUME NEW error \in Errors, Throw(r, error)
      PROVE  Moved(r)
  BY <1>2, <1>3, Thrown
<1>4. CASE Set(r, [q EXCEPT !.todo = Tail(@)])
  BY <1>1, <1>4, TailDone
<1> QED BY <1>3, <1>4 DEF Call, Skip, Errors

-----------------------------------------------------------------------------
(* The beginning of a run.                                                 *)
LEMMA PushView ==
  ASSUME NEW q \in Records, q.todo # <<>>, NEW opened \in Truths,
         NEW p, p = Push(q, opened)
  PROVE  /\ p \in Records /\ p.todo = Tail(q.todo) /\ p.stage = q.stage
         /\ p.done = q.done /\ p.committed = q.committed
         /\ p.context = q.context /\ p.borrowed = q.borrowed
         /\ p.runs \in Seq(Runs) /\ Len(p.runs) = Len(q.runs) + 1
         /\ \A i \in 1 .. Len(q.runs) : p.runs[i] = q.runs[i]
         /\ p.runs[Len(q.runs) + 1].opened = opened
         /\ p.runs[Len(q.runs) + 1].written = 0
<1>1. q.todo \in Seq(Steps) /\ q.runs \in Seq(Runs)
  BY RecordFields
<1>2. PICK new \in Runs : /\ new = [opened |-> opened, written |-> 0]
                          /\ new.opened = opened /\ new.written = 0
  <2>1. PICK x : x = [opened |-> opened, written |-> 0]
    OBVIOUS
  <2> QED BY <2>1, NewRun
<1>3. PICK runs \in Seq(Runs) : runs = Append(q.runs, new)
  <2>1. Append(q.runs, new) \in Seq(Runs)
    BY <1>1
  <2> QED BY <2>1
<1>4. /\ Len(runs) = Len(q.runs) + 1
      /\ \A i \in 1 .. Len(q.runs) : runs[i] = q.runs[i]
      /\ runs[Len(q.runs) + 1] = new
  BY <1>1, <1>3
<1>5. Tail(q.todo) \in Seq(Steps)
  BY <1>1, RestOfSteps
<1>6. p = [q EXCEPT !.runs = runs, !.todo = Tail(q.todo)]
  BY <1>2, <1>3, RecordFields DEF Push
<1>7. p \in Records
  BY <1>5, <1>6, RecordFields
<1>8. /\ p.todo = Tail(q.todo) /\ p.stage = q.stage
      /\ p.done = q.done /\ p.committed = q.committed
      /\ p.context = q.context /\ p.borrowed = q.borrowed
      /\ p.runs = runs
  BY <1>6, RecordFields
<1> QED BY <1>2, <1>4, <1>7, <1>8

(* A run that joins: the transaction of its manager stays as it is.        *)
LEMMA JoinMoves ==
  ASSUME NEW r \in Requests, Good(request[r]), Join(r)
  PROVE  Moved(r)
<1> DEFINE q == request[r]
           n == Len(request[r].runs)
<1>1. /\ q \in Records /\ q.stage = "handle" /\ q.todo # <<>>
      /\ q.todo \in Seq(Steps) /\ q.todo[1] = "run"
      /\ q.runs \in Seq(Runs) /\ q.context \in Contexts /\ q.context # "none"
      /\ Planned(q) /\ IsAt(r, {"run"})
  BY AtStep DEF Join, JoinsContext
<1>2. n \in {0, 1}
  <2>1. n \in 0 .. 2 /\ n < 2
    BY <1>1, NextStep
  <2> QED BY <2>1
<1>9. PICK closed \in Truths : closed = FALSE
  BY FieldValues
<1>3. PICK p : p = Push(q, closed)
  OBVIOUS
<1>4. /\ p \in Records /\ p.todo = Tail(q.todo) /\ p.stage = "handle"
      /\ p.done = q.done /\ p.committed = q.committed
      /\ p.context = q.context /\ p.borrowed = q.borrowed
      /\ p.runs \in Seq(Runs) /\ Len(p.runs) = n + 1
      /\ \A i \in 1 .. n : p.runs[i] = q.runs[i]
      /\ ~p.runs[n + 1].opened /\ p.runs[n + 1].written = 0
  <2>1. q \in Records /\ q.todo # <<>>
    BY <1>1
  <2>2. /\ p \in Records /\ p.todo = Tail(q.todo) /\ p.stage = q.stage
        /\ p.done = q.done /\ p.committed = q.committed
        /\ p.context = q.context /\ p.borrowed = q.borrowed
        /\ p.runs \in Seq(Runs) /\ Len(p.runs) = n + 1
        /\ \A i \in 1 .. n : p.runs[i] = q.runs[i]
        /\ p.runs[n + 1].opened = closed
        /\ p.runs[n + 1].written = 0
    BY <1>3, <2>1, PushView
  <2> QED BY <1>1, <1>9, <2>2
<1>5. Planned(p)
  BY <1>1, <1>4, PlanGoesOn
<1>6. Fewer(p, q)
  BY <1>1, <1>2, <1>4 DEF Fewer
<1>7. CASE q.context = "open"
  <2>1. Inside(q)
    BY <1>1, <1>7 DEF Good
  <2>2. n = 1
    BY <1>1, <1>2, <2>1 DEF Inside
  <2>3. p.runs # <<>> /\ p.runs[1].opened /\ ~p.runs[2].opened
    BY <1>4, <2>1, <2>2 DEF Inside
  <2>4. Written(p) = Written(q)
    <3>1. q.runs[1].written \in Nat
      BY <1>1, <2>2, RunFields
    <3> QED BY <1>4, <2>2, <3>1 DEF Written
  <2>5. Inside(p)
    BY <1>4, <2>1, <2>2, <2>3, <2>4 DEF Inside
  <2>6. Good(p)
    BY <1>4, <1>5, <1>7, <2>5 DEF Good
  <2> QED BY <1>3, <1>4, <1>6, <1>9, <2>6 DEF Join, Moved
<1>8. CASE q.context = "released"
  <2>1. After(q)
    BY <1>1, <1>8 DEF Good
  <2>2. /\ q.done = 0 /\ Reading(q.todo) /\ OneRun(q.todo, 1)
    BY <1>1, <2>1 DEF After
  <2>3. Reading(p.todo) /\ OneRun(p.todo, 1) /\ NoRun(p.todo)
    BY <1>1, <1>4, <2>2, RestOfSteps
  <2>4. \A i \in 1 .. n + 1 : ~p.runs[i].opened
    BY <1>2, <1>4, <2>1 DEF After
  <2>5. After(p)
    BY <1>4, <2>1, <2>2, <2>3, <2>4 DEF After
  <2>6. Good(p)
    BY <1>4, <1>5, <1>8, <2>5 DEF Good
  <2> QED BY <1>3, <1>4, <1>6, <1>9, <2>6 DEF Join, Moved
<1> QED BY <1>1, <1>7, <1>8 DEF Contexts

-----------------------------------------------------------------------------
(* The end of a run.                                                       *)
LEMMA FrontOfRuns ==
  ASSUME NEW runs \in Seq(Runs), NEW n \in Nat, Len(runs) = n + 1
  PROVE  /\ Front(runs) \in Seq(Runs) /\ Len(Front(runs)) = n
         /\ \A i \in 1 .. n : Front(runs)[i] = runs[i]
         /\ Last(runs) = runs[n + 1] /\ runs[n + 1] \in Runs
BY DEF Front, Last

(* The writes of a nested run become those of the run around it.           *)
LEMMA EndJoinedGood ==
  ASSUME NEW q \in Records, Good(q), q.stage = "handle", q.todo # <<>>,
         q.todo[1] = "end", ~Last(q.runs).opened,
         NEW p, p = EndJoined(q)
  PROVE  p \in Records /\ Good(p) /\ Fewer(p, q)
<1>1. /\ q.todo \in Seq(Steps) /\ q.runs \in Seq(Runs)
      /\ q.context \in Contexts
  BY RecordFields
<1>2. Planned(q)
  BY DEF Good
<1>3. PICK n \in {0, 1} : Len(q.runs) = n + 1
  <2>1. Len(q.runs) \in 0 .. 2 /\ Len(q.runs) > 0
    BY <1>2, NextStep
  <2>2. Len(q.runs) = 0 + 1 \/ Len(q.runs) = 1 + 1
    BY <2>1
  <2> QED BY <2>2
<1>4. /\ Front(q.runs) \in Seq(Runs) /\ Len(Front(q.runs)) = n
      /\ \A i \in 1 .. n : Front(q.runs)[i] = q.runs[i]
      /\ Last(q.runs) = q.runs[n + 1] /\ q.runs[n + 1] \in Runs
  <2>1. q.runs \in Seq(Runs)
    BY <1>1
  <2>2. n \in Nat /\ Len(q.runs) = n + 1
    BY <1>3
  <2> QED BY <2>1, <2>2, FrontOfRuns, Zenon
<1>5. Tail(q.todo) \in Seq(Steps)
  BY <1>1, RestOfSteps
<1>6. ~q.runs[n + 1].opened
  BY <1>4
<1>7. PICK left \in Seq(Runs) :
            /\ p = [q EXCEPT !.todo = Tail(q.todo), !.runs = left]
            /\ Len(left) = n
            /\ n = 1 => /\ left[1].opened = q.runs[1].opened
                        /\ left[1].written = q.runs[1].written
                                               + q.runs[2].written
  <2>1. CASE n = 0
    <3>1. p = [q EXCEPT !.todo = Tail(q.todo), !.runs = <<>>]
      BY <1>3, <2>1, RecordFields DEF EndJoined
    <3>2. <<>> \in Seq(Runs) /\ Len(<<>>) = n
      BY <2>1, EmptySeq
    <3>3. n # 1
      BY <2>1
    <3> QED BY <3>1, <3>2, <3>3, Zenon
  <2>2. CASE n = 1
    <3>1. q.runs[1] \in Runs /\ q.runs[2] \in Runs
      BY <1>1, <1>3, <2>2
    <3>2. q.runs[1].written + q.runs[2].written \in Nat
      BY <3>1, RunFields
    <3>3. PICK new : new = [q.runs[1] EXCEPT !.written =
                               q.runs[1].written + q.runs[2].written]
      OBVIOUS
    <3>4. /\ new \in Runs /\ new.opened = q.runs[1].opened
          /\ new.written = q.runs[1].written + q.runs[2].written
      BY <3>1, <3>2, <3>3, RunWrites
    <3>5. /\ Front(q.runs)[1] = q.runs[1] /\ Last(q.runs) = q.runs[2]
          /\ Len(Front(q.runs)) = 1 /\ Len(q.runs) - 1 = 1
      BY <1>3, <1>4, <2>2
    <3>6. PICK left : left = [Front(q.runs) EXCEPT ![1] = new]
      OBVIOUS
    <3>7. /\ left \in Seq(Runs) /\ Len(left) = 1 /\ left[1] = new
      BY <1>4, <3>4, <3>5, <3>6, ExceptSeq
    <3>8. left = [Front(q.runs) EXCEPT ![1].written =
                     @ + Last(q.runs).written]
      BY <3>3, <3>5, <3>6
    <3>9. p = [q EXCEPT !.todo = Tail(q.todo), !.runs = left]
      <4>1. p = [q EXCEPT !.todo = Tail(q.todo),
                   !.runs = IF Len(q.runs) - 1 = 0 THEN <<>>
                            ELSE [Front(q.runs) EXCEPT
                                    ![Len(q.runs) - 1].written =
                                       @ + Last(q.runs).written]]
        BY Zenon DEF EndJoined
      <4>2. (IF Len(q.runs) - 1 = 0 THEN <<>>
             ELSE [Front(q.runs) EXCEPT ![Len(q.runs) - 1].written =
                      @ + Last(q.runs).written]) = left
        <5>1. Len(q.runs) - 1 = 1 /\ 1 # 0
          BY <3>5
        <5> QED BY <3>8, <5>1, Zenon
      <4> QED BY <4>1, <4>2, Zenon
    <3> QED BY <2>2, <3>4, <3>7, <3>9
  <2> QED BY <2>1, <2>2
<1>8. p \in Records
  BY <1>5, <1>7, RecordFields
<1>9. /\ p.todo = Tail(q.todo) /\ p.stage = "handle" /\ p.runs = left
      /\ p.done = q.done /\ p.committed = q.committed
      /\ p.context = q.context /\ p.borrowed = q.borrowed
  BY <1>7, RecordFields
<1>10. Planned(p)
  <2>1. Len(p.runs) = Len(q.runs) - 1
    BY <1>3, <1>7, <1>9
  <2>2. q.context # "none"
    <3>1. q.runs # <<>>
      BY <1>3
    <3> QED BY <3>1 DEF Good, Before
  <2> QED BY <1>2, <1>8, <1>9, <2>1, <2>2, PlanGoesOn
<1>11. \A i \in 1 .. n : left[i].opened = q.runs[i].opened
  BY <1>3, <1>7
<1>12. Fewer(p, q)
  <2>1. DOMAIN p.runs = 1 .. n /\ DOMAIN q.runs = 1 .. n + 1
    BY <1>1, <1>3, <1>7, <1>9
  <2> QED BY <1>3, <1>9, <1>11, <2>1 DEF Fewer
<1>13. CASE q.context = "open"
  <2>1. Inside(q)
    BY <1>13 DEF Good
  <2>2. n = 1
    BY <1>3, <1>6, <2>1 DEF Inside
  <2>3. p.runs # <<>> /\ p.runs[1].opened
    <3>1. Len(left) = 1
      BY <1>7, <2>2
    <3>2. left # <<>>
      BY <3>1, EmptySeq
    <3>3. left[1].opened = q.runs[1].opened
      BY <1>11, <2>2
    <3>4. q.runs[1].opened
      BY <2>1 DEF Inside
    <3> QED BY <1>9, <3>2, <3>3, <3>4
  <2>4. Written(p) = Written(q)
    <3>1. Len(q.runs) = 2 /\ Len(p.runs) = 1
      BY <1>3, <1>7, <1>9, <2>2
    <3> QED BY <1>7, <1>9, <2>2, <3>1 DEF Written
  <2>5. \A i \in 2 .. Len(p.runs) : ~p.runs[i].opened
    <3>1. Len(p.runs) = 1
      BY <1>7, <1>9, <2>2
    <3> QED BY <3>1
  <2>6. Inside(p)
    BY <1>9, <2>1, <2>3, <2>4, <2>5 DEF Inside
  <2> QED BY <1>8, <1>9, <1>10, <1>12, <1>13, <2>6 DEF Good
<1>14. CASE q.context = "released"
  <2>1. After(q)
    BY <1>14 DEF Good
  <2>2. p.todo # <<>> => p.done = 0 /\ Reading(p.todo) /\ OneRun(p.todo, 1)
    BY <1>1, <1>9, <2>1, RestOfSteps DEF After
  <2>3. p.runs # <<>> => NoRun(p.todo)
    <3>1. q.runs # <<>>
      BY <1>3
    <3> QED BY <1>1, <1>9, <2>1, <3>1, RestOfSteps DEF After
  <2>4. \A i \in 1 .. n : ~left[i].opened
    BY <1>3, <1>11, <2>1 DEF After
  <2>5. After(p)
    BY <1>7, <1>9, <2>1, <2>2, <2>3, <2>4 DEF After
  <2> QED BY <1>8, <1>9, <1>10, <1>12, <1>14, <2>5 DEF Good
<1>15. q.context # "none"
  <2>1. q.runs # <<>>
    BY <1>3
  <2> QED BY <2>1 DEF Good, Before
<1> QED BY <1>1, <1>13, <1>14, <1>15 DEF Contexts

(* The outermost run commits whatever was written, and is the last.        *)
LEMMA CommittedGood ==
  ASSUME NEW q \in Records, Good(q), q.stage = "handle", q.todo # <<>>,
         q.todo[1] = "end", Last(q.runs).opened,
         NEW p, p = Committed(q)
  PROVE  p \in Records /\ Good(p) /\ Fewer(p, q)
<1>1. /\ q.todo \in Seq(Steps) /\ q.runs \in Seq(Runs)
      /\ q.context \in Contexts /\ q.committed \in Nat /\ q.done \in Nat
  BY RecordFields
<1>2. Planned(q)
  BY DEF Good
<1>3. PICK n \in {0, 1} : Len(q.runs) = n + 1
  <2>1. Len(q.runs) \in 0 .. 2 /\ Len(q.runs) > 0
    BY <1>2, NextStep
  <2>2. Len(q.runs) = 0 + 1 \/ Len(q.runs) = 1 + 1
    BY <2>1
  <2> QED BY <2>2
<1>4. /\ Front(q.runs) \in Seq(Runs) /\ Len(Front(q.runs)) = n
      /\ Last(q.runs) = q.runs[n + 1] /\ q.runs[n + 1] \in Runs
  BY <1>1, <1>3, FrontOfRuns
<1>5. q.runs[n + 1].opened /\ n + 1 \in 1 .. Len(q.runs) /\ q.runs # <<>>
  BY <1>3, <1>4
<1>6. q.context = "open" /\ Inside(q)
  <2>1. q.context # "none"
    BY <1>5 DEF Good, Before
  <2>2. q.context # "released"
    BY <1>5 DEF Good, After
  <2> QED BY <1>1, <2>1, <2>2 DEF Good, Contexts
<1>7. n = 0 /\ Len(q.runs) = 1
  BY <1>3, <1>5, <1>6 DEF Inside
<1>8. Front(q.runs) = <<>>
  BY <1>4, <1>7, EmptySeq
<1>9. q.committed + Last(q.runs).written = q.done /\ q.committed = 0
  BY <1>1, <1>4, <1>6, <1>7 DEF Inside, Written
<1>10. Tail(q.todo) \in Seq(Steps) /\ "released" \in Contexts
       /\ <<>> \in Seq(Runs)
  BY <1>1, RestOfSteps, FieldValues
<1>11. p = [q EXCEPT !.committed = q.done, !.runs = <<>>,
                     !.context = "released", !.todo = Tail(q.todo)]
  BY <1>8, <1>9, RecordFields DEF Committed
<1>12. p \in Records
  BY <1>1, <1>10, <1>11, RecordFields
<1>13. /\ p.todo = Tail(q.todo) /\ p.stage = "handle" /\ p.runs = <<>>
       /\ p.done = q.done /\ p.committed = q.done
       /\ p.context = "released" /\ p.borrowed = q.borrowed
  BY <1>11, RecordFields
<1>14. Planned(p)
  <2>1. Len(p.runs) = Len(q.runs) - 1
    BY <1>7, <1>13
  <2> QED BY <1>2, <1>12, <1>13, <2>1, PlanGoesOn
<1>15. p.todo # <<>> => p.done = 0 /\ Reading(p.todo) /\ OneRun(p.todo, 1)
  <2>1. Len(q.todo) = 1 \/ Rereads(q)
    BY <1>2, <1>7, NextStep
  <2>2. CASE Len(q.todo) = 1
    <3>1. Len(Tail(q.todo)) = 0
      BY <1>1, <2>2
    <3>2. Tail(q.todo) = <<>>
      BY <1>10, <3>1, EmptySeq
    <3> QED BY <1>13, <3>2
  <2>3. CASE Rereads(q)
    <3>1. q.done = 0 /\ Reading(q.todo) /\ OneRun(q.todo, 1)
      BY <1>6, <2>3 DEF Rereads
    <3> QED BY <1>1, <1>13, <3>1, RestOfSteps
  <2> QED BY <2>1, <2>2, <2>3
<1>16. Len(p.runs) = 0
  BY <1>13
<1>17. After(p)
  BY <1>13, <1>15, <1>16 DEF After
<1>18. Fewer(p, q)
  BY <1>13 DEF Fewer
<1> QED BY <1>12, <1>13, <1>14, <1>17, <1>18 DEF Good

(* COMMIT, refused, done, or done without an answer.                       *)
LEMMA EndMoves ==
  ASSUME NEW r \in Requests, Good(request[r]), End(r)
  PROVE  Moved(r)
<1> DEFINE q == request[r]
<1>1. /\ q \in Records /\ q.stage = "handle" /\ q.todo # <<>>
      /\ q.todo[1] = "end"
  BY AtStep DEF End
<1>2. CASE ~Last(q.runs).opened /\ Set(r, EndJoined(q))
  <2>1. PICK p : p = EndJoined(q)
    OBVIOUS
  <2>2. p \in Records /\ Good(p) /\ Fewer(p, q)
    BY <1>1, <1>2, <2>1, EndJoinedGood
  <2> QED BY <1>2, <2>1, <2>2 DEF Moved
<1>3. CASE Throw(r, ThirdParty)
  BY <1>1, <1>3, Thrown, StatusOfError
<1>4. ASSUME Last(q.runs).opened
      PROVE  Committed(q) \in Records /\ Good(Committed(q))
             /\ Fewer(Committed(q), q)
  <2>1. PICK p : p = Committed(q)
    OBVIOUS
  <2> QED BY <1>1, <1>4, <2>1, CommittedGood
<1>5. CASE Last(q.runs).opened /\ Set(r, Committed(q))
  BY <1>4, <1>5 DEF Moved
<1>6. CASE /\ Last(q.runs).opened
           /\ Set(r, [WithError(Committed(q), ThirdParty) EXCEPT
                         !.doubt = TRUE])
  <2>1. PICK p : p = [WithError(Committed(q), ThirdParty) EXCEPT
                         !.doubt = TRUE]
    OBVIOUS
  <2>2. PICK c \in Records : c = Committed(q)
    BY <1>4, <1>6
  <2>3. p \in Records /\ Good(p) /\ Fewer(p, q)
    BY <2>1, <2>2, DoubtAnswered
  <2> QED BY <1>6, <2>1, <2>3 DEF Moved
<1> QED BY <1>2, <1>3, <1>5, <1>6 DEF End

(* The answer 200, or an error while the result is mapped.                 *)
LEMMA RespondMoves ==
  ASSUME NEW r \in Requests, Good(request[r]), Respond(r)
  PROVE  Moved(r)
<1> DEFINE q == request[r]
<1>1. q \in Records /\ q.stage = "handle" /\ q.todo = <<>> /\ Planned(q)
  BY DEF Respond, Good
<1>2. q.runs = <<>>
  BY <1>1, NextStep
<1>3. q.committed = q.done
  <2>1. q.context \in Contexts
    BY <1>1, RecordFields
  <2> QED BY <1>1, <1>2, <2>1 DEF Good, Contexts, Before, Inside, After
<1>4. ASSUME NEW p, Set(r, p),
             p = [q EXCEPT !.stage = "answered", !.status = 200]
      PROVE  Moved(r)
  <2>1. "answered" \in Stages /\ 200 \in Statuses
    BY FieldValues
  <2>2. p \in Records
    BY <1>1, <1>4, <2>1, RecordFields
  <2>3. /\ p.stage = "answered" /\ p.runs = q.runs /\ p.status = 200
        /\ p.committed = q.committed /\ p.done = q.done
        /\ p.borrowed = q.borrowed
    BY <1>1, <1>4, RecordFields
  <2>4. Good(p) /\ Fewer(p, q)
    BY <1>2, <1>3, <2>2, <2>3 DEF Good, Answer, Fewer
  <2> QED BY <1>4, <2>2, <2>4 DEF Moved
<1>5. ASSUME NEW p, Set(r, p),
             p = [WithError(q, ThirdParty) EXCEPT !.doubt = TRUE]
      PROVE  Moved(r)
  BY <1>1, <1>5, DoubtAnswered DEF Moved
<1> QED BY <1>4, <1>5 DEF Respond

-----------------------------------------------------------------------------
(* Every step either takes a place in the queue, gets a connection, or     *)
(* moves a request that waits for none.                                    *)
LEMMA StepKinds ==
  ASSUME NEW r \in Requests, request \in [Requests -> Records],
         Good(request[r]), Arrive(r) \/ Step(r)
  PROVE  \/ Ask(r) \/ Connect(r)
         \/ Moved(r) /\ ~NeedsConnection(r) /\ UNCHANGED waiting
<1> DEFINE q == request[r]
<1>1. NeedsConnection(r) => /\ q.stage = "handle" /\ q.todo # <<>>
                            /\ Head(q.todo) \in {"run"} \cup Statements
                            /\ q.context = "none"
  BY DEF NeedsConnection, IsAt, JoinsContext
<1>2. CASE Arrive(r) \/ Check(r) \/ Validate(r)
  <2>1. q.stage # "handle" /\ UNCHANGED waiting
    BY <1>2 DEF Arrive, Check, Validate
  <2> QED BY <1>1, <1>2, <2>1, ArriveMoves, CheckMoves, ValidateMoves
<1>3. CASE Join(r)
  <2>1. q.context # "none" /\ UNCHANGED waiting
    BY <1>3 DEF Join, JoinsContext
  <2> QED BY <1>1, <1>3, <2>1, JoinMoves
<1>4. CASE Statement(r)
  BY <1>4, StatementMoves DEF Statement
<1>5. CASE Call(r)
  <2>1. Head(q.todo) \in {"call", "mayCall"} /\ UNCHANGED waiting
    BY <1>5 DEF Call, IsAt
  <2> QED BY <1>1, <1>5, <2>1, CallMoves DEF Statements
<1>6. CASE Skip(r)
  <2>1. /\ q \in Records /\ q.stage = "handle" /\ q.todo # <<>>
        /\ q.todo[1] \in {"mayWrite", "mayCall"} /\ Planned(q)
    BY <1>6, AtStep DEF Skip, Optional
  <2>2. Head(q.todo) = q.todo[1] /\ (q.todo[1] = "mayWrite" => Len(q.runs) > 0)
    BY <2>1, NextStep
  <2>3. q.context = "none" => Len(q.runs) = 0
    BY <2>1 DEF Good, Before
  <2>4. ~NeedsConnection(r)
    BY <1>1, <2>1, <2>2, <2>3 DEF Statements
  <2>5. UNCHANGED waiting
    BY <1>6 DEF Skip
  <2> QED BY <1>6, <2>4, <2>5, CallMoves
<1>7. CASE End(r)
  <2>1. Head(q.todo) = "end" /\ UNCHANGED waiting
    BY <1>7 DEF End, IsAt
  <2> QED BY <1>1, <1>7, <2>1, EndMoves DEF Statements
<1>8. CASE Respond(r)
  <2>1. q.todo = <<>> /\ UNCHANGED waiting
    BY <1>8 DEF Respond
  <2> QED BY <1>1, <1>8, <2>1, RespondMoves
<1> QED BY <1>2, <1>3, <1>4, <1>5, <1>6, <1>7, <1>8 DEF Step

(* With its connection a run is in its transaction.                        *)
LEMMA BeginView ==
  ASSUME NEW b \in Records,
         NEW p, p = [b EXCEPT !.context = "open"]
  PROVE  /\ p \in Records /\ p.todo = b.todo /\ p.stage = b.stage
         /\ p.context = "open" /\ p.done = b.done
         /\ p.committed = b.committed /\ p.borrowed = b.borrowed
         /\ p.runs = b.runs
<1>1. "open" \in Contexts
  BY FieldValues
<1> QED BY <1>1, RecordFields

LEMMA BeginGood ==
  ASSUME NEW q \in Records, Good(q), q.stage = "handle", q.todo # <<>>,
         q.todo[1] = "run", q.context = "none",
         NEW p \in Records, p.todo = Tail(q.todo), p.stage = "handle",
         p.context = "open", p.done = q.done, p.committed = q.committed,
         Len(p.runs) = 1, p.runs[1].opened, p.runs[1].written = 0
  PROVE  Good(p)
<1>1. Planned(q) /\ Before(q)
  BY DEF Good
<1>2. Len(q.runs) = 0
  BY <1>1 DEF Before
<1>3. Planned(p)
  <2>1. Len(p.runs) = Len(q.runs) + 1
    BY <1>2
  <2> QED BY <1>1, <2>1, PlanGoesOn
<1>4. Inside(p)
  <2>1. Written(p) = 0
    BY DEF Written
  <2>2. p.runs # <<>>
    <3>1. Len(<<>>) = 0
      OBVIOUS
    <3> QED BY <3>1
  <2>3. \A i \in 2 .. Len(p.runs) : ~p.runs[i].opened
    OBVIOUS
  <2>4. p.done = 0 /\ p.committed = 0
    BY <1>1 DEF Before
  <2> QED BY <2>1, <2>2, <2>3, <2>4 DEF Inside
<1> QED BY <1>3, <1>4 DEF Good

(* A query outside any transaction borrows a connection.                   *)
LEMMA BorrowGood ==
  ASSUME NEW q \in Records, Good(q), q.stage = "handle",
         NEW p, p = [q EXCEPT !.borrowed = TRUE]
  PROVE  p \in Records /\ Good(p) /\ p.runs = q.runs
<1>1. TRUE \in Truths
  BY FieldValues
<1>2. p \in Records
  BY <1>1, RecordFields
<1>3. /\ p.stage = q.stage /\ p.todo = q.todo /\ p.runs = q.runs
      /\ p.done = q.done /\ p.committed = q.committed
      /\ p.context = q.context
  BY RecordFields
<1>4. Planned(p)
  BY <1>3, SamePlan DEF Good
<1> QED BY <1>2, <1>3, <1>4 DEF Good, Before, Inside, After, Written

-----------------------------------------------------------------------------
(* Who gets a connection was first in the queue.                           *)
Connected(r) ==
    \E p \in Records :
       /\ Good(p) /\ Set(r, p) /\ NeedsConnection(r)
       /\ \/ Fewer(p, request[r])
          \/ /\ DOMAIN p.runs = {1} /\ request[r].runs = <<>>
             /\ p.borrowed = request[r].borrowed
          \/ /\ p.runs = request[r].runs

(* BEGIN.                                                                  *)
LEMMA BeginMoves ==
  ASSUME NEW r \in Requests, Good(request[r]), NeedsConnection(r),
         IsAt(r, {"run"}),
         Set(r, [Push(request[r], TRUE) EXCEPT !.context = "open"])
  PROVE  Connected(r)
<1> DEFINE q == request[r]
<1>1. /\ q \in Records /\ q.stage = "handle" /\ q.todo # <<>>
      /\ q.todo[1] = "run"
  BY AtStep
<1>2. q.context = "none"
  BY DEF NeedsConnection, IsAt, JoinsContext, Statements
<1>3. q.runs = <<>>
  BY <1>1, <1>2 DEF Good, Before
<1>17. PICK opened \in Truths : opened = TRUE
  BY FieldValues
<1>4. PICK b : b = Push(q, opened)
  OBVIOUS
<1>5. /\ b \in Records /\ b.todo = Tail(q.todo) /\ b.stage = q.stage
      /\ b.done = q.done /\ b.committed = q.committed
      /\ b.context = q.context /\ b.borrowed = q.borrowed
      /\ b.runs \in Seq(Runs) /\ Len(b.runs) = Len(q.runs) + 1
      /\ \A i \in 1 .. Len(q.runs) : b.runs[i] = q.runs[i]
      /\ b.runs[Len(q.runs) + 1].opened = opened
      /\ b.runs[Len(q.runs) + 1].written = 0
  <2>1. q \in Records /\ q.todo # <<>> /\ b = Push(q, opened)
    BY <1>1, <1>4
  <2> HIDE DEF q
  <2> QED BY <2>1, PushView
<1>6. PICK p : p = [b EXCEPT !.context = "open"]
  OBVIOUS
<1>7. /\ p \in Records /\ p.todo = b.todo /\ p.stage = b.stage
      /\ p.context = "open" /\ p.done = b.done
      /\ p.committed = b.committed /\ p.borrowed = b.borrowed
      /\ p.runs = b.runs
  BY <1>5, <1>6, BeginView
<1>8. Len(q.runs) = 0
  BY <1>3
<1>9. Len(q.runs) + 1 = 1
  BY <1>8
<1>10. Len(p.runs) = 1 /\ p.runs[1].opened = opened /\ p.runs[1].written = 0
  BY <1>5, <1>7, <1>9, Zenon
<1>11. p.runs[1].opened
  BY <1>10, <1>17
<1>12. /\ p.todo = Tail(q.todo) /\ p.stage = "handle" /\ p.done = q.done
       /\ p.committed = q.committed /\ p.borrowed = q.borrowed
  BY <1>1, <1>5, <1>7, Zenon
<1>13. Good(p)
  BY <1>1, <1>2, <1>7, <1>10, <1>11, <1>12, BeginGood
<1>14. DOMAIN p.runs = {1}
  <2>1. 1 .. 1 = {1}
    OBVIOUS
  <2>2. DOMAIN p.runs = 1 .. Len(p.runs)
    <3>1. b.runs \in Seq(Runs)
      BY <1>5
    <3>2. p.runs = b.runs
      BY <1>7
    <3> QED BY <3>1, <3>2
  <2>3. Len(p.runs) = 1
    BY <1>10
  <2> QED BY <2>1, <2>2, <2>3
<1>15. Set(r, p)
  BY <1>4, <1>6, <1>17
<1>16. p.borrowed = q.borrowed
  BY <1>12
<1> QED BY <1>3, <1>7, <1>13, <1>14, <1>15, <1>16, Zenon DEF Connected

(* The first in the queue starts its transaction, borrows, or fails.       *)
LEMMA ConnectMoves ==
  ASSUME NEW r \in Requests, request \in [Requests -> Records],
         Good(request[r]), QueueInv, Connect(r)
  PROVE  Connected(r)
<1> DEFINE q == request[r]
<1>1. NeedsConnection(r)
  <2>1. waiting # <<>> /\ r = Head(waiting)
    BY DEF Connect
  <2>2. 1 \in 1 .. Len(waiting) /\ r = waiting[1]
    BY <2>1, EmptySeq DEF QueueInv
  <2> QED BY <2>2 DEF QueueInv
<1>2. q \in Records /\ q.stage = "handle" /\ q.todo # <<>>
  BY <1>1 DEF NeedsConnection, IsAt
<1>3. CASE IsAt(r, {"run"})
           /\ Set(r, [Push(q, TRUE) EXCEPT !.context = "open"])
  BY <1>1, <1>3, BeginMoves
<1>4. CASE Set(r, [q EXCEPT !.borrowed = TRUE])
  <2>1. PICK p : p = [q EXCEPT !.borrowed = TRUE]
    OBVIOUS
  <2>2. p \in Records /\ Good(p) /\ p.runs = q.runs
    BY <1>2, <2>1, BorrowGood
  <2> QED BY <1>1, <1>4, <2>1, <2>2 DEF Connected
<1>5. CASE Throw(r, ThirdParty)
  <2>1. q.committed = 0 /\ ThirdParty \in Errors
    BY <1>2, NothingYet, StatusOfError
  <2>2. PICK p : p = WithError(q, ThirdParty)
    OBVIOUS
  <2>3. p \in Records /\ Good(p) /\ Fewer(p, q)
    BY <2>1, <2>2, ErrorAnswered
  <2> QED BY <1>1, <1>5, <2>2, <2>3 DEF Throw, Connected
<1> QED BY <1>3, <1>4, <1>5 DEF Connect

-----------------------------------------------------------------------------
(* The pool.                                                               *)
ConnectionsOf(r, q) ==
    {r} \X ({i \in DOMAIN q.runs : q.runs[i].opened}
            \cup IF q.borrowed THEN {0} ELSE {})

LEMMA ConnectionsOfRequest ==
  \A r \in Requests : Connections(r) = ConnectionsOf(r, request[r])
BY DEF Connections, ConnectionsOf, Opened

(* Only the connections of the request that moves change.                  *)
LEMMA HeldAfter ==
  ASSUME request \in [Requests -> Records],
         NEW r \in Requests, NEW p, Set(r, p), NEW X,
         ConnectionsOf(r, p) \subseteq ConnectionsOf(r, request[r]) \cup X
  PROVE  Held' \subseteq Held \cup X
<1>1. request' = [request EXCEPT ![r] = p]
  BY DEF Set
<1>2. ASSUME NEW s \in Requests
      PROVE  Connections(s)' \subseteq Connections(s) \cup X
  <2>1. Connections(s)' = ConnectionsOf(s, request'[s])
    BY DEF Connections, ConnectionsOf, Opened
  <2>2. CASE s = r
    <3>1. request'[s] = p
      BY <1>1, <2>2
    <3> QED BY <2>1, <2>2, <3>1, ConnectionsOfRequest, Zenon
  <2>3. CASE s # r
    <3>1. request'[s] = request[s]
      BY <1>1, <2>3
    <3> QED BY <2>1, <3>1, ConnectionsOfRequest
  <2> QED BY <2>2, <2>3
<1> QED BY <1>2 DEF Held

LEMMA FewerConnections ==
  ASSUME NEW r, NEW p, NEW q, Fewer(p, q)
  PROVE  ConnectionsOf(r, p) \subseteq ConnectionsOf(r, q)
BY DEF Fewer, ConnectionsOf

(* No more connections than before are within the pool.                    *)
LEMMA PoolSame ==
  ASSUME PoolInv, Held' \subseteq Held
  PROVE  PoolInv'
<1>1. IsFiniteSet(Held') /\ Cardinality(Held') <= Cardinality(Held)
  BY FS_Subset DEF PoolInv
<1>2. Cardinality(Held') \in Nat /\ Cardinality(Held) \in Nat
  BY <1>1, FS_CardinalityType DEF PoolInv
<1> QED BY <1>1, <1>2, PoolAssumption DEF PoolInv

(* One more fits while the pool has a free one.                            *)
LEMMA PoolOneMore ==
  ASSUME PoolInv, InUse < PoolSize, NEW x, Held' \subseteq Held \cup {x}
  PROVE  PoolInv'
<1>1. IsFiniteSet(Held) /\ Cardinality(Held) \in Nat
      /\ Cardinality(Held) < PoolSize
  BY FS_CardinalityType DEF PoolInv, InUse, Held
<1> DEFINE more == Held \cup {x}
<1>2. IsFiniteSet(more) /\ Cardinality(more) <= PoolSize
      /\ Cardinality(more) \in Nat
  <2>1. /\ IsFiniteSet(more)
        /\ Cardinality(more) = Cardinality(Held)
           \/ Cardinality(more) = Cardinality(Held) + 1
    BY <1>1, FS_AddElement
  <2> QED BY <1>1, <2>1, PoolAssumption
<1>3. IsFiniteSet(Held') /\ Cardinality(Held') <= Cardinality(more)
  BY <1>2, FS_Subset
<1>4. Cardinality(Held') \in Nat
  BY <1>3, FS_CardinalityType
<1> QED BY <1>2, <1>3, <1>4, PoolAssumption DEF PoolInv

LEMMA PoolMoved ==
  ASSUME request \in [Requests -> Records], PoolInv,
         NEW r \in Requests, Moved(r)
  PROVE  PoolInv'
<1>1. PICK p \in Records : Fewer(p, request[r]) /\ Set(r, p)
  BY DEF Moved
<1>2. Held' \subseteq Held \cup {}
  BY <1>1, FewerConnections, HeldAfter
<1> QED BY <1>2, PoolSame

LEMMA PoolConnected ==
  ASSUME request \in [Requests -> Records], PoolInv, InUse < PoolSize,
         NEW r \in Requests, Connected(r)
  PROVE  PoolInv'
<1> DEFINE q == request[r]
<1>1. PICK p \in Records :
            /\ Set(r, p)
            /\ \/ Fewer(p, q)
               \/ /\ DOMAIN p.runs = {1} /\ q.runs = <<>>
                  /\ p.borrowed = q.borrowed
               \/ p.runs = q.runs
  BY DEF Connected
<1>2. CASE Fewer(p, q)
  <2>1. ConnectionsOf(r, p) \subseteq ConnectionsOf(r, q) \cup {}
    BY <1>2, FewerConnections
  <2>2. Held' \subseteq Held
    BY <1>1, <2>1, HeldAfter
  <2> QED BY <2>2, PoolSame
<1>3. CASE DOMAIN p.runs = {1} /\ p.borrowed = q.borrowed
  <2>1. ConnectionsOf(r, p) \subseteq ConnectionsOf(r, q) \cup {<<r, 1>>}
    BY <1>3 DEF ConnectionsOf
  <2>2. Held' \subseteq Held \cup {<<r, 1>>}
    BY <1>1, <2>1, HeldAfter
  <2> QED BY <2>2, PoolOneMore
<1>4. CASE p.runs = q.runs
  <2>1. ConnectionsOf(r, p) \subseteq ConnectionsOf(r, q) \cup {<<r, 0>>}
    BY <1>4 DEF ConnectionsOf
  <2>2. Held' \subseteq Held \cup {<<r, 0>>}
    BY <1>1, <2>1, HeldAfter
  <2> QED BY <2>2, PoolOneMore
<1> QED BY <1>1, <1>2, <1>3, <1>4

-----------------------------------------------------------------------------
(* The queue.                                                              *)

LEMMA OthersNeed ==
  ASSUME request \in [Requests -> Records],
         NEW r \in Requests, NEW p, Set(r, p),
         NEW s \in Requests, s # r
  PROVE  NeedsConnection(s)' <=> NeedsConnection(s)
<1>1. request'[s] = request[s]
  BY DEF Set
<1> QED BY <1>1 DEF NeedsConnection, IsAt, JoinsContext

(* Who asks stands at the end, once.                                       *)
LEMMA QueueAsked ==
  ASSUME QueueInv, NEW r \in Requests, Ask(r)
  PROVE  QueueInv'
<1>1. /\ waiting \in Seq(Requests) /\ waiting' = Append(waiting, r)
      /\ request' = request /\ NeedsConnection(r)
  BY DEF Ask, QueueInv
<1>2. \A i \in 1 .. Len(waiting) : waiting[i] # r
  <2>1. DOMAIN waiting = 1 .. Len(waiting)
    BY <1>1
  <2> QED BY <2>1 DEF Ask, Range
<1>3. /\ waiting' \in Seq(Requests) /\ Len(waiting') = Len(waiting) + 1
      /\ \A i \in 1 .. Len(waiting) : waiting'[i] = waiting[i]
      /\ waiting'[Len(waiting) + 1] = r
  BY <1>1
<1>4. Len(waiting) \in Nat
  BY <1>1
<1>5. \A i \in 1 .. Len(waiting') :
         i \in 1 .. Len(waiting) \/ i = Len(waiting) + 1
  BY <1>3, <1>4
<1>6. \A s \in Requests : NeedsConnection(s)' <=> NeedsConnection(s)
  BY <1>1 DEF NeedsConnection, IsAt, JoinsContext
<1>7. ASSUME NEW i \in 1 .. Len(waiting')
      PROVE  NeedsConnection(waiting[i])'
  <2>1. PICK s \in Requests : s = waiting'[i] /\ NeedsConnection(s)
    BY <1>1, <1>3, <1>5 DEF QueueInv
  <2>2. NeedsConnection(s)'
    BY <1>6, <2>1
  <2> QED BY <2>1, <2>2
<1>8. \A i, j \in 1 .. Len(waiting') : waiting'[i] = waiting'[j] => i = j
  BY <1>2, <1>3, <1>5 DEF QueueInv
<1> QED BY <1>3, <1>7, <1>8 DEF QueueInv

(* Who waits for nothing disturbs nobody who waits.                        *)
LEMMA QueueMoved ==
  ASSUME request \in [Requests -> Records], QueueInv,
         NEW r \in Requests, NEW p, Set(r, p), ~NeedsConnection(r),
         UNCHANGED waiting
  PROVE  QueueInv'
<1>1. ASSUME NEW i \in 1 .. Len(waiting)
      PROVE  NeedsConnection(waiting[i])'
  <2>1. waiting[i] \in Requests /\ NeedsConnection(waiting[i])
    BY DEF QueueInv
  <2>2. PICK s \in Requests : s = waiting[i]
    BY <2>1
  <2>3. s # r
    BY <2>1, <2>2
  <2>4. NeedsConnection(s)'
    BY <2>1, <2>2, <2>3, OthersNeed
  <2> QED BY <2>2, <2>4
<1> QED BY <1>1 DEF QueueInv

(* Who gets a connection leaves the queue, and the others stay in it.      *)
LEMMA QueueConnected ==
  ASSUME request \in [Requests -> Records], QueueInv,
         NEW r \in Requests, NEW p, Set(r, p),
         waiting # <<>>, r = Head(waiting), waiting' = Tail(waiting)
  PROVE  QueueInv'
<1>1. /\ waiting \in Seq(Requests) /\ Len(waiting) \in Nat \ {0}
      /\ r = waiting[1]
  BY EmptySeq DEF QueueInv
<1>2. /\ waiting' \in Seq(Requests) /\ Len(waiting') = Len(waiting) - 1
      /\ \A i \in 1 .. Len(waiting') : waiting'[i] = waiting[i + 1]
  BY <1>1
<1>3. \A i \in 1 .. Len(waiting') :
         i + 1 \in 1 .. Len(waiting) /\ i + 1 # 1 /\ 1 \in 1 .. Len(waiting)
  BY <1>1, <1>2
<1>4. ASSUME NEW i \in 1 .. Len(waiting')
      PROVE  NeedsConnection(waiting[i])'
  <2>1. PICK s \in Requests : s = waiting'[i] /\ s = waiting[i + 1]
    BY <1>2
  <2>2. NeedsConnection(s) /\ s # r
    BY <1>1, <1>3, <2>1 DEF QueueInv
  <2>3. NeedsConnection(s)'
    BY <2>2, OthersNeed
  <2> QED BY <2>1, <2>3
<1>5. \A i, j \in 1 .. Len(waiting') : waiting'[i] = waiting'[j] => i = j
  <2>1. TAKE i, j \in 1 .. Len(waiting')
  <2>2. HAVE waiting'[i] = waiting'[j]
  <2>3. i + 1 = j + 1
    BY <1>2, <1>3, <2>2 DEF QueueInv
  <2> QED BY <2>3
<1> QED BY <1>2, <1>4, <1>5 DEF QueueInv
-----------------------------------------------------------------------------
(* Init and Next.                                                          *)

(* No request has been sent.                                               *)
LEMMA InitInv == Init => IInv
<1> SUFFICES ASSUME Init
             PROVE  IInv
  OBVIOUS
<1>1. /\ request \in [Requests -> Records] /\ waiting = <<>>
      /\ \A r \in Requests : request[r] = NotSent
  BY NotSentTyped DEF Init
<1>2. Good(NotSent)
  <2>1. Planned(NotSent)
    <3> DEFINE d == [i \in 0 .. 0 |-> 0]
    <3>1. d \in Depths(<<>>) /\ d[0] = 0 /\ Nests(d, <<>>) /\ EndsOnce(d, <<>>)
      BY DEF Depths, Nests, EndsOnce
    <3> QED BY <3>1, NotSentTyped DEF Planned
  <2> QED BY <2>1, NotSentTyped DEF Good, Before
<1>3. QueueInv
  BY <1>1, EmptySeq DEF QueueInv
<1>4. PoolInv
  <2>1. \A r \in Requests : Connections(r) = {}
    BY <1>1, NotSentTyped, ConnectionsOfRequest DEF ConnectionsOf
  <2>2. Held = {}
    BY <2>1 DEF Held
  <2> QED BY <2>2, FS_EmptySet, PoolAssumption DEF PoolInv
<1> QED BY <1>1, <1>2, <1>3, <1>4 DEF IInv

(* Whatever a request does, the others and the pool stay as they should.   *)
LEMMA StepInv == IInv /\ [Next]_vars => IInv'
<1> SUFFICES ASSUME IInv, [Next]_vars
             PROVE  IInv'
  OBVIOUS
<1> USE DEF IInv
<1>1. ASSUME NEW r \in Requests, NEW p \in Records, Good(p), Set(r, p)
      PROVE  /\ request' \in [Requests -> Records]
             /\ \A s \in Requests : Good(request'[s])
  BY <1>1 DEF Set
<1>2. CASE UNCHANGED vars
  <2>1. request' = request /\ waiting' = waiting
    BY <1>2 DEF vars
  <2>2. QueueInv'
    BY <2>1 DEF QueueInv, NeedsConnection, IsAt, JoinsContext
  <2>3. Held' = Held
    BY <2>1 DEF Held, Connections, Opened
  <2>4. PoolInv'
    BY <2>3 DEF PoolInv
  <2> QED BY <2>1, <2>2, <2>4
<1>3. ASSUME NEW r \in Requests, Ask(r)
      PROVE  IInv'
  <2>1. request' = request /\ QueueInv'
    BY <1>3, QueueAsked DEF Ask
  <2>2. Held' = Held
    BY <2>1 DEF Held, Connections, Opened
  <2>3. PoolInv'
    BY <2>2 DEF PoolInv
  <2> QED BY <2>1, <2>3
<1>4. ASSUME NEW r \in Requests, Connect(r)
      PROVE  IInv'
  <2>1. Connected(r)
    BY <1>4, ConnectMoves
  <2>2. PICK p \in Records : Good(p) /\ Set(r, p)
    BY <2>1 DEF Connected
  <2>3. waiting # <<>> /\ r = Head(waiting) /\ waiting' = Tail(waiting)
        /\ InUse < PoolSize
    BY <1>4 DEF Connect
  <2>4. QueueInv'
    BY <2>2, <2>3, QueueConnected
  <2>5. PoolInv'
    BY <2>1, <2>3, PoolConnected
  <2> QED BY <1>1, <2>2, <2>4, <2>5
<1>5. ASSUME NEW r \in Requests, Moved(r), ~NeedsConnection(r),
             UNCHANGED waiting
      PROVE  IInv'
  <2>1. PICK p \in Records : Good(p) /\ Set(r, p)
    BY <1>5 DEF Moved
  <2>2. QueueInv'
    BY <1>5, <2>1, QueueMoved
  <2>3. PoolInv'
    BY <1>5, PoolMoved
  <2> QED BY <1>1, <2>1, <2>2, <2>3
<1>6. CASE Next
  <2>1. PICK r \in Requests : Arrive(r) \/ Step(r)
    BY <1>6 DEF Next
  <2>2. Good(request[r])
    OBVIOUS
  <2> QED BY <1>3, <1>4, <1>5, <2>1, <2>2, StepKinds
<1> QED BY <1>2, <1>6

(* What is known of every request in every reachable state.                *)
THEOREM InductiveInvariant == Spec => []IInv
<1> QED BY InitInv, StepInv, PTL DEF Spec

(* Types of the state, and the pool never has more than PoolSize           *)
(* connections in use (data-source pool of pg), whatever requests wait,    *)
(* fail or end.                                                            *)
THEOREM TypeCorrect == Spec => []TypeOK
<1>1. IInv => TypeOK
  BY DEF IInv, QueueInv, PoolInv, TypeOK, InUse, Held
<1> QED BY <1>1, InductiveInvariant, PTL

(* The status tells what became of the request, for any routes and any     *)
(* requests: 200 when all its writes are committed, an error when none is, *)
(* in doubt only with a 500 after COMMIT was sent (abstract.handler.ts,    *)
(* error handler).                                                         *)
THEOREM AnswersTell == Spec => []AnswerTellsOutcome
<1>1. IInv => AnswerTellsOutcome
  BY DEF IInv, Good, Answer, AnswerTellsOutcome
<1> QED BY <1>1, InductiveInvariant, PTL

LEMMA ReadsOnly ==
  ASSUME NEW q, Good(q), q.runs # <<>>, q.context # "open"
  PROVE  q.done = 0 /\ ToSet(q.todo) \subseteq {"read", "end"}
<1>1. q \in Records /\ q.context \in Contexts /\ q.todo \in Seq(Steps)
  BY RecordFields DEF Good
<1>2. q.stage # "answered" /\ q.context = "released"
  BY <1>1 DEF Good, Before, Contexts
<1>3. After(q) /\ Planned(q)
  BY <1>2 DEF Good
<1>4. q.todo # <<>>
  BY <1>1, <1>2, <1>3, NextStep
<1>5. q.done = 0 /\ Reading(q.todo) /\ NoRun(q.todo)
  BY <1>3, <1>4 DEF After
<1>6. \A i \in 1 .. Len(q.todo) : q.todo[i] \in {"read", "end"}
  BY <1>5 DEF Reading, NoRun
<1>7. ToSet(q.todo) = {q.todo[i] : i \in 1 .. Len(q.todo)}
  BY <1>1 DEF ToSet
<1> QED BY <1>5, <1>6, <1>7

(* A run that joins a transaction manager whose transaction is over has    *)
(* written nothing, and only reads and ends (AccountRetrieveMe).           *)
THEOREM ReadsOutside == Spec => []OnlyReadsOutside
<1>1. IInv => OnlyReadsOutside
  BY ReadsOnly DEF IInv, OnlyReadsOutside
<1> QED BY <1>1, InductiveInvariant, PTL
-----------------------------------------------------------------------------
(***************************************************************************)
(* The pool is not what requests wait for in a circle.  Who holds a        *)
(* connection needs no other one: a run of a transaction is joined by the  *)
(* runs inside it, and a single query returns its connection before the    *)
(* next step.                                                              *)
(***************************************************************************)

(* A connection outside a transaction is for the read that comes next.     *)
Lends(q) == q.borrowed => /\ q.stage = "handle" /\ q.context = "none"
                          /\ q.todo # <<>> /\ Head(q.todo) = "read"
LendInv == \A r \in Requests : Lends(request[r])

HoldersGoOn == \A r \in Requests : Connections(r) # {} => GoesOn(r)

(* The first in the queue needs a connection.                              *)
LEMMA FirstNeeds ==
  ASSUME NEW r \in Requests, QueueInv, Connect(r)
  PROVE  NeedsConnection(r)
<1>1. waiting # <<>> /\ r = Head(waiting)
  BY DEF Connect
<1>2. 1 \in 1 .. Len(waiting) /\ r = waiting[1]
  BY <1>1, EmptySeq DEF QueueInv
<1> QED BY <1>2 DEF QueueInv

(* With a borrowed connection the read is all that can happen.             *)
LEMMA BorrowedReads ==
  ASSUME NEW r \in Requests, request \in [Requests -> Records], QueueInv,
         Lends(request[r]), request[r].borrowed, Arrive(r) \/ Step(r)
  PROVE  ~request'[r].borrowed
<1> DEFINE q == request[r]
<1>1. /\ q \in Records /\ q.stage = "handle" /\ q.context = "none"
      /\ q.todo # <<>> /\ Head(q.todo) = "read"
  BY DEF Lends
<1>2. ~NeedsConnection(r)
  BY <1>1 DEF NeedsConnection, IsAt
<1>3. /\ ~Arrive(r) /\ ~Check(r) /\ ~Validate(r) /\ ~Ask(r)
      /\ ~Join(r) /\ ~Call(r) /\ ~Skip(r) /\ ~End(r) /\ ~Respond(r)
  BY <1>1, <1>2 DEF Arrive, Check, Validate, Ask, Join, Call, Skip, Optional,
     End, Respond, IsAt
<1>4. ASSUME NEW error, Throw(r, error)
      PROVE  ~request'[r].borrowed
  <2>1. request'[r] = WithError(q, error)
    BY <1>4 DEF Throw, Set
  <2>2. WithError(q, error).borrowed = FALSE
    BY <1>1, RecordFields DEF WithError
  <2> QED BY <2>1, <2>2
<1>5. CASE Statement(r)
  <2>1. IsAt(r, {"read"})
    BY <1>1 DEF IsAt
  <2>2. CASE Set(r, [q EXCEPT !.todo = Tail(@), !.borrowed = FALSE])
    <3>1. request'[r] = [q EXCEPT !.todo = Tail(@), !.borrowed = FALSE]
      BY <2>2 DEF Set
    <3> QED BY <1>1, <3>1, RecordFields
  <2>3. \/ Throw(r, ThirdParty) \/ \E error \in CommonErrors : Throw(r, error)
        \/ Set(r, [q EXCEPT !.todo = Tail(@), !.borrowed = FALSE])
    BY <1>5, <2>1, Zenon DEF Statement
  <2> QED BY <1>4, <2>2, <2>3
<1> QED BY <1>2, <1>3, <1>5, FirstNeeds DEF Step

(* A single query that waits for a connection is a read: writes are in     *)
(* runs.                                                                   *)
LEMMA LentForRead ==
  ASSUME NEW r \in Requests, Good(request[r]), NeedsConnection(r),
         ~IsAt(r, {"run"})
  PROVE  /\ request[r].stage = "handle" /\ request[r].context = "none"
         /\ request[r].todo # <<>> /\ Head(request[r].todo) = "read"
<1> DEFINE q == request[r]
<1>1. /\ q.stage = "handle" /\ q.context = "none" /\ q.todo # <<>>
      /\ Head(q.todo) \in {"read", "write", "mayWrite"} /\ q \in Records
  BY DEF NeedsConnection, IsAt, Statements, Good
<1>2. Planned(q) /\ q.runs = <<>>
  BY <1>1 DEF Good, Before
<1>3. Head(q.todo) = q.todo[1]
      /\ (q.todo[1] \in {"write", "mayWrite"} => Len(q.runs) > 0)
  BY <1>1, <1>2, NextStep
<1>4. Len(q.runs) = 0
  BY <1>2
<1> QED BY <1>1, <1>3, <1>4

(* Whoever gets a connection outside a transaction reads next.             *)
LEMMA LendConnected ==
  ASSUME NEW r \in Requests, request \in [Requests -> Records],
         Good(request[r]), QueueInv, Lends(request[r]), Connect(r)
  PROVE  Lends(request'[r])
<1> DEFINE q == request[r]
<1>1. q \in Records /\ NeedsConnection(r)
  BY FirstNeeds
<1>2. CASE q.borrowed
  BY <1>2, BorrowedReads DEF Lends, Step
<1>3. CASE /\ ~q.borrowed /\ IsAt(r, {"run"})
           /\ Set(r, [Push(q, TRUE) EXCEPT !.context = "open"])
  <2>1. request'[r].borrowed = q.borrowed
    BY <1>1, <1>3, RecordFields DEF Set, Push
  <2> QED BY <1>3, <2>1 DEF Lends
<1>4. CASE ~IsAt(r, {"run"}) /\ Set(r, [q EXCEPT !.borrowed = TRUE])
  <2>1. request'[r] = [q EXCEPT !.borrowed = TRUE]
    BY <1>4 DEF Set
  <2>2. /\ request'[r].stage = q.stage /\ request'[r].context = q.context
        /\ request'[r].todo = q.todo
    BY <1>1, <2>1, RecordFields
  <2> QED BY <1>1, <1>4, <2>2, LentForRead DEF Lends
<1>5. CASE Throw(r, ThirdParty)
  <2>1. request'[r] = WithError(q, ThirdParty)
    BY <1>5 DEF Throw, Set
  <2>2. WithError(q, ThirdParty).borrowed = FALSE
    BY <1>1, RecordFields DEF WithError
  <2> QED BY <2>1, <2>2 DEF Lends
<1> QED BY <1>2, <1>3, <1>4, <1>5 DEF Connect

LEMMA LendStep == IInv /\ LendInv /\ [Next]_vars => LendInv'
<1> SUFFICES ASSUME IInv, LendInv, [Next]_vars
             PROVE  LendInv'
  OBVIOUS
<1> USE DEF IInv
<1>1. CASE request' = request
  BY <1>1 DEF LendInv, Lends
<1>2. ASSUME NEW r \in Requests, Arrive(r) \/ Step(r), ~Ask(r)
      PROVE  LendInv'
  <2>1. PICK p \in Records : /\ Set(r, p)
                             /\ Connect(r) \/ (p.borrowed => request[r].borrowed)
    <3>1. Connect(r) \/ Moved(r)
      BY <1>2, StepKinds
    <3>2. CASE Connect(r)
      BY <3>2, ConnectMoves DEF Connected
    <3> QED BY <3>1, <3>2 DEF Moved, Fewer
  <2>2. /\ request'[r] = p
        /\ \A s \in Requests : s # r => request'[s] = request[s]
    BY <2>1 DEF Set
  <2>3. Lends(request[r])
    BY DEF LendInv
  <2>4. Lends(p)
    <3>1. CASE Connect(r)
      BY <2>2, <2>3, <3>1, LendConnected
    <3>2. CASE request[r].borrowed
      BY <1>2, <2>2, <2>3, <3>2, BorrowedReads DEF Lends
    <3> QED BY <2>1, <3>1, <3>2 DEF Lends
  <2> QED BY <2>2, <2>4 DEF LendInv
<1>3. CASE UNCHANGED vars
  BY <1>1, <1>3 DEF vars
<1>4. CASE Next
  <2>1. PICK r \in Requests : Arrive(r) \/ Step(r)
    BY <1>4 DEF Next
  <2>2. CASE Ask(r)
    BY <1>1, <2>2 DEF Ask
  <2> QED BY <1>2, <2>1, <2>2
<1> QED BY <1>3, <1>4

LEMMA LendStart == Init => LendInv
<1> SUFFICES ASSUME Init
             PROVE  LendInv
  OBVIOUS
<1>1. \A r \in Requests : request[r] = NotSent
  BY DEF Init
<1> QED BY <1>1 DEF LendInv, Lends, NotSent

LEMMA Lent == Spec => [](IInv /\ LendInv)
<1> QED BY InitInv, StepInv, LendStart, LendStep, PTL DEF Spec

(* A connection in use belongs to a run in its transaction, or to a read.  *)
LEMMA HolderGoesOn ==
  ASSUME IInv, LendInv, NEW r \in Requests, Connections(r) # {}
  PROVE  GoesOn(r)
<1> DEFINE q == request[r]
<1>1. q \in Records /\ q.todo \in Seq(Steps) /\ Good(q) /\ Lends(q)
  BY RecordFields DEF IInv, LendInv
<1>2. q.todo # <<>> => Head(q.todo) \in Steps
  BY <1>1
<1>3. q.borrowed \/ \E i \in DOMAIN q.runs : q.runs[i].opened
  BY DEF Connections, Opened
<1>4. CASE q.borrowed
  <2>1. /\ q.stage = "handle" /\ q.todo # <<>> /\ Head(q.todo) = "read"
    BY <1>1, <1>4 DEF Lends
  <2>2. ~NeedsConnection(r)
    BY <1>4, <2>1 DEF NeedsConnection, IsAt
  <2> QED BY <1>2, <2>1, <2>2 DEF GoesOn, IsAt
<1>5. CASE \E i \in DOMAIN q.runs : q.runs[i].opened
  <2>1. q.runs \in Seq(Runs) /\ q.context \in Contexts
    BY <1>1, RecordFields
  <2>2. q.runs # <<>> /\ \E i \in 1 .. Len(q.runs) : q.runs[i].opened
    BY <1>5, <2>1
  <2>3. q.context = "open"
    BY <1>1, <2>1, <2>2 DEF Good, Before, After, Contexts
  <2>4. q.stage = "handle" /\ Planned(q)
    BY <1>1, <2>2, <2>3 DEF Good, Inside
  <2>5. q.todo # <<>>
    BY <1>1, <2>2, <2>4, NextStep
  <2>6. ~NeedsConnection(r)
    BY <2>3 DEF NeedsConnection, JoinsContext
  <2> QED BY <1>2, <2>4, <2>5, <2>6 DEF GoesOn, IsAt
<1> QED BY <1>3, <1>4, <1>5

(* A request that holds a connection of the pool always has a step to take *)
(* that needs no other one: nested handlers join the transaction of their  *)
(* manager (abstract.handler.ts) instead of taking a second connection.    *)
THEOREM NoHoldAndWait == Spec => []HoldersGoOn
<1>1. IInv /\ LendInv => HoldersGoOn
  BY HolderGoesOn DEF HoldersGoOn
<1> QED BY <1>1, Lent, PTL

(* However many requests there are and however small the pool is, they     *)
(* never all wait for a connection: when somebody waits there is a free    *)
(* one, or a request outside the queue that holds one and can go on.       *)
THEOREM PoolFree == Spec => []PoolNeverStuck
<1>1. IInv /\ LendInv => PoolNeverStuck
  <2> SUFFICES ASSUME IInv, LendInv, ~(InUse < PoolSize)
               PROVE  \E r \in Requests \ Range(waiting) :
                         Connections(r) # {} /\ GoesOn(r)
    BY DEF PoolNeverStuck
  <2>1. Held # {}
    <3>1. IsFiniteSet(Held) /\ Cardinality(Held) \in Nat
      BY FS_CardinalityType DEF IInv, PoolInv
    <3>2. InUse = Cardinality(Held)
      BY DEF InUse, Held
    <3> QED BY <3>1, <3>2, FS_EmptySet, PoolAssumption
  <2>2. PICK r \in Requests : Connections(r) # {}
    BY <2>1 DEF Held
  <2>3. GoesOn(r)
    BY <2>2, HolderGoesOn
  <2>4. r \notin Range(waiting)
    <3>1. \A i \in 1 .. Len(waiting) : NeedsConnection(waiting[i])
      BY DEF IInv, QueueInv
    <3>2. DOMAIN waiting = 1 .. Len(waiting)
      BY DEF IInv, QueueInv
    <3> QED BY <2>3, <3>1, <3>2 DEF GoesOn, Range
  <2> QED BY <2>2, <2>3, <2>4
<1> QED BY <1>1, Lent, PTL
-----------------------------------------------------------------------------
(***************************************************************************)
(* ServiceProcess: the process a request is served by, from its command    *)
(* line to its end, for any requests and any command lines.                *)
(*                                                                         *)
(* The properties speak of what runs; what makes them true is the order of *)
(* the start.  The inductive invariant says, for each point the start can  *)
(* have reached, what it awaits and what it has connected by then.         *)
(***************************************************************************)
Ready == database /\ producer = "connected"

(* The start of the API server, stage by stage.                            *)
ApiBoot == stages = ApiServer /\ pending = {} /\ producer = "none"
ApiDatabase == /\ stages = <<{"database"}, {"producer"}, {"listen"}>>
               /\ pending \subseteq {"boot"}
               /\ producer = "none"
ApiProducer == /\ stages = <<{"producer"}, {"listen"}>>
               /\ pending \subseteq {"database"}
               /\ pending = {} => database
               /\ producer = "none"
ApiListen == /\ stages = <<{"listen"}>>
             /\ pending \subseteq {"producer"}
             /\ database
             /\ producer \in {"connecting", "connected"}
             /\ pending = {} => producer = "connected"
ApiLast == /\ stages = <<>>
           /\ pending \subseteq {"listen"}
           /\ "listen" \in pending => Ready
           /\ producer # "connecting"

ApiInv == /\ ApiBoot \/ ApiDatabase \/ ApiProducer \/ ApiListen \/ ApiLast
          /\ listening => Ready
          /\ consumer = "none"

(* The start of the event listener.                                        *)
EventSubscribe == stages = EventListener /\ pending = {}
EventDatabase == /\ stages = <<{"database"}, {"listen", "consume"}>>
                 /\ pending \subseteq {"subscribe"}
EventConsume == /\ stages = <<{"listen", "consume"}>>
                /\ pending \subseteq {"database"}
                /\ pending = {} => database
EventLast == /\ stages = <<>>
             /\ pending \subseteq {"listen", "consume"}
             /\ "consume" \in pending => database

EventInv == /\ EventSubscribe \/ EventDatabase \/ EventConsume \/ EventLast
            /\ consumer = "running" => database
            /\ producer = "none"

(* Another command line starts nothing.                                    *)
NoInv == stages = <<>> /\ pending = {} /\ producer = "none" /\ consumer = "none"

StartInv == /\ argument = "api" => ApiInv
            /\ argument = "event" => EventInv
            /\ argument \notin {"api", "event"} => NoInv

(* Requests come in once the server listens, and by then all is connected. *)
PublicationInv == \A r \in Publishers :
                 /\ publication[r] # "none" => argument = "api" /\ Ready
                 /\ publication[r] \notin {"connecting", "refused"}

ProcessInv == ProcessTypeOK /\ StartInv /\ PublicationInv
-----------------------------------------------------------------------------
(* What the start is, taken stage by stage.                                *)
LEMMA StageHeads ==
    /\ ApiServer # <<>> /\ Head(ApiServer) = {"boot"}
    /\ Tail(ApiServer) = <<{"database"}, {"producer"}, {"listen"}>>
    /\ EventListener # <<>> /\ Head(EventListener) = {"subscribe"}
    /\ Tail(EventListener) = <<{"database"}, {"listen", "consume"}>>
  BY DEF ApiServer, EventListener

LEMMA ThreeStages ==
    LET s == <<{"database"}, {"producer"}, {"listen"}>>
    IN  /\ s # <<>> /\ Head(s) = {"database"}
        /\ Tail(s) = <<{"producer"}, {"listen"}>>
  OBVIOUS

LEMMA TwoStages ==
    ASSUME NEW a, NEW b
    PROVE  <<a, b>> # <<>> /\ Head(<<a, b>>) = a /\ Tail(<<a, b>>) = <<b>>
  OBVIOUS

LEMMA OneStage ==
    ASSUME NEW a
    PROVE  <<a>> # <<>> /\ Head(<<a>>) = a /\ Tail(<<a>>) = <<>>
  OBVIOUS

LEMMA StageType ==
    LET StageSet == SUBSET {"boot", "subscribe", "database", "producer", "listen",
                         "consume"}
    IN  /\ ApiServer \in Seq(StageSet) /\ EventListener \in Seq(StageSet)
        /\ <<>> \in Seq(StageSet)
<1> DEFINE StageSet == SUBSET {"boot", "subscribe", "database", "producer",
                            "listen", "consume"}
<1>1. /\ {"boot"} \in StageSet /\ {"database"} \in StageSet
      /\ {"producer"} \in StageSet
      /\ {"listen"} \in StageSet /\ {"subscribe"} \in StageSet
      /\ {"listen", "consume"} \in StageSet
  OBVIOUS
<1> HIDE DEF StageSet
<1>2. /\ ApiServer \in Seq(StageSet) /\ EventListener \in Seq(StageSet)
      /\ <<>> \in Seq(StageSet)
  BY <1>1 DEF ApiServer, EventListener
<1> QED
  BY <1>2 DEF StageSet

LEMMA ProcessStart == ProcessInit => ProcessInv
<1> SUFFICES ASSUME ProcessInit PROVE ProcessInv
  OBVIOUS
<1>1. Runnable(argument) \in
         Seq(SUBSET {"boot", "subscribe", "database", "producer", "listen",
                     "consume"})
  BY StageType DEF Runnable
<1>2. ProcessTypeOK
  BY <1>1 DEF ProcessInit, ProcessTypeOK
<1>3. StartInv
  BY DEF ProcessInit, StartInv, Runnable, ApiInv, ApiBoot, EventInv,
         EventSubscribe,
         NoInv
<1>4. PublicationInv
  BY DEF ProcessInit, PublicationInv
<1> QED
  BY <1>2, <1>3, <1>4 DEF ProcessInv

(* Types do not depend on where the start is.                              *)
LEMMA ProcessTypeStep ==
    ProcessTypeOK /\ [ProcessNext]_processVars => ProcessTypeOK'
<1> SUFFICES ASSUME ProcessTypeOK, [ProcessNext]_processVars PROVE ProcessTypeOK'
  OBVIOUS
<1> USE DEF ProcessTypeOK, start, services
<1>1. CASE \E directory \in Pattern : Scan(directory)
  BY <1>1 DEF Scan, Pattern, Directories
<1>2. CASE Begin
  <2>1. /\ pending' \subseteq {"boot", "subscribe", "database", "producer",
                               "listen", "consume"}
        /\ stages' \in Seq(SUBSET {"boot", "subscribe", "database", "producer",
                                 "listen", "consume"})
    BY <1>2 DEF Begin
  <2> QED
    BY <1>2, <2>1 DEF Begin
<1>3. ASSUME NEW promise \in pending, Resolve(promise) PROVE ProcessTypeOK'
  BY <1>3 DEF Resolve
<1>4. ASSUME NEW promise \in pending, Reject(promise) PROVE ProcessTypeOK'
  BY <1>4, StageType DEF Reject
<1>5. CASE ProducerConnected
  BY <1>5 DEF ProducerConnected
<1>6. CASE ProducerFailed
  BY <1>6, StageType DEF ProducerFailed
<1>7. ASSUME NEW r \in Publishers,
             Receive(r) \/ GetProducer(r) \/ Publish(r)
      PROVE  ProcessTypeOK'
  BY <1>7 DEF Receive, GetProducer, Publish
<1>8. CASE Stop
  BY <1>8 DEF Stop
<1>9. CASE Drain
  BY <1>9 DEF Drain
<1>10. CASE UNCHANGED processVars
  BY <1>10 DEF processVars
<1> QED
  BY <1>1, <1>2, <1>3, <1>4, <1>5, <1>6, <1>7, <1>8, <1>9, <1>10 DEF ProcessNext

(* The start of the API server goes from stage to stage.                   *)
LEMMA ApiStep ==
    ASSUME ProcessInv, argument = "api", ProcessNext
    PROVE  ApiInv'
<1> USE DEF ProcessInv, StartInv, ApiInv, start, services, Ready
<1> DEFINE Point == ApiBoot \/ ApiDatabase \/ ApiProducer \/ ApiListen \/ ApiLast
<1>0. ApiInv
  OBVIOUS
<1>1. CASE \E directory \in Pattern : Scan(directory)
  BY <1>1 DEF Scan, ApiBoot, ApiDatabase, ApiProducer, ApiListen, ApiLast
<1>2. CASE Begin
  <2>1. CASE ApiBoot
    BY <1>2, <2>1, StageHeads DEF Begin, ApiBoot, ApiDatabase
  <2>2. CASE ApiDatabase
    BY <1>2, <2>2, ThreeStages DEF Begin, ApiDatabase, ApiProducer
  <2>3. CASE ApiProducer
    BY <1>2, <2>3, TwoStages DEF Begin, ApiProducer, ApiListen
  <2>4. CASE ApiListen
    BY <1>2, <2>4, OneStage DEF Begin, ApiListen, ApiLast
  <2>5. CASE ApiLast
    BY <1>2, <2>5 DEF Begin, ApiLast
  <2> QED
    BY <1>0, <2>1, <2>2, <2>3, <2>4, <2>5
<1>3. ASSUME NEW promise \in pending, Resolve(promise) PROVE ApiInv'
  <2>1. promise \notin {"subscribe", "consume"} /\ (promise = "listen" => Ready)
    BY <1>0, <1>3 DEF ApiBoot, ApiDatabase, ApiProducer, ApiListen, ApiLast
  <2>2. Point'
    BY <1>0, <1>3 DEF Resolve, ApiBoot, ApiDatabase, ApiProducer, ApiListen,
                      ApiLast
  <2>3. (listening => Ready)' /\ consumer' = "none"
    BY <1>0, <1>3, <2>1 DEF Resolve
  <2> QED
    BY <2>2, <2>3
<1>4. ASSUME NEW promise \in pending, Reject(promise) PROVE ApiInv'
  <2>1. ApiLast'
    BY <1>0, <1>4 DEF Reject, ApiBoot, ApiDatabase, ApiProducer, ApiListen,
                      ApiLast
  <2> QED
    BY <1>0, <1>4, <2>1 DEF Reject
<1>5. CASE ProducerConnected
  BY <1>0, <1>5 DEF ProducerConnected, ApiBoot, ApiDatabase, ApiProducer,
                    ApiListen, ApiLast
<1>6. CASE ProducerFailed
  BY <1>0, <1>6 DEF ProducerFailed, ApiBoot, ApiDatabase, ApiProducer,
                    ApiListen, ApiLast
<1>7. ASSUME NEW r \in Publishers,
             Receive(r) \/ GetProducer(r) \/ Publish(r)
      PROVE  ApiInv'
  <2>1. UNCHANGED <<start, services, producer>>
    BY <1>7 DEF Receive, GetProducer, Publish, PublicationInv
  <2> QED
    BY <1>0, <2>1 DEF ApiBoot, ApiDatabase, ApiProducer, ApiListen, ApiLast
<1>8. CASE Stop
  BY <1>0, <1>8 DEF Stop, ApiBoot, ApiDatabase, ApiProducer, ApiListen,
                    ApiLast
<1>9. CASE Drain
  BY <1>0, <1>9 DEF Drain, ApiBoot, ApiDatabase, ApiProducer, ApiListen,
                    ApiLast
<1> QED
  BY <1>1, <1>2, <1>3, <1>4, <1>5, <1>6, <1>7, <1>8, <1>9 DEF ProcessNext

(* So does that of the event listener, which has no producer.              *)
LEMMA EventStep ==
    ASSUME ProcessInv, argument = "event", ProcessNext
    PROVE  EventInv'
<1> USE DEF ProcessInv, StartInv, EventInv, start, services
<1> DEFINE Point == EventSubscribe \/ EventDatabase \/ EventConsume \/ EventLast
<1>0. EventInv
  OBVIOUS
<1>1. CASE \E directory \in Pattern : Scan(directory)
  BY <1>1 DEF Scan, EventSubscribe, EventDatabase, EventConsume, EventLast
<1>2. CASE Begin
  <2>1. CASE EventSubscribe
    BY <1>2, <2>1, StageHeads DEF Begin, EventSubscribe, EventDatabase
  <2>2. CASE EventDatabase
    BY <1>2, <2>2, TwoStages DEF Begin, EventDatabase, EventConsume
  <2>3. CASE EventConsume
    BY <1>2, <2>3, OneStage DEF Begin, EventConsume, EventLast
  <2>4. CASE EventLast
    BY <1>2, <2>4 DEF Begin, EventLast
  <2> QED
    BY <1>0, <2>1, <2>2, <2>3, <2>4
<1>3. ASSUME NEW promise \in pending, Resolve(promise) PROVE EventInv'
  <2>1. promise = "consume" => database
    BY <1>0, <1>3 DEF EventSubscribe, EventDatabase, EventConsume, EventLast
  <2>2. Point'
    BY <1>0, <1>3 DEF Resolve, EventSubscribe, EventDatabase, EventConsume,
                      EventLast
  <2>3. (consumer = "running" => database)' /\ producer' = "none"
    BY <1>0, <1>3, <2>1 DEF Resolve
  <2> QED
    BY <2>2, <2>3
<1>4. ASSUME NEW promise \in pending, Reject(promise) PROVE EventInv'
  <2>1. EventLast'
    BY <1>0, <1>4 DEF Reject, EventSubscribe, EventDatabase, EventConsume,
                      EventLast
  <2> QED
    BY <1>0, <1>4, <2>1 DEF Reject
<1>5. ~ProducerConnected /\ ~ProducerFailed
  BY <1>0 DEF ProducerConnected, ProducerFailed
<1>6. \A r \in Publishers : ~Receive(r) /\ ~GetProducer(r) /\ ~Publish(r)
  BY DEF Receive, GetProducer, Publish, PublicationInv
<1>7. CASE Stop
  BY <1>0, <1>7 DEF Stop, EventSubscribe, EventDatabase, EventConsume,
                    EventLast
<1>8. CASE Drain
  BY <1>0, <1>8 DEF Drain, EventSubscribe, EventDatabase, EventConsume,
                    EventLast
<1> QED
  BY <1>1, <1>2, <1>3, <1>4, <1>5, <1>6, <1>7, <1>8 DEF ProcessNext

(* Without a start nothing happens but the scan and the end.               *)
LEMMA OtherStep ==
    ASSUME ProcessInv, argument \notin {"api", "event"}, ProcessNext
    PROVE  NoInv'
<1>1. NoInv
  BY DEF ProcessInv, StartInv
<1>2. \A r \in Publishers : publication[r] = "none"
  BY DEF ProcessInv, PublicationInv
<1>3. ~Begin /\ ~ProducerConnected /\ ~ProducerFailed
  BY <1>1 DEF Begin, ProducerConnected, ProducerFailed, NoInv
<1>4. \A r \in Publishers : ~Receive(r) /\ ~GetProducer(r) /\ ~Publish(r)
  BY <1>2 DEF Receive, GetProducer, Publish
<1>5. (\E directory \in Pattern : Scan(directory)) \/ Stop \/ Drain
  BY <1>1, <1>3, <1>4 DEF ProcessNext, NoInv
<1> QED
  BY <1>1, <1>5 DEF Scan, Stop, Drain, start, services, NoInv

(* Once connected, database and producer stay connected.                   *)
LEMMA PublicationStep ==
    ASSUME ProcessInv, ProcessNext
    PROVE  PublicationInv'
<1> USE DEF ProcessInv, start, services, Ready, PublicationInv
<1>1. CASE \E directory \in Pattern : Scan(directory)
  BY <1>1 DEF Scan
<1>2. CASE Begin
  <2>1. argument = "api" /\ "producer" \in Head(stages) => ~Ready
    BY <1>2, StageHeads, ThreeStages, OneStage
       DEF Begin, StartInv, ApiInv, ApiBoot, ApiDatabase, ApiProducer,
           ApiListen, ApiLast
  <2> QED
    BY <1>2, <2>1 DEF Begin
<1>3. ASSUME NEW promise \in pending, Resolve(promise) PROVE PublicationInv'
  BY <1>3 DEF Resolve
<1>4. ASSUME NEW promise \in pending, Reject(promise) PROVE PublicationInv'
  BY <1>4 DEF Reject
<1>5. CASE ProducerConnected \/ ProducerFailed
  <2>1. \A r \in Publishers : publication[r] = "none" /\ publication'[r] = "none"
    BY <1>5 DEF ProducerConnected, ProducerFailed
  <2> QED
    BY <2>1
<1>6. ASSUME NEW r \in Publishers, Receive(r) PROVE PublicationInv'
  <2>1. argument = "api" /\ Ready
    BY <1>6 DEF Receive, StartInv, ApiInv
  <2> QED
    BY <1>6, <2>1 DEF Receive, ProcessTypeOK
<1>7. ASSUME NEW r \in Publishers, GetProducer(r) \/ Publish(r)
      PROVE  PublicationInv'
  <2>1. argument = "api" /\ Ready
    BY <1>7 DEF GetProducer, Publish
  <2> QED
    BY <1>7, <2>1 DEF GetProducer, Publish, ProcessTypeOK
<1>8. CASE Stop
  BY <1>8 DEF Stop
<1>9. CASE Drain
  BY <1>9 DEF Drain
<1> QED
  BY <1>1, <1>2, <1>3, <1>4, <1>5, <1>6, <1>7, <1>8, <1>9 DEF ProcessNext

LEMMA ArgumentStays == ProcessNext => argument' = argument
  BY DEF ProcessNext, Scan, Begin, Resolve, Reject,
         ProducerConnected, ProducerFailed,
         Receive, GetProducer, Publish, Stop, Drain

LEMMA ProcessStep == ProcessInv /\ [ProcessNext]_processVars => ProcessInv'
<1> SUFFICES ASSUME ProcessInv, [ProcessNext]_processVars PROVE ProcessInv'
  OBVIOUS
<1>1. ProcessTypeOK'
  BY ProcessTypeStep DEF ProcessInv
<1>2. CASE ProcessNext
  <2>1. StartInv'
    BY <1>2, ApiStep, EventStep, OtherStep, ArgumentStays DEF StartInv
  <2> QED
    BY <1>1, <1>2, <2>1, PublicationStep DEF ProcessInv
<1>3. CASE UNCHANGED processVars
  <2>1. StartInv'
    BY <1>3 DEF processVars, start, services, ProcessInv, StartInv, ApiInv,
                EventInv, NoInv, Ready, ApiBoot,
                ApiDatabase, ApiProducer, ApiListen, ApiLast, EventSubscribe,
                EventDatabase, EventConsume, EventLast
  <2>2. PublicationInv'
    BY <1>3 DEF processVars, services, ProcessInv, PublicationInv, Ready
  <2> QED
    BY <1>1, <2>1, <2>2 DEF ProcessInv
<1> QED
  BY <1>2, <1>3

(* The order of the start is kept by every step of the process.            *)
THEOREM ProcessInvariant == ProcessSpec => []ProcessInv
  BY ProcessStart, ProcessStep, PTL DEF ProcessSpec
-----------------------------------------------------------------------------
(* Type correctness of a process, for any requests and command lines.      *)
THEOREM ProcessTypeCorrect == ProcessSpec => []ProcessTypeOK
<1>1. ProcessInv => ProcessTypeOK
  BY DEF ProcessInv
<1> QED
  BY <1>1, ProcessInvariant, PTL

(* No request ever holds a producer that is not connected: the variable is *)
(* assigned before connect() is awaited, but the start awaits it before it *)
(* lets a request in (producer.client.ts:20-24).                           *)
THEOREM NobodyUnconnected == ProcessSpec => []PublishersConnected
<1>1. ProcessInv => PublishersConnected
  BY DEF ProcessInv, PublicationInv, Ready, PublishersConnected
<1> QED
  BY <1>1, ProcessInvariant, PTL

(* Neither requests nor events are taken on without the database, whatever *)
(* of the start failed (api-server.runnable.ts, event-listener.runnable.ts)*)
THEOREM DatabaseFirst == ProcessSpec => []WorkNeedsDatabase
<1>1. ProcessInv => WorkNeedsDatabase
  BY DEF ProcessInv, StartInv, ApiInv, EventInv, NoInv, Ready,
         WorkNeedsDatabase
<1> QED
  BY <1>1, ProcessInvariant, PTL
=============================================================================
