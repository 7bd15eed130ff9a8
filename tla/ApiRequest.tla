------------------------------ MODULE ApiRequest ------------------------------
(***************************************************************************)
(* A request of the API server from arrival to answer: the authentication  *)
(* hook, validation, the route's controller with the runs of its handlers, *)
(* the transaction they share, the connection pool all requests share, and *)
(* the error handler.                                                      *)
(*                                                                         *)
(* A route is the order in which its controller starts and ends handlers,  *)
(* sends statements and calls other services.  What the statements and     *)
(* calls do is in the modules of the handlers.                             *)
(***************************************************************************)
EXTENDS Naturals, Sequences, FiniteSets, Functions, SequencesExt

CONSTANTS Requests, Offered, \* the names of the routes that are called
          PoolSize           \* pg: 10, waiting forever

ASSUME PoolAssumption == PoolSize \in Nat \ {0}

VARIABLES request, \* request -> its record, see Records
          waiting  \* requests that wait for a connection, first come first

vars == <<request, waiting>>
-----------------------------------------------------------------------------
(* Routes.  run, end: the beginning and the end of handler.run(); a run    *)
(* between them is one of a nested handler with the same manager.  Reads   *)
(* in a row, and writes in a row, stand as one; every call is a step.      *)
Steps == {"run", "end", "read", "write", "mayWrite", "call", "mayCall"}
Statements == {"read", "write", "mayWrite"}
Optional == {"mayWrite", "mayCall"}

Guarded(input, steps) == [guarded |-> TRUE, input |-> input, steps |-> steps]
Open(input, steps) == [guarded |-> FALSE, input |-> input, steps |-> steps]

Health == Open("none", <<>>)
SubscriptionCreate == Open("body", <<"run", "read", "write", "call", "call", "end">>)
SubscriptionUpdate == Guarded("body", <<"run", "read", "write", "call", "end">>)
SubscriptionRetrieve == Guarded("none", <<"run", "read", "end">>)
AccountCreate ==
    Guarded("body", <<"run", "write", "run", "read", "mayWrite", "read", "call", "end", "end">>)
AccountVerify == Open("body", <<"run", "read", "call", "call", "write", "end">>)
AccountDelete == Guarded("none", <<"run", "read", "write", "mayCall", "mayCall", "end">>)
AccountRetrieve == Guarded("none", <<"run", "read", "end">>)
AccountList == Guarded("query", <<"read">>)
AccountRetrieveMe == Guarded("none", <<"run", "read", "end", "run", "read", "end">>)
AccountUpdateMe == Guarded("body", <<"run", "read", "write", "end">>)
AccountSendInvitation ==
    Guarded("none", <<"run", "read", "mayWrite", "read", "call", "end">>)
PersonUpdate == Guarded("body", <<"run", "read", "write", "end">>)
PersonRetrieve == Guarded("none", <<"run", "read", "end">>)
PersonMeRetrieve == Guarded("none", <<"run", "read", "end">>)
ContactDetailUpdate ==
    Guarded("body", <<"run", "read", "write", "mayCall", "mayCall", "end">>)
AuthenticationLogin == Open("body", <<"call">>)
AuthenticationLogout == Open("body", <<"call">>)
AuthenticationRefreshToken == Open("body", <<"call">>)
UserForgotPassword == Open("body", <<"call", "call">>)
UserForgotPasswordConfirmation == Open("body", <<"call", "call">>)
UserSetPassword == Open("body", <<"call", "call", "call">>)

Routes == [
    Health |-> Health,
    SubscriptionCreate |-> SubscriptionCreate,
    SubscriptionUpdate |-> SubscriptionUpdate,
    SubscriptionRetrieve |-> SubscriptionRetrieve,
    AccountCreate |-> AccountCreate,
    AccountVerify |-> AccountVerify,
    AccountDelete |-> AccountDelete,
    AccountRetrieve |-> AccountRetrieve,
    AccountList |-> AccountList,
    AccountRetrieveMe |-> AccountRetrieveMe,
    AccountUpdateMe |-> AccountUpdateMe,
    AccountSendInvitation |-> AccountSendInvitation,
    PersonUpdate |-> PersonUpdate,
    PersonRetrieve |-> PersonRetrieve,
    PersonMeRetrieve |-> PersonMeRetrieve,
    ContactDetailUpdate |-> ContactDetailUpdate,
    AuthenticationLogin |-> AuthenticationLogin,
    AuthenticationLogout |-> AuthenticationLogout,
    AuthenticationRefreshToken |-> AuthenticationRefreshToken,
    UserForgotPassword |-> UserForgotPassword,
    UserForgotPasswordConfirmation |-> UserForgotPasswordConfirmation,
    UserSetPassword |-> UserSetPassword]

ASSUME OfferedAssumption == Offered \subseteq DOMAIN Routes
-----------------------------------------------------------------------------
(* Errors.  An InternalServerError carries its status; anything else is    *)
(* thrown by a library, with a code of its own (here an SQLSTATE) or none. *)
Internal(code) == [type |-> "InternalServerError", code |-> code]
ThirdParty == [type |-> "other", code |-> 23505]

UNAUTHENTICATED == Internal(401)
INVALID_FORMAT == Internal(500)
REQUEST_BODY_PARSE_ERROR == Internal(400)
CommonErrors == {Internal(code) : code \in {401, 403, 404, 409, 422}}
CognitoErrors == {Internal(code) : code \in {400, 401, 500}}

(* The codes it looks for (UNAUTHENTICATED) are none that pg, TypeORM or   *)
(* fastify throw: they all become INTERNAL_SERVER_ERROR.                   *)
ToInternal(error) == Internal(500)

(* Mutant: the code of every error is taken for its status.                *)
AnyCode(error) == error.code
ErrorHandler(error) ==
    IF error.type = "InternalServerError" THEN error.code ELSE ToInternal(error).code

-----------------------------------------------------------------------------
(* State of a request.  runs: the unfinished runs of handlers, outermost   *)
(* first: whether it opened the transaction, and what was written in it.   *)
Runs == [opened : BOOLEAN, written : Nat]

(* borrowed: a connection for one query outside any transaction.           *)
(* context: of the transaction manager; set, and never reset.              *)
(* todo: the steps that are left.  done, committed: writes so far.         *)
(* doubt: an error after COMMIT was sent.  status: 0 until answered.       *)
Records == [
    stage : {"new", "onRequest", "validate", "handle", "answered"},
    guarded : BOOLEAN,
    token : {"none", "forged", "incomplete", "good"},
    input : {"good", "invalid", "malformed"},
    user : BOOLEAN,
    todo : Seq(Steps),
    context : {"none", "open", "released"},
    runs : Seq(Runs),
    borrowed : BOOLEAN,
    done : Nat,
    committed : Nat,
    doubt : BOOLEAN,
    status : {0, 200, 400, 401, 403, 404, 409, 422, 500}]

NotSent == [
    stage |-> "new", guarded |-> FALSE, token |-> "none", input |-> "good",
    user |-> FALSE, todo |-> <<>>, context |-> "none", runs |-> <<>>,
    borrowed |-> FALSE, done |-> 0, committed |-> 0, doubt |-> FALSE, status |-> 0]

(* A connection in use is named by its run, or by 0 for a single query.    *)
Opened(r) == {i \in DOMAIN request[r].runs : request[r].runs[i].opened}
Connections(r) == {r} \X (Opened(r) \cup IF request[r].borrowed THEN {0} ELSE {})
InUse == Cardinality(UNION {Connections(r) : r \in Requests})

Set(r, record) == request' = [request EXCEPT ![r] = record]

(* Mutant: the connection is not released.                                 *)
UnreleasedError(q, error) ==
    [q EXCEPT !.stage = "answered", !.todo = <<>>, !.status = ErrorHandler(error)]
(* Mutant: the transaction is committed whatever happens.                  *)
CommittedError(q, error) ==
    [q EXCEPT !.stage = "answered", !.todo = <<>>, !.runs = <<>>,
              !.committed = IF q.runs = <<>> THEN @ ELSE @ + q.runs[1].written,
              !.borrowed = FALSE, !.status = ErrorHandler(error)]
(* The run that opened the transaction rolls it back and releases its      *)
(* connection; then the error handler answers.                             *)
WithError(q, error) ==
    [q EXCEPT !.stage = "answered", !.todo = <<>>, !.runs = <<>>,
              !.borrowed = FALSE, !.status = ErrorHandler(error)]

Throw(r, error) == Set(r, WithError(request[r], error))
-----------------------------------------------------------------------------
Init == /\ request = [r \in Requests |-> NotSent]
        /\ waiting = <<>>

Inputs(of) == CASE of = "body" -> {"good", "invalid", "malformed"}
                [] of = "query" -> {"good", "invalid"}
                [] OTHER -> {"good"}

Arrive(r) ==
    /\ request[r].stage = "new"
    /\ \E name \in Offered, token \in {"none", "forged", "incomplete", "good"} :
          LET route == Routes[name]
          IN  \E input \in Inputs(route.input) :
                 Set(r, [NotSent EXCEPT !.stage = "onRequest", !.guarded = route.guarded,
                                        !.token = token, !.input = input,
                                        !.todo = route.steps])
    /\ UNCHANGED waiting

(* A header without a bearer token places nobody on the request.           *)
PlaceUserOnRequest(q) == [q EXCEPT !.user = q.token = "good", !.stage = "validate"]

Unauthenticated(q) == q.token = "none"

(* auth().check, the onRequest hook of guarded routes.                     *)
Check(r) ==
    LET q == request[r]
    IN  /\ q.stage = "onRequest"
        /\ IF ~q.guarded THEN Set(r, [q EXCEPT !.stage = "validate"])
           ELSE IF q.token = "forged" THEN Throw(r, UNAUTHENTICATED)
           ELSE IF q.token = "incomplete" THEN Throw(r, INVALID_FORMAT)
           ELSE IF Unauthenticated(q) THEN Throw(r, UNAUTHENTICATED)
           ELSE Set(r, PlaceUserOnRequest(q))
        /\ UNCHANGED waiting

(* The body is parsed by fastify, then checked by RequestBodyCompiler.     *)
Validate(r) ==
    LET q == request[r]
    IN  /\ q.stage = "validate"
        /\ CASE q.input = "malformed" -> Throw(r, ThirdParty)
             [] q.input = "invalid" -> Throw(r, REQUEST_BODY_PARSE_ERROR)
             [] OTHER -> Set(r, [q EXCEPT !.stage = "handle"])
        /\ UNCHANGED waiting
-----------------------------------------------------------------------------
IsAt(r, steps) == /\ request[r].stage = "handle"
                  /\ request[r].todo # <<>>
                  /\ Head(request[r].todo) \in steps

(* Mutant: a nested handler is given a manager of its own.                 *)
NeverJoins(q) == FALSE
(* A manager with a context, whatever has become of it.                    *)
JoinsContext(q) == q.context # "none"

Push(q, opened) == [q EXCEPT !.runs = Append(@, [opened |-> opened, written |-> 0]),
                             !.todo = Tail(@)]

NeedsConnection(r) ==
    LET q == request[r]
    IN  \/ IsAt(r, {"run"}) /\ ~JoinsContext(q)
        \/ IsAt(r, Statements) /\ q.context = "none" /\ ~q.borrowed

Ask(r) ==
    /\ NeedsConnection(r)
    /\ r \notin Range(waiting)
    /\ waiting' = Append(waiting, r)
    /\ UNCHANGED request

(* The first in the queue gets a free connection and, for a run, BEGIN.    *)
Connect(r) ==
    LET q == request[r]
    IN  /\ waiting # <<>> /\ r = Head(waiting)
        /\ InUse < PoolSize
        /\ waiting' = Tail(waiting)
        /\ \/ IF IsAt(r, {"run"})
              THEN Set(r, [Push(q, TRUE) EXCEPT !.context = "open"])
              ELSE Set(r, [q EXCEPT !.borrowed = TRUE])
           \/ Throw(r, ThirdParty)

(* A nested run, or one after the transaction of its manager has ended.    *)
Join(r) ==
    /\ IsAt(r, {"run"}) /\ JoinsContext(request[r])
    /\ Set(r, Push(request[r], FALSE))
    /\ UNCHANGED waiting

Wrote(q) == [q EXCEPT !.done = @ + 1, !.runs[Len(q.runs)].written = @ + 1,
                      !.todo = Tail(@)]

(* A statement, after which the handler may refuse what it read.  With a   *)
(* released query runner it throws QueryRunnerAlreadyReleasedError.        *)
Statement(r) ==
    LET q == request[r]
    IN  /\ IsAt(r, Statements)
        /\ ~NeedsConnection(r)
        /\ \/ Throw(r, ThirdParty)
           \/ /\ q.context # "released"
              /\ \/ IF IsAt(r, {"read"})
                    THEN Set(r, [q EXCEPT !.todo = Tail(@), !.borrowed = FALSE])
                    ELSE Set(r, Wrote(q))
                 \/ \E error \in CommonErrors : Throw(r, error)
        /\ UNCHANGED waiting

(* Cognito, SES or Kafka.                                                  *)
Call(r) ==
    /\ IsAt(r, {"call", "mayCall"})
    /\ \/ Set(r, [request[r] EXCEPT !.todo = Tail(@)])
       \/ \E error \in CommonErrors \cup CognitoErrors \cup {ThirdParty} : Throw(r, error)
    /\ UNCHANGED waiting

Skip(r) ==
    /\ IsAt(r, Optional)
    /\ Set(r, [request[r] EXCEPT !.todo = Tail(@)])
    /\ UNCHANGED waiting

(* As a mutant of EndJoined: a nested run commits what it joined.          *)
Committed(q) == [q EXCEPT !.committed = @ + Last(q.runs).written,
                          !.runs = Front(@), !.context = "released", !.todo = Tail(@)]
(* The result of a nested run; its writes are those of the one around it.  *)
EndJoined(q) ==
    LET around == Len(q.runs) - 1
        rest == IF around = 0 THEN <<>>
                ELSE [Front(q.runs) EXCEPT ![around].written = @ + Last(q.runs).written]
    IN  [q EXCEPT !.todo = Tail(@), !.runs = rest]

(* COMMIT by the run that opened the transaction: done, refused by the     *)
(* database, or done with its answer lost.                                 *)
End(r) ==
    LET q == request[r]
    IN  /\ IsAt(r, {"end"})
        /\ IF ~Last(q.runs).opened THEN Set(r, EndJoined(q))
           ELSE \/ Set(r, Committed(q))
                \/ Throw(r, ThirdParty)
                \/ Set(r, [WithError(Committed(q), ThirdParty) EXCEPT !.doubt = TRUE])
        /\ UNCHANGED waiting

(* The controller maps the result after the transaction has ended.         *)
Respond(r) ==
    LET q == request[r]
    IN  /\ q.stage = "handle" /\ q.todo = <<>>
        /\ \/ Set(r, [q EXCEPT !.stage = "answered", !.status = 200])
           \/ Set(r, [WithError(q, ThirdParty) EXCEPT !.doubt = TRUE])
        /\ UNCHANGED waiting

Step(r) == \/ Check(r) \/ Validate(r)
           \/ Ask(r) \/ Connect(r) \/ Join(r)
           \/ Statement(r) \/ Call(r) \/ Skip(r) \/ End(r)
           \/ Respond(r)

Next == \E r \in Requests : Arrive(r) \/ Step(r)

Spec == Init /\ [][Next]_vars

(* The event loop gets round to every request; statements and calls of     *)
(* other services return, if only with an error.                           *)
FairSpec == Spec /\ \A r \in Requests : WF_vars(Step(r))
-----------------------------------------------------------------------------
(* Types of the state, and never more connections than the pool has.       *)
TypeOK == /\ request \in [Requests -> Records]
          /\ waiting \in Seq(Requests)
          /\ InUse <= PoolSize

(* The status tells a client what became of its request: with 200 all that *)
(* it wrote, in nested handlers too, is committed; an error means nothing  *)
(* is (abstract.handler.ts:17-19), except a 500 after                      *)
(* COMMIT was sent, when the answer of the database was lost or the result *)
(* could not be mapped.  No 4xx ever follows a COMMIT.                     *)
AnswerTellsOutcome ==
    \A r \in Requests :
        LET q == request[r]
        IN  q.stage = "answered" =>
                IF q.status = 200 THEN q.committed = q.done
                ELSE q.committed = 0 \/ (q.doubt /\ q.status = 500)

(* A run outside a transaction writes nothing and calls nobody.  (The only *)
(* one is the second run of GET /accounts/me: its manager still has the    *)
(* context of the first, whose transaction is over, so the request ends    *)
(* with 500.)                                                              *)
OnlyReadsOutside ==
    \A r \in Requests :
        LET q == request[r]
        IN  q.runs # <<>> /\ q.context # "open" =>
                q.done = 0 /\ ToSet(q.todo) \subseteq {"read", "end"}

(* A step of the handler is left, and no connection is missing for it.     *)
GoesOn(r) == IsAt(r, Steps) /\ ~NeedsConnection(r)

(* Nobody who holds a connection waits for another one: while requests     *)
(* wait for the pool, a connection is free, or one is held by a request    *)
(* outside the queue that can go on with its handler, whatever handlers    *)
(* its own has nested in it.                                               *)
PoolNeverStuck ==
    waiting # <<>> => \/ InUse < PoolSize
                      \/ \E r \in Requests \ Range(waiting) :
                            Connections(r) # {} /\ GoesOn(r)

(* Every request is answered, although each holds its connection while it  *)
(* waits for other services and others wait for one.                       *)
EveryRequestAnswered ==
    \A r \in Requests : request[r].stage # "new" ~> request[r].stage = "answered"
=============================================================================
