# Verification of the subscription management service

TLA+ modules for the parts of the service whose correctness depends on the order
of things or on cases nobody tests: the event listener and its Kafka consumption,
the handlers and listeners that write subscriptions, the life of an account
between PostgreSQL and AWS Cognito, its login e-mail and its sessions, who is
shown what, the way of a request through transactions and errors, lists with
cursors and filters, and the start and end of a process. TLC checks small
instances; TLAPS proves the main results for every instance. Paths below are
relative to the repository's `src/` directory unless they start with `src/`.

- [The system](#the-system): parts, state, interaction, what is hard
- [Modules](#modules): what each models and how it corresponds to the code
- [Runs](#runs): what each checks, bounds, fairness
- [Proofs](#proofs): what is proved, from what, and along which argument
- [Disagreements](#disagreements-between-the-code-and-its-documents)
- [Not modelled, and the plan](#not-modelled-and-the-plan)

To check a run: `tlc -config <cfg> <MC module>`. To check the proofs: `tlapm` on
each of the eight modules whose name ends in `Proofs`.

## The system

The API server (Fastify) and the event listener are two processes of one code
base. Both may run several times. They share a PostgreSQL database (TypeORM,
READ COMMITTED) and a Kafka cluster; the API also calls AWS Cognito (logins) and
SES (e-mail).

| Part | State | Operations | Hard behaviour | What makes it correct | Module |
|---|---|---|---|---|---|
| Event listener daemon (`event-listener/`) | committed offset and owner of each partition; one delivery in hand per process | deliver, attempt, backoff, settle, commit offset | retries sleep without a heartbeat; rebalance while an event is processed; crash between verdict and commit; commits of an old owner | no event passed without a verdict, offsets never go back, no record blocks its partition | EventListenerDaemon |
| Subscription handlers (`modules/subscription/application`) | `subscription` row, open transactions | create, update, retrieve | the event is published inside the transaction, before the commit; producer retries duplicate sends | every commit is announced; events stand in the topic in commit order | SubscriptionSync |
| Subscription listeners (`.../listeners`) | the same rows, written again from the events | created, updated | writes back a row read earlier; two topics; redelivery | the row ends as the API last committed it; the listener makes no row ahead of its request | SubscriptionSync |
| Account handlers (`modules/account`, `modules/person`) | `account`, `person`, `account_invitation` rows | create, send invitation, verify, rename, delete | e-mail and Cognito calls inside a transaction that may still fail; whole rows written back; row locks held across remote calls | one token per account, redeemed once, by the one who can sign in; a login belongs to a live account | AccountLifecycle |
| Contact details (`modules/contact-detail`) | `contact_detail` row, e-mail of the login | update, and the rows others make and delete | Cognito changed before the commit; uniqueness checked and not enforced; anybody of the subscription may update | the login e-mail is the stored one unless one of a few reasons holds; an e-mail is used once | LoginEmail |
| Membership (`*.user.is-viewer.ts`, relation tables, subscription aggregate) | relation rows, claims of tokens | link, unlink, filter every query, read the aggregate | relation rows outlive the account they name; creators see what they created; tokens outlive their account | nobody is shown another subscription; members see each other | Membership |
| Authentication (`modules/authentication`) | none here; users and tokens in Cognito | login, logout, refresh, set / forgot / confirm password, create, update, delete user | several calls to Cognito for one request, nothing undone; sessions that outlive what they were made from | no password change is undone unseen; a refusal changed nothing; a session lasts until signed out | Session |
| Requests: routes, hook, transactions, errors (`api-server/`, `shared/abstract.handler.ts`, `shared/transaction`, `shared/error`) | `context` of the manager of a request; the connection pool | check, validate, run, nested run, end, answer | the context outlives its transaction; a connection held across remote calls; answers lost at COMMIT | all or nothing; the status tells which; every request is answered | ApiRequest |
| Process (`index.ts`, `preload.ts`, `application.ts`, daemons, `shared/kafka/client`) | stages of the start; the shared producer | scan, boot, connect, listen, consume, stop | a stage that fails is only logged; the producer is in its variable before it is connected | no work without the database, nobody publishes on an unconnected producer | ServiceProcess |
| Pagination (`shared/query-connection/pagination`) | none; the client's cursor | list pages | page boundaries, page sizes that are 0 or no whole number of rows, rows that come and go between the pages and between the two statements of one | following the cursors lists every row once, or misses no more than was changed; a page says rightly whether another follows | Pagination |
| Filters (`shared/query-connection/where-filter`) | parameter names and joins of one query | filter | parameters shared by name over a query, ANDs and ORs around the view permission, NULL, joins | the answer is the visible rows the filters mean | WhereFilter |
| Mail (`shared/aws-ses`), configuration, logging | none | | | | |

How they interact: a controller makes a `TypeOrmTransactionManager`, runs one
handler with it, and maps the result. A handler's repositories use the manager's
transaction. Subscription handlers publish to Kafka from within the transaction;
the daemon of the listener process hands each record to the listeners one after
the other, and each listener opens a transaction of its own. Account handlers
call Cognito and SES from within theirs, the former through the handlers of
`modules/authentication`, which run no transaction. Nothing else connects the
parts: they meet in rows, in topics, in the Cognito user pool, in the connection
pool and in the producer of their process.

## Modules

```
AtLeastOnceDelivery          what a consumer group promises
   ^ implemented by
EventListenerDaemon   <---   EventListenerDaemonProofs
   ^ instantiated in
SubscriptionSync      <---   SubscriptionSyncProofs     handlers, topics, daemon, listeners, rows

AccountLifecycle      <---   AccountLifecycleProofs     accounts, inside the transactions
LoginEmail            <---   LoginEmailProofs           their e-mail, twice
Membership            <-+-   MembershipProofs           their subscription, whole transactions
WhereFilter           <-'                               the filters of a list of them
Pagination            <---   PaginationProofs           the pages of a list
Session               <---   SessionProofs              their logins, call by call

ApiRequest            <-+-   ApiRequestProofs           a request
ServiceProcess        <-'                               the process that serves it
```

Two proof modules extend two components each: `MembershipProofs` has what a query
answers, by permission and by filter, and `ApiRequestProofs` a request and its
process. The second component of each has names of its own for `Init`, `Next` and
`Spec` (`FilterSpec`, `ProcessSpec`); nothing is composed.

The four account modules take one system at different grain, because the state
in which a case can go wrong differs: what `AccountLifecycle` shows of a
committed deletion or creation is one step of `Membership`, the contact detail
that it leaves out is the row of `LoginEmail`, and the calls of `modules/authentication`
that are one step of both are taken apart in `Session`. What a statement or a
remote call does is left out of `ApiRequest`, which has when they happen and what
their failure does.

`MC...` modules only give constants values for TLC and define the symmetry sets.
Operators whose comment begins with "Mutant" are not part of a model: each is the
definition below it with a plausible bug, kept to show that some run notices.

### AtLeastOnceDelivery

The abstract specification: a log for each partition, the events that have a
verdict, and a position. Records are appended, settled in any order the
processes like, and the position passes an event only when it is settled, one at
a time. Three actions, no consumers, no retries.

### EventListenerDaemon

`event-listener/event-listener.daemon.ts` and `event.processor.ts`. Variables:
`log`, `committed`, `owner`, `generation` (the broker's side), `delivery` (the
`onEvent` call each process is in: which record, which attempt, which stage),
`settled` (history: the verdicts reached).
`Deliver` is KafkaJS calling `eachMessage`; `StartAttempt` and `EndAttempt` are
the loop of `processWithRetry` (line 72) with its heartbeat and backoff;
`ListenerReturns` is what `process` answers, `HeartbeatThrows` the heartbeat of a
process that has lost its partition; `CommitOffset` / `CommitRejected` is
`commit` (line 96) under the group's fencing. `Rebalance` and `Crash` may happen
at any step. Broker and KafkaJS are modelled from how this code uses them and are
marked external in the map. A record that cannot be parsed or validated is
`Poison`.

### SubscriptionSync

The API's create and update handlers, the two topics, the daemon (an INSTANCE of
`EventListenerDaemon`, whose actions carry the listeners' results) and both
listeners, at the granularity of database statements: a SELECT sees what is
committed, an UPDATE or INSERT waits for the transaction that holds the row.
`Publish` stands in the middle of the request, as in the code; a commit may fail
after it. `PublishAgain` is the duplicate a non-idempotent producer can store,
and `Abort` any failure of a request, including one reported for an event the
broker kept. `ConsumerCrash` and `GroupRebalance` interrupt a listener
transaction. A row is its name, `createdBy` and `updatedBy`; dates and the other
columns take no part in any decision.

### AccountLifecycle

Each request is one of five kinds and goes through the steps of its handler:

| Kind | Steps | Code |
|---|---|---|
| create | `Create`, `Mail`, `Commit` | `account.create.handler.ts`, `subscription.create.handler.ts` for the first account |
| resend | `Resend`, `Mail`, `Commit` | `person-account.send-invitation.handler.ts` |
| verify | `VerifyRead`, `VerifyCreateUser`, `VerifySetPassword`, `VerifyRevoke`, `Commit` | `person-account.verify.handler.ts`, `user.create.handler.ts` |
| rename | `RenameRead`, `RenameWrite`, `Commit` | `account.update-me.handler.ts`, `person.update.handler.ts` |
| delete | `DeleteRead`, `DeletePerson`, `DeleteAccount`, `DeleteUser`, `Commit` | `account.delete.handler.ts`, `user.delete.handler.ts` |

`Fail` may end any of them at any step. `login`, `mailed` and `effects` are what
the outside world keeps when a transaction rolls back. `personLock` and
`inviteLock` are the row locks a transaction holds from its UPDATE to its end; a
step that needs one is disabled until it is free. What a transaction writes is
applied at `Commit`, by `InvitationsAfter`, `AccountAfter` and `PersonAfter`;
since a handler writes each row once and never reads it back, nobody can tell.
`preserve` writes all columns of the entity that was read, which is why
`InvitationsAfter` replaces the row instead of its flag.

An invitation's token is named after the request that made it, and a password
after the request that set it, so a state says who did what. `effects` and the
field `done` are history: they are read by properties only.

### LoginEmail

One row for each account: its contact detail (e-mail, deleted or not, whose
subscription), with `login`, the e-mail Cognito has. Requests of five kinds, at
the granularity of statements and Cognito calls:

| Kind | Steps | Code |
|---|---|---|
| signUp, create | `SignUp` or `Create`, `Commit` | `subscription.create.handler.ts`, `account.create.handler.ts` |
| verify | `VerifyRead`, `VerifyCreateUser`, `Commit` | `person-account.verify.handler.ts` |
| update | `UpdateRead`, `UpdateWrite`, `UpdateTell`, `UpdateSignOut`, `Commit` | `contact-detail.update.handler.ts`, `user.update.handler.ts` |
| delete | `DeleteRead`, `DeleteWrite`, `DeleteUser`, `Commit` | `account.delete.handler.ts`, `user.delete.handler.ts` |

`Fail` ends any of them, `Free` gives up the row it holds; what Cognito was told
stays. A caller is `SignedIn` as soon as Cognito has given the account a login and its
password, before the verification commits and even if it fails; the invitation is
`Redeemed` only by the commit. `teller`, `writer` and `done` are history: who last set a login's e-mail,
who last changed a row's, and what had been committed when a request read.
`DifferenceExplained` names the cases in which the two copies differ.

### Membership

Accounts and persons with their relation rows, and every query of accounts,
persons and subscriptions with its view permission (`ListAccounts`,
`RetrieveAccount`, `RetrievePerson`, `RetrieveSubscription`). A step is a
committed transaction. A deletion takes the account out of its relation rows
(`Unlinked`: `account_id` or `person_id` becomes NULL, as `softRemove` saves the
relations it was given, which are none) and leaves the rows to the subscription,
whose `toEntity` then trips: `Throws`.

### Session

`user` is the Cognito user pool, `live` the sessions it still honours, `held`
those that clients hold. Each handler is the calls it makes, one step each, with
others in between; `CallFails` is a throttled or unreachable call, and the second
branch of `SetPasswordChange` the SDK's repetition of a call whose answer was
lost. Codes, passwords and sessions are named after the request that made them.

### ApiRequest

A route is the sequence of its controller's steps (`run`, `end`, `read`, `write`,
`call` and optional ones); all 22 routes are listed, and the listing is what a
change of a controller would change. A request goes through `Check` (hook),
`Validate`, its steps, and `Respond`. `runs` is the stack of handler runs, each
with whether it opened the transaction; `context` is the manager's field, which
is set and never reset. `Ask` and `Connect` are the pool; `InUse` counts the
connections that are out, each named by the run that opened its transaction, or
by 0 when it serves a single query. `WithError` is the way
of every error: rollback, release, error handler; `ErrorHandler` the status it
ends in.

### ServiceProcess

`stages` is the list of stages of the runnable (promises awaited together are one
stage), `pending` the promises of the current one. `Reject` is a stage that
fails: logged, and the process goes on with what runs. `producer` is the module's
variable, `GetProducer` who makes and who finds it. `Scan` runs beside all that,
since the scan is not awaited. The built code is modelled: in development mode
the pattern, which names `.js` files, matches nothing.

### Pagination

`table` holds the sort key of each row; `request` is one page request of a
client, in two steps as in `data()`: the rows, then the count. Between any two
steps others insert, delete or touch rows (a touch moves a row in an order by
`updatedAt`). `FollowCursor` and `StopWalk` are the client; `listed` and `stayed`
are the history that properties compare with.

The request schema declares `first` as a number, so a page size may be a fraction of a
row. Sizes are counted in parts of a row (`Unit` of them make one; with 10, 15 is
`first=1.5`). `Limit` is what PostgreSQL makes of the size in LIMIT, the nearest whole
number with halves away from zero; `HasNextPage` compares with the size as it was given,
as `typeorm-connection.ts:117` does. A size too large for a bigint, which PostgreSQL
refuses, is left out.

### WhereFilter

A request is a sequence of elements, an element a function from column and
operator to operand. The parameter names (`ParamKey`), the joins (`AddedJoins`) and
the WHERE clause (`Where`) are built as the code builds them, over the whole query;
`Answer` evaluates them with SQL's three values, for the rows (`Entities`) of any table,
and `Data` is the call of `data()`, once for each connection as every caller has it; that
it rewrites the keys in place (`person__lastName`, `person.lastName`) changes nothing for
that one call and is left out. `list` is the list that is asked: its columns,
what the schema offers for each, and what `_query()` joins. `Meant` is the reference:
what the filters say when read without SQL.

## Runs

| Run | Module / cfg | Shows | Bounds, and why they are enough |
|---|---|---|---|
| daemon | MCEventListenerDaemon / EventListenerDaemon | the daemon implements `AtLeastOnceDelivery`; `EveryEventPassed` | two processes, one topic, three records, the code's three retries, two crashes or rebalances (`MaxGenerations`): the old and the new owner of a partition can hold the same record, be succeeded again, and there is a next record to skip. The proofs cover several topics |
| sync_convergence | MCSubscriptionSync / SubscriptionSyncConvergence | a row with an old name has its repairing event ahead; topic order is commit order; `EventuallyConsistent` | one listener process that may die, duplicated sends, one subscription, three requests (a create and two updates at the same time), `MaxLog` 3: room for one duplicate |
| sync_faults | MCSubscriptionSync / SubscriptionSyncFaults | no silent commit, no row ahead of its request | two listener processes, two requests, all five faults, one crash or rebalance |
| account_safety | MCAccountLifecycle / AccountLifecycle | the six safety properties of accounts, invitations and logins; `EveryRequestEnds` | three accounts, three requests of any kind, from an empty database or from a verified and an invited account: a sign-up and two creations, or two verifications and a deletion, or the two requests that a circle of waits would need and a bystander |
| account_last_active | MCAccountLifecycle / AccountLifecycleLastActive | counterexample, see below | two verified accounts, two requests |
| login_email | MCLoginEmail / LoginEmail | why row and login may differ, when an e-mail is stored twice, what an overlap can bring back | two founders and one account to come, three requests, two e-mails to change to: two updates of one row, or an update, a deletion and a sign-up that takes the e-mail |
| membership | MCMembership / Membership | nobody sees another subscription, members see each other, what a subscription reads as | five accounts, two subscriptions: two of each side besides one that is deleted |
| session | MCSession / Session | password changes, refusals, resets and sessions | two accounts, three requests of nine kinds call by call, three e-mails |
| api_request | MCApiRequest / ApiRequest | the status tells what became of a request; nothing is written outside a transaction; nobody who holds a connection waits for another one; every request is answered | any two of the 22 routes, and one connection: whoever would keep one or need a second stops the other |
| service_process | MCServiceProcess / ServiceProcess | no work without the database, nobody on an unconnected producer | three requests, both modes and an unknown one |
| pagination | MCPagination / Pagination | pages fit together, damage by changes is bounded, `hasNextPage` is right, following cursors ends | three accounts, four keys (a row can go between any two), page sizes unset, -1, -0.4, 0, 0.4, 1, 1.5 and 2 (refused, rounded to zero from either side, none, whole, and a half that is rounded up), two changes (a touch counts as two). Ties are off: with equal keys the database may order two pages differently, and nothing holds |
| filters | MCWhereFilter / WhereFilter | answers are what the filters mean, and only what SQL cannot express is refused | one row with any values (rows are judged one by one), two elements of two conditions, the account list with all its operators and a list with date and array columns whose `_query()` joins nothing |

Deadlock checking is off: when requests or records are used up, or the process
has ended, a system is idle, not stuck. That nothing is stuck before is
`EveryEventPassed`, `EveryRequestEnds`, `EveryRequestAnswered` and `WalkEnds`.
`session`, `login_email`, `membership`, `service_process` and `sync_faults` use
symmetry, which the runs with liveness do not.

`TypeOK` of a component with a proof module is a theorem there. Properties that
follow from a stronger one are not checked besides it: `CommittedIsSettled`,
`CommittedNeverRegresses` and `DeliveryInv` of the daemon are theorems next to the
refinement that says more.

Fairness is weak and per actor:

- A listener process goes on with the record it holds and is given the next one
  (KafkaJS polls in a loop). Crashes and rebalances have no fairness and are
  bounded, because an owner that always dies gets nothing done in the code either.
- A started request takes its next step when it can: every `await` in a handler
  returns or throws. In `ApiRequest` the same holds for a step of a request; the
  pool serves its queue in order. In `EventuallyConsistent` listeners do not fail:
  what they give up after three retries is lost.
- In `Pagination` statements return, and the client goes on while there is a next
  page; others may change rows or not. `WalkEnds` needs that changes stop, which the
  bound `MaxChanges` brings about: rows that are added faster than pages are read keep
  a client going.

Nothing is assumed of who starts requests, of failures or of sign-ins.

## Proofs

Each proof module proves an inductive invariant for all values of the constants,
under the assumptions named in the component's module, and derives the properties
from it. All of them go by one case for each action; frame lemmas say once what a
kind of step leaves alone.

**EventListenerDaemonProofs** assumes that there is a process, that poison
records are records, that there is at least one attempt and that the bounds are
numbers. The properties are not inductive: a commit is harmless only because the
delivery it comes from was read at the committed offset of the same generation.
The invariant adds where deliveries in flight are: a current one sits at the
committed offset of a partition its process owns; a stale one belongs to an older
generation and is not ahead. From it follow `TypeCorrect`, `NothingSkipped`,
`DeliveriesAnchored`, `NoRegress`, and `AtLeastOnce`: initial states map to
initial states and every step to a step or a stutter of `AtLeastOnceDelivery`.

**AccountLifecycleProofs** assumes that the accounts present at the start are
accounts, that account and request names differ, and that the markers `Nobody`
and `NoLogin` are no values. The invariant has five parts besides types:

- `InvitationInv`: one invitation per account in the database, undeleted while
  the account lives, its token mailed and made by a request that was sent;
- `CreateInv`: an open creation is the only one of its account, which is still
  absent, and ready only after its e-mail;
- `ReaderInv`: what resend, verify and delete have read stays true: the account
  exists, and the token of a verification is still the token of its account.
  Needed because `InvitationsAfter` replaces rows by token;
- `EffectInv`: Cognito changes come from requests that were sent;
- `LoginInv`: for an account no deletion reached in Cognito, a verification that
  made the user is the one whose password it has. This is what serialises
  verifications: Cognito's refusal of a second user, not the database.

Results: `TypeCorrect`, `OneInvitation`, `EveryoneMailed`, `RedeemerSignsIn`, and
`OneRedeemer` (no two verifications of an account commit unless a deletion reached
Cognito in between).

The three properties about overlaps compare what a request had read with what was
committed since, which those parts do not mention. `HInv` does, and is inductive
together with them (`HistoryInvariant`):

- `DoneInv`, `DeletedInv`, `UsedInv`: what a request knows to be committed is, and a
  deletion and a used invitation are for good;
- `VerifierInv`, `OwnerInv`: a login has the password of a verification of its account
  that reached Cognito, or the first one. So a login without a committed
  verification names the request that is to blame (`TokenRedeemable`);
- `DeleteInv`: a deletion that read the account after a verification had committed has
  seen the used invitation, so it calls Cognito, and after that call the login that
  was there when it read is gone (`OrphanLogin`);
- `RenameInv`, `VerifyInv`, `PersonInv`, `VisibleInv`: a rename that has read after a
  deletion could only do so because another one had brought the person back, and
  so on to one that overlapped (`OverlapRevives`).

`LockInv` is inductive with the types alone: a row is locked by a request between the
statement that writes it and its end (`LocksHeld`). A deletion takes the person and
then the invitation, the others one of the two, so a request that waits waits for one
that can go on, or for one that waits for such a one (`NoLockCircle`). This is the part
of `EveryRequestEnds` that is not about fairness.

**LoginEmailProofs** has the longest argument, because `LoginEmailExplained`
relates two copies through history. `OpenInv` says who holds a row across a
Cognito call; `ReadInv` what a request has read and what had been committed then
(`done`); `CreateInv` that a creation is the only one of its account; `RowInv` that the
e-mail in a row is that of its writer and that a sign-up saw none like its own;
`TellerInv` that a login has the e-mail its last teller gave it, and that who was
ever told one has a row; `TellInv` that
between telling Cognito and the commit no other change of the own e-mail comes in;
`ExplainedInv` is the property in the form that every step keeps. The row lock is
what makes it inductive. Steps are
sorted into those that begin a request, those that move one, and commits. From the
invariant follow `TypeCorrect`, `Explained`, `Overlap` and, as a property of steps,
`OverlapReverts`; `OverlapRevives` adds `ReviveInv` on top: a detail that was
deleted and is live has a committed update that read it before.

**MembershipProofs**: `IInv` is types, `RowInv` (rows have creators in their own
subscription), `ClaimInv` (a token names the subscription its account was made
for), `RelationInv` (a relation row ties a live row to its own subscription, or is
left over from a deletion) and `LinkInv` (a live row is tied by both, and a
deletion leaves a trace). The last two are why what a query answers can be told
from the rows alone.
Results: `TypeCorrect`, `OwnOnly`, `SeeEachOther`, `Readable`.

The second part of the module is about `WhereFilter`. Its assumption `SchemaAssumption`
is what the request schemas (`filter/plugins/typebox`) and the type of the filters let
through: the operators of a column are those of one of the schemas, a list of values comes with the
operators that take one (`in`, `notIn`, `containsAll`, `containsAny`) and with no other,
and null only with `eq` and `not`. `AnswerAssumption` keeps the markers of no answer and
of an error apart from the answers. `FilterInv` says that the answer, once there, is the
query's to the filters of the request. The rest is one lemma for each level of
the clause. `ConditionMeans`: a condition is TRUE, not merely not FALSE, exactly if the
row satisfies it; a case for each operator, and NULL on either side. `ParameterOwn`:
the value found under a condition's parameter name is its own. `BracketMeans` and
`WhereMeans`: AND and OR in three values are TRUE exactly if the meanings are, and so is
the view permission in front. `AnswerMeans`: an answer that is no error had all its
joins, and an error has a condition that cannot be written. Results: `FilterInvariant`
and `Answered` for `AnswersWhatIsMeant`. They need no induction over the filters, because the clause is built
from sets of conditions and not by a fold: a parameter's name is looked up in all of
the query, and what an element is worth does not depend on the order of its conditions.

**PaginationProofs** assumes that the accounts of a subscription are finitely many, which
a table of a database is, and that the marker `Unset` is no cursor (`AccountsAssumption`,
`CursorAssumption`). Of page sizes it assumes that each is an integral number of parts of
a row, for any `Unit`, so every decimal number is one (`ParameterAssumption`). `Rounding`
and `LimitFacts` say how a size and the limit it is rounded to compare with a number of
rows, the only place where fractions matter: the rest is about whole rows. A cursor is an offset, so what a client misses or sees twice is a
matter of where rows stand in the list. The rank of a row is the number of rows before
it. The lemmas up to `LastPage` are about a table that stands still: no two rows of a
list without equal keys have the same rank (`RankInjective`), the i-th of a sorted
listing has i - 1 rows before it (`ListingRank`), so a page holds the rows whose ranks
it covers (`PageMembers`). `RankMoves` is about two tables: a change of one row moves the
rank of any other by one at most. As ranks differ, it moves one row at most over the
offset the client has reached: a deletion moves it below, where the walk does not come any
more, an insert to the offset or above, where it is listed again.

The invariant is types, `HasNextPageIsRight` and three parts:

- `WalkInv`: rows that were there all along, stand below the offset and were not seen
  are no more than the deletions; rows seen twice, or seen and at the offset or above,
  no more than the inserts; and once the last page is fetched, the rows not seen at all
  are no more than the deletions;
- `RequestInv`: what the request of each stage holds: the end cursor of an answer is that of
  its page, and nothing is listed before the walk begins;
- `CountInv`, for the time between the two statements: the page is one of a table of
  some `n` rows, and there are now no more than `n` and the changes since, or `n` if
  nothing came or went. That is what `hasNextPage` is compared with.

Results: `InductiveInvariant`, `TypeCorrect`, `HasNextPageRight` and `DamageBounded`.
Equal keys are out of `DamageBounded` (`TotalOrder`), as they are out of the property, and so are the
requests that `HasNextPageIsRight` names, for which `hasNextPage` is wrong in the code.

**SessionProofs** assumes in addition that the e-mails of the accounts there are at
the start differ, since Cognito has them as aliases, and that the marker `NoUser` is no
user. The step of a request is about one account, so one lemma (`Step`) says what it
does to the requests, that user and the sessions, and every part is shown from it:

- `LiveInv`, `ClaimsInv`, `HeldInv`: live sessions are of users that may sign in, and an
  ID token names its user's account. An update writes the attributes of an ID token
  into the user, so this is inductive only with all three (`TokensNameAccounts`);
- `AliasInv`, `ForgotInv`: an e-mail is one user's, so the second lookup of a forgotten
  password finds the first one's user unless that was changed (`ResetReaches`);
- `PcInv`: at which steps a request has changed its user (`RefusedUnchanged`);
- `PasswordInv`, `SpentInv`, `OnceInv`: every password but the first is of the request
  that set it, so one that was changed is never the user's again, and no two changes
  start from it (`OneChange`). Nothing in the database or the handler serialises
  them; that Cognito is given the old password again does;
- `SessionContinues` is inductive with these (`SessionsContinue`).

**SubscriptionSyncProofs** assumes what EventListenerDaemon does, that the markers
`NoOne`, `NoName`, `NoRequest` and `NoRow` are no values, and nothing of the faults:
`IInv` is inductive under all of them. A step is one of a request or one of the
listeners' side (`StepCases`), or, seen from the rows, one of five kinds (`FiveKinds`);
a lemma for each (its View) says what it does.

- `ImplementsDaemon`: a step of the handlers and listeners is one of
  `EventListenerDaemon` or leaves its variables alone. So its invariants
  (`DeliveryInv`, `CommittedIsSettled`) hold here, and `IInv` uses them.
- `LogInv`, `SentInv`: an event in a topic is that of its request, which has come as
  far as publishing and has kept its entity since; a request that has, sent one.
  With `CommittedInv`: `CommitsAnnounced`.
- `RequestInv`, `LockInv`: who has written a row holds it until the transaction ends.
  This is what orders events that are sent before their commit: `OrderInv` says that
  the request that holds a row has sent its events after those of the requests that
  committed before it. From it follows `CommitOrder`.
- `CommitsInv`, `CreateInv`, `RowInv`: the first commit of a row is its creation, and
  an id is created once.
- `WorkInv`: a listener works on the event of its delivery. The insert of the created
  listener waits for the lock of the request, so if it finds no row the request has
  rolled back (`NoOvertaking`).

`StaleIsPending` has the hypothesis `Quiet`: one listener process, no request that rolls
back after publishing, and no listener that fails for a reason other than what it
finds. Crashes, rebalances and duplicated sends are allowed. None of the three can be
dropped: TLC finds the property violated without each. A second process can read the other
topic and its write come in between SELECT and UPDATE of `preserveNew`; an update event
of a request that rolled back puts its name into the row, and no event is left that
would take it out; a listener that fails as often as `MaxRetries` gives up the event
that was to repair the row. `QInv` is inductive besides `IInv` then:
`OffsetInv` (the delivery in hand is at the offset), `KeptInv` (no event of a request that
was aborted), `AheadInv` (while the created listener works on a row no update of it has
been passed) and `PendingInv`, the property together with the offset that a settled
delivery is about to commit.

**ApiRequestProofs** assumes that the routes offered are among the 22, and that the pool
has a connection. `Good` says of a request under way:

- its steps have a plan (`Planned`): how deep its runs are nested after each of them, down to 0 at
  the end, with writes inside a run, and either the transaction ends with the last
  step (`EndsOnce`) or the request only reads (`Rereads`). `EveryRoute` finds the plan of
  each route, and `PlanGoesOn` that a step leaves one;
- before its transaction it has written nothing (`Before`), in it the first run alone
  has a connection and what was written is in the runs there are (`Inside`), and
  after it everything is committed and nothing is left to do, unless it only reads
  (`After`). So a request fails before the COMMIT, with nothing committed, or after it
  with the 500 that says so: `AnswersTell`. `ReadsOutside` is `After`.

`QueueInv` says that who waits needs a connection, which `Connect` relies on, and
`PoolInv` that those in use are no more than the pool has: a step adds one, at `Connect`,
or none (`StepKinds`). `TypeCorrect` includes that limit. A change of a route is a change
of `EveryRoute`: a controller whose steps have no plan fails there.

`LendInv`, inductive with `IInv`, says that a connection outside a transaction is for
the read that comes next. With it whoever holds a connection has a step to take that
needs no other (`NoHoldAndWait`), because nested runs join the context of their manager.
So with any number of requests and any pool, when some wait there is a free connection
or a request outside the queue that has one and goes on (`PoolFree`, for
`PoolNeverStuck`): the part of
`EveryRequestAnswered` that is not about fairness.

The second part is about `ServiceProcess`. Its properties speak of what runs, and what
makes them true is the order of the start. `ProcessInv` says for each stage the start
can have reached what it awaits and what is connected by then, and that requests are
there only after the last. Results: `ProcessInvariant`, `ProcessTypeCorrect`,
`NobodyUnconnected`, `DatabaseFirst`.

Only model-checked is what is temporal under fairness: `EveryEventPassed`,
`EventuallyConsistent`, `EveryRequestEnds`, `EveryRequestAnswered` and `WalkEnds`. The
prover has no rule for `WF` and `ENABLED` here. Every invariant and every property of
steps that a run checks, and the refinement of `AtLeastOnceDelivery`, is a theorem.

## Disagreements between the code and its documents

- **The last active account can be removed** (run `account_last_active`). The
  delete handler checks only that one does not delete oneself. `src/README.md:32`
  says that `removeAccount()` prevents it; nothing calls it.

Seen while modelling, with no run of their own because a passing property states
what holds instead:

- An event can announce what is rolled back: the handlers publish before the
  commit (`subscription.update.handler.ts:42`), and the listener applies it.
  `plans/refactor-kafka-message-to-event-naming.md:22` calls events "completed
  business facts". `EveryCommitAnnounced` is the other side: no commit is silent.
- A deletion can be taken back: verification, rename and contact-detail update
  write `deleted_at` back as they read it. `account.delete.controller.test.ts`
  (lines 117 to 146) asserts that nothing active is left. `OnlyOverlapRevives`, in
  `AccountLifecycle` and `LoginEmail`, says that it takes an overlap.
- `hasNextPage` is wrong for page sizes that LIMIT does not take as they are
  (`account.list.request.ts:44` admits any number, `typeorm-connection.ts:117`
  compares with it unrounded). With `first=0` the page holds every row, as TypeORM
  writes no LIMIT, and `hasNextPage` is still true. With `first=1.5` and two rows both
  are shown and another page, which is empty, is announced. With `first=0.4` every page
  is empty and has no cursor, and a client that goes on starts again for ever. These are
  the exceptions in `HasNextPageIsRight` and `WalkEnds`.
- `user.update.handler.ts:41` promises not to invalidate the refresh token; the
  sign-out it sends revokes it. `SessionContinues` lists the update among what ends
  a session.
- `GET /accounts/me` runs two handlers on one manager, whose context is that of the
  first, ended transaction: the second query throws and the request ends with 500.
  `abstract.handler.ts:6` says "Function runs in one single database transaction".
  `OnlyReadsOutside` says that no route loses a write or a call that way.
- `src/README.md` (lines 120, 144, 147) documents the modes `http-server` and
  `consumer`; `index.ts` knows `api` and `event`, and a process of another mode
  ends, having started nothing.
- `preload.ts:14` says that migrations are not scanned; the pattern excludes the
  tests only.

Limits the passing properties make explicit, and no document contradicts:

- `NoOrphanLogin`: a login can outlive its account if its verification overlapped
  the deletion or failed half-way. `TokenIsRedeemable`: after a verification that
  failed behind the Cognito call the token is valid and useless.
- `LoginEmailExplained`: any account of a subscription may update any contact
  detail of it, and the login that gets the new e-mail is the caller's.
- `ReadableUntilDeletion`: after the first deletion of an account its subscription
  cannot be read any more.
- `StaleOnlyWhilePending` and `EventuallyConsistent` hold with one listener
  process. With two, the created and the updated topic can be read by different
  processes, and an update that falls between the SELECT and the UPDATE of
  `preserveNew` is reverted for good.
- After three failed attempts, about three seconds, an event is given up:
  `EveryEventPassed` needs that, and a longer database outage loses events by it.
- `AnswersWhatIsMeant`: an empty `in` list and a pattern on a uuid column end in an
  error; a relation only the filters join drops rows without it. Parameter names run together from ten
  columns on, which no schema has; `%` and `_` in a pattern are not escaped, which
  the model's values leave out.
- The health server of a listener process answers OK whatever became of its
  consumer, and stopping cuts requests under way.

## Not modelled, and the plan

- Mail: a wrapper around one call and its texts; that a mail went out, or failed,
  is in `AccountLifecycle` and `ApiRequest`.
- HTTP: the mapping of results to responses succeeds or throws, field by field is
  left out; so are texts of errors and the logger.
- Configuration is read once and static. Of the data source `ServiceProcess` has
  when it connects; of the migration every model has its tables.
- `removeAccount`, `getActiveAccounts` and `findAccount` of the subscription, the
  commands that enable and disable a Cognito user, and `Application.stop` are
  called by nothing. The verification of a token's signature is a library's.
- Expiry of tokens, and time in general.

All safety properties of the modules with state are proved, each for every value of
the constants. What is left:

| Module | To prove | By |
|---|---|---|
| SubscriptionSync | weaker forms of `Quiet`: several processes as long as one owns both topics; rolled-back events as long as a commit of the row follows | `PendingInv` with the owner, and with the last event of the row instead of the last commit |
| AccountLifecycle, LoginEmail | that the deletion of an account in one is a step of the deletion in the other | a module that composes them over the common rows |
| Pagination | the damage when keys are equal, for orders the database breaks ties in the same way for every page | ranks by key and id |
