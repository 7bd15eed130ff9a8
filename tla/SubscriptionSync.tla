-------------------------- MODULE SubscriptionSync --------------------------
(***************************************************************************)
(* The subscription row as the two processes of the service share it.      *)
(* API requests create and update a subscription in a database transaction *)
(* and publish an event before that transaction commits; the event         *)
(* listener process consumes those events and writes the same row, with    *)
(* separate autocommitted statements.  Composes EventListenerDaemon (one   *)
(* partition for each topic, as compose.yaml creates them) with the two    *)
(* handlers and the two listeners.                                         *)
(*                                                                         *)
(* The database is PostgreSQL at READ COMMITTED: a statement sees committed *)
(* rows, and an INSERT or UPDATE waits while another transaction holds the *)
(* key or the row.  Dates never tell two states apart here (preserve       *)
(* writes updatedAt back unchanged, so updatedAt never moves) and are left *)
(* out, as are the rows a create makes in other tables.                    *)
(***************************************************************************)
EXTENDS Integers, Sequences, FiniteSets

CONSTANTS Consumers, MaxRetries, MaxLog, MaxGenerations,
          Requests,   \* POST and PUT /subscriptions requests, each run once
          Subs,       \* subscription ids
          Names,      \* subscription names
          Users,      \* account ids of the callers
          UserOf,     \* request -> the caller
          NoOne,      \* a NULL createdBy or updatedBy
          System,     \* the mapper's 'system'
          NoName,     \* a PUT whose body has no name
          NoRow,      \* no row with this id
          NoRequest,  \* nobody holds the row
          Faults      \* which of the faults below the instance exercises

AllFaults == {"abortAfterPublish", "producerRetry", "listenerError",
              "crash", "rebalance"}

ASSUME ConsumersAssumption == Consumers # {}
ASSUME RetriesAssumption == MaxRetries \in Nat \ {0}
ASSUME BoundsAssumption == MaxLog \in Nat /\ MaxGenerations \in Nat
ASSUME UserOfAssumption == UserOf \in [Requests -> Users]
ASSUME FaultsAssumption == Faults \subseteq AllFaults
ASSUME MarkersAssumption == /\ NoOne \notin Users \cup Subs
                            /\ NoName \notin Names
                            /\ NoRequest \notin Requests

VARIABLES log, committed, owner, generation, delivery, settled,
          row,      \* id -> committed row of the subscription table
          lock,     \* id -> request whose open transaction holds the row
          req,      \* request -> how far its handler is
          work,     \* consumer -> how far its listener's execute is
          commits   \* history: id -> requests in commit order

daemon == <<log, committed, owner, generation, delivery, settled>>
api == <<lock, req, commits>>
vars == <<log, committed, owner, generation, delivery, settled,
          row, lock, req, work, commits>>
-----------------------------------------------------------------------------
Topics == {"create", "update"}

Row == [name: Names, createdBy: Subs \cup {NoOne}, updatedBy: Users \cup {NoOne}]

ASSUME NoRowAssumption == NoRow \notin Row

(* from is not in the message: it names the request for the properties.    *)
Events == [type: Topics, id: Subs, name: Names, from: Requests,
           createdBy: Subs \cup {NoOne, System},
           updatedBy: Users \cup {NoOne, System}]

D == INSTANCE EventListenerDaemon
       WITH Partitions <- Topics, Messages <- Events, Poison <- {}

Asked == [pc: {"read", "written", "published", "committed", "aborted"},
          kind: Topics, id: Subs, entity: Row]
NotAsked == [pc |-> "idle"]

Work == [at: {"select", "insert"}]
          \cup [at: {"resave"}, seen: Names]
          \cup [at: {"update"}, entity: Row]
NoWork == [at |-> "start"]

OrSystem(who) == IF who = NoOne THEN System ELSE who

(* Mutant: the update event is mapped before the entity is updated.        *)
EventOfOldRow(r) ==
    LET e == req[r].entity
        old == row[req[r].id]
    IN  [type |-> req[r].kind, id |-> req[r].id, from |-> r,
         name |-> IF old = NoRow THEN e.name ELSE old.name,
         createdBy |-> IF req[r].kind = "create" THEN e.createdBy
                                                 ELSE OrSystem(e.createdBy),
         updatedBy |-> IF req[r].kind = "create" THEN e.updatedBy
                                                 ELSE OrSystem(e.updatedBy)]

(* toCreatedEvent and toUpdatedEvent of the event mapper.                  *)
EventOf(r) ==
    LET e == req[r].entity
    IN  [type |-> req[r].kind, id |-> req[r].id, name |-> e.name, from |-> r,
         createdBy |-> IF req[r].kind = "create" THEN e.createdBy
                                                 ELSE OrSystem(e.createdBy),
         updatedBy |-> IF req[r].kind = "create" THEN e.updatedBy
                                                 ELSE OrSystem(e.updatedBy)]

(* What preserve writes: the whole row, with createdBy set to the id.      *)
Preserved(id, entity) == [entity EXCEPT !.createdBy = id]

(* Mutant: a PUT without a name clears it.                                 *)
UpdatedClearing(entity, name, user) ==
    [entity EXCEPT !.name = name, !.updatedBy = user]

(* SubscriptionEntity.update.                                              *)
Updated(entity, name, user) ==
    [entity EXCEPT !.name = IF name = NoName THEN @ ELSE name,
                   !.updatedBy = user]

(* The row a request leaves if its transaction commits.                    *)
RowOf(r) == IF req[r].kind = "create" THEN req[r].entity
                                      ELSE Preserved(req[r].id, req[r].entity)

IsCreated(s) == commits[s] # << >>
-----------------------------------------------------------------------------
Init == /\ D!Init
        /\ row = [s \in Subs |-> NoRow]
        /\ lock = [s \in Subs |-> NoRequest]
        /\ req = [r \in Requests |-> NotAsked]
        /\ work = [c \in Consumers |-> NoWork]
        /\ commits = [s \in Subs |-> << >>]

(* SubscriptionCreateHandler up to the e-mail: the row is inserted under a *)
(* fresh id in an open transaction.  preserveNew gets no user.             *)
CreateInsert(r, s, name) ==
    /\ req[r] = NotAsked
    /\ \A q \in Requests : req[q] # NotAsked => req[q].id # s
    /\ lock' = [lock EXCEPT ![s] = r]
    /\ req' = [req EXCEPT ![r] =
                 [pc |-> "written", kind |-> "create", id |-> s,
                  entity |-> [name |-> name, createdBy |-> NoOne,
                              updatedBy |-> NoOne]]]
    /\ UNCHANGED <<daemon, row, work, commits>>

(* SubscriptionUpdateHandler reads the row and updates the entity.  The    *)
(* view permission wants a caller whose token names the subscription, and  *)
(* only the account of a committed create can have one; anyone else gets   *)
(* NOT_FOUND, which changes nothing.                                       *)
UpdateRead(r, s, name) ==
    /\ req[r] = NotAsked
    /\ IsCreated(s)
    /\ req' = [req EXCEPT ![r] =
                 [pc |-> "read", kind |-> "update", id |-> s,
                  entity |-> Updated(row[s], name, UserOf[r])]]
    /\ UNCHANGED <<daemon, row, lock, work, commits>>

(* Mutant: two transactions hold the row at once.                          *)
UpdateWriteNoWait(r) ==
    /\ req[r].pc = "read"
    /\ lock' = [lock EXCEPT ![req[r].id] = r]
    /\ req' = [req EXCEPT ![r].pc = "written"]
    /\ UNCHANGED <<daemon, row, work, commits>>

(* preserve: the UPDATE waits for the row and then holds it.               *)
UpdateWrite(r) ==
    /\ req[r].pc = "read"
    /\ lock[req[r].id] = NoRequest
    /\ lock' = [lock EXCEPT ![req[r].id] = r]
    /\ req' = [req EXCEPT ![r].pc = "written"]
    /\ UNCHANGED <<daemon, row, work, commits>>

(* Mutant: the error of a failed send is swallowed.                        *)
PublishUnawaited(r) ==
    /\ req[r].pc = "written"
    /\ D!Produce(req[r].kind, EventOf(r)) \/ UNCHANGED daemon
    /\ req' = [req EXCEPT ![r].pc = "published"]
    /\ UNCHANGED <<row, lock, work, commits>>

(* eventProducer.publish, awaited inside the transaction.                  *)
Publish(r) ==
    /\ req[r].pc = "written"
    /\ D!Produce(req[r].kind, EventOf(r))
    /\ req' = [req EXCEPT ![r].pc = "published"]
    /\ UNCHANGED <<row, lock, work, commits>>

(* The producer is not idempotent: a lost acknowledgement makes it append  *)
(* the event once more before send returns.                                *)
PublishAgain(r) ==
    /\ "producerRetry" \in Faults
    /\ req[r].pc = "published"
    /\ D!Produce(req[r].kind, EventOf(r))
    /\ UNCHANGED <<row, lock, req, work, commits>>

Release(r) ==
    lock' = [lock EXCEPT ![req[r].id] = IF @ = r THEN NoRequest ELSE @]

(* The handler returned: TypeORM commits.                                  *)
Commit(r) ==
    /\ req[r].pc = "published"
    /\ row' = [row EXCEPT ![req[r].id] = RowOf(r)]
    /\ commits' = [commits EXCEPT ![req[r].id] = Append(@, r)]
    /\ req' = [req EXCEPT ![r].pc = "committed"]
    /\ Release(r)
    /\ UNCHANGED <<daemon, work>>

(* SES, Kafka or the database failed, or the API process died: rollback.   *)
(* After publish: send threw although the broker has the event, or the     *)
(* commit failed.                                                          *)
Abort(r) ==
    /\ req[r].pc \in {"read", "written"}
         \cup (IF "abortAfterPublish" \in Faults THEN {"published"} ELSE {})
    /\ req' = [req EXCEPT ![r].pc = "aborted"]
    /\ Release(r)
    /\ UNCHANGED <<daemon, row, work, commits>>
-----------------------------------------------------------------------------
Listening(c, type) == /\ delivery[c].stage = "listening"
                      /\ D!Event(c).type = type

EventRow(c) == row[D!Event(c).id]

(* execute returned, or threw: the attempt is over.                        *)
Return(c, result) == /\ D!EndAttempt(c, result)
                     /\ work' = [work EXCEPT ![c] = NoWork]

(* A statement went through; the COMMIT of the transaction around execute, *)
(* which holds none of its statements, can still fail.                     *)
WriteResults == {"handled"} \cup
                  (IF "listenerError" \in Faults THEN {"retryable"} ELSE {})

Proceed(c, w) == /\ work' = [work EXCEPT ![c] = w]
                 /\ UNCHANGED daemon

(* SubscriptionCreatedListener: getOneWithRelations.                       *)
CreatedRead(c) ==
    /\ Listening(c, "create")
    /\ work[c] = NoWork
    /\ \/ EventRow(c) = NoRow /\ Proceed(c, [at |-> "select"])
       \/ EventRow(c) # NoRow /\ Return(c, "handled")
    /\ UNCHANGED <<row, api>>

(* preserveNew is TypeORM's save: with an id it first selects the row.     *)
CreatedSelect(c) ==
    /\ work[c].at = "select"
    /\ Proceed(c, IF EventRow(c) = NoRow
                  THEN [at |-> "insert"]
                  ELSE [at |-> "resave", seen |-> EventRow(c).name])
    /\ UNCHANGED <<row, api>>

(* Mutant: the INSERT does not wait for the open transaction.              *)
CreatedInsertNoWait(c) ==
    /\ work[c].at = "insert"
    /\ EventRow(c) = NoRow
    /\ row' = [row EXCEPT ![D!Event(c).id] =
                 [name |-> D!Event(c).name, createdBy |-> NoOne,
                  updatedBy |-> NoOne]]
    /\ \E result \in WriteResults : Return(c, result)
    /\ UNCHANGED api

(* The INSERT waits for an open transaction on the key and then finds it   *)
(* free or violates the primary key, which is a retryable error.           *)
CreatedInsert(c) ==
    /\ work[c].at = "insert"
    /\ lock[D!Event(c).id] = NoRequest
    /\ \/ /\ EventRow(c) = NoRow
          /\ row' = [row EXCEPT ![D!Event(c).id] =
                       [name |-> D!Event(c).name, createdBy |-> NoOne,
                        updatedBy |-> NoOne]]
          /\ \E result \in WriteResults : Return(c, result)
       \/ /\ EventRow(c) # NoRow
          /\ Return(c, "retryable")
          /\ UNCHANGED row
    /\ UNCHANGED api

(* The save found a row: it updates the columns that differed from what it *)
(* selected, so the name if it was another one by then.                    *)
CreatedResave(c) ==
    /\ work[c].at = "resave"
    /\ lock[D!Event(c).id] = NoRequest
    /\ row' = IF work[c].seen = D!Event(c).name THEN row
              ELSE [row EXCEPT ![D!Event(c).id].name = D!Event(c).name]
    /\ \E result \in WriteResults : Return(c, result)
    /\ UNCHANGED api

(* Mutant: the name is left out of the comparison.                         *)
IsAuthorReflected(existing, event) ==
    /\ existing.createdBy = event.createdBy
    /\ existing.updatedBy = event.updatedBy

(* isUpdateReflected of SubscriptionUpdatedListener.                       *)
IsUpdateReflected(existing, event) ==
    /\ existing.name = event.name
    /\ existing.createdBy = event.createdBy
    /\ existing.updatedBy = event.updatedBy

UpdatedRead(c) ==
    /\ Listening(c, "update")
    /\ work[c] = NoWork
    /\ LET event == D!Event(c)
           existing == EventRow(c)
       IN  \/ /\ existing = NoRow \/ IsUpdateReflected(existing, event)
              /\ Return(c, "handled")
           \/ /\ existing # NoRow /\ ~IsUpdateReflected(existing, event)
              /\ Proceed(c, [at |-> "update",
                             entity |-> Preserved(event.id,
                                Updated(existing, event.name,
                                        event.updatedBy))])
    /\ UNCHANGED <<row, api>>

(* preserve outside any transaction: waits for the row, then overwrites    *)
(* all of it with what was read before the wait plus the event.            *)
UpdatedWrite(c) ==
    /\ work[c].at = "update"
    /\ lock[D!Event(c).id] = NoRequest
    /\ row' = [row EXCEPT ![D!Event(c).id] = work[c].entity]
    /\ \E result \in WriteResults : Return(c, result)
    /\ UNCHANGED api

(* The database fails inside execute.                                      *)
ListenerError(c) ==
    /\ "listenerError" \in Faults
    /\ Return(c, "retryable")
    /\ UNCHANGED <<row, api>>

ListenerStep(c) == \/ CreatedRead(c)
                   \/ CreatedSelect(c)
                   \/ CreatedInsert(c)
                   \/ CreatedResave(c)
                   \/ UpdatedRead(c)
                   \/ UpdatedWrite(c)
                   \/ ListenerError(c)

(* What the daemon does around a listener's run.                           *)
DaemonStep(c) == /\ \/ \E t \in Topics : D!Deliver(c, t)
                    \/ D!StartAttempt(c)
                    \/ D!HeartbeatThrows(c)
                    \/ D!CommitOffset(c)
                    \/ D!CommitRejected(c)
                 /\ UNCHANGED <<row, api, work>>

(* A consumer's statement dies with it; one that reaches the database late *)
(* is what a stale delivery after a rebalance does.                        *)
ConsumerCrash(c) == /\ "crash" \in Faults
                    /\ D!Crash(c)
                    /\ work' = [work EXCEPT ![c] = NoWork]
                    /\ UNCHANGED <<row, api>>

GroupRebalance == /\ "rebalance" \in Faults
                  /\ D!Rebalance
                  /\ UNCHANGED <<row, api, work>>

RequestStep(r) == UpdateWrite(r) \/ Publish(r) \/ Commit(r) \/ Abort(r)

Next == \/ \E r \in Requests, s \in Subs, n \in Names : CreateInsert(r, s, n)
        \/ \E r \in Requests, s \in Subs, n \in Names \cup {NoName} :
              UpdateRead(r, s, n)
        \/ \E r \in Requests : RequestStep(r) \/ PublishAgain(r)
        \/ \E c \in Consumers : ListenerStep(c) \/ DaemonStep(c)
        \/ \E c \in Consumers : ConsumerCrash(c)
        \/ GroupRebalance

Spec == Init /\ [][Next]_vars

(* A started request ends (every await in it has a timeout) and consumer   *)
(* processes keep running; nobody has to send a request.                   *)
FairSpec == /\ Spec
            /\ \A r \in Requests : WF_vars(RequestStep(r))
            /\ \A c \in Consumers : WF_vars(ListenerStep(c) \/ DaemonStep(c))
-----------------------------------------------------------------------------
(* Types of the state.                                                     *)
TypeOK == /\ D!TypeOK
          /\ row \in [Subs -> Row \cup {NoRow}]
          /\ lock \in [Subs -> Requests \cup {NoRequest}]
          /\ req \in [Requests -> Asked \cup {NotAsked}]
          /\ work \in [Consumers -> Work \cup {NoWork}]
          /\ commits \in [Subs -> Seq(Requests)]

SentBy(r) == {o \in DOMAIN log[req[r].kind] : log[req[r].kind][o].from = r}

(* No committed create or update is silent: publish is awaited before the  *)
(* commit, so whatever fails, a committed row change has its event, with   *)
(* the name that was committed, in the topic.                              *)
EveryCommitAnnounced ==
    \A r \in Requests : req[r].pc = "committed" =>
        \E o \in SentBy(r) : log[req[r].kind][o] =
            [EventOf(r) EXCEPT !.name = RowOf(r).name]

(* Events of one subscription's updates are in the topic in the order the  *)
(* updates committed, also when the requests run at the same time: each    *)
(* publishes while it holds the row.  Without this replaying the topic     *)
(* could not end in the latest name.                                       *)
LogOrderIsCommitOrder ==
    \A s \in Subs : \A i, j \in DOMAIN commits[s] :
        LET r == commits[s][i]
            q == commits[s][j]
        IN  i < j /\ req[r].kind = req[q].kind
              => \A a \in SentBy(r), b \in SentBy(q) : a < b

(* The created listener never gets in front of the request it echoes: a    *)
(* row the API has not committed exists only if that request was rolled    *)
(* back after publishing (so no commit can fail on a row the consumer      *)
(* made).                                                                  *)
ConsumerNeverOvertakesCreate ==
    \A s \in Subs : row[s] # NoRow /\ ~IsCreated(s) =>
        \E r \in Requests : /\ req[r].pc = "aborted"
                            /\ req[r].kind = "create"
                            /\ req[r].id = s

LatestRequest(s) == commits[s][Len(commits[s])]
LatestName(s) == RowOf(LatestRequest(s)).name

(* A consumer that replays older events over a newer name is repaired by   *)
(* the newer event: while the row shows another name than the one last     *)
(* committed through the API, the event of that commit is still ahead of   *)
(* the committed offset.                                                   *)
StaleOnlyWhilePending ==
    \A s \in Subs : IsCreated(s) /\ row[s].name # LatestName(s) =>
        LET t == req[LatestRequest(s)].kind
        IN  \E o \in SentBy(LatestRequest(s)) : o > committed[t]

(* When requests stop, every subscription ends with the name last          *)
(* committed through the API.                                              *)
EventuallyConsistent ==
    \A s \in Subs : <>[](IsCreated(s) => row[s].name = LatestName(s))
=============================================================================
