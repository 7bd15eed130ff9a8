------------------------ MODULE SubscriptionSyncProofs ------------------------
(***************************************************************************)
(* Theorems about SubscriptionSync for any requests, subscriptions, users, *)
(* names and any number of listener processes.                             *)
(*                                                                         *)
(* IInv is inductive under every fault of the model.  It says what the     *)
(* topics hold (events of requests that kept their entity since), that     *)
(* who has written a row holds its lock until the transaction ends, that   *)
(* commits lists every committed request once, and what the listener knows *)
(* of the event it runs on.  From it: the types, that the daemon inside    *)
(* does what EventListenerDaemon says, the order of the events of one row, *)
(* and that no consumer makes a row before its request commits it.         *)
(*                                                                         *)
(* QInv is inductive in addition when the system is Quiet: then a row that *)
(* differs from the last commit waits for an event that is still ahead.    *)
(*                                                                         *)
(* Every step is one of a few kinds (StepCases, FiveKinds); for each there *)
(* is a lemma (its View) with what it does to the state, and each conjunct *)
(* of the invariants has a lemma that cites those.                         *)
(***************************************************************************)
EXTENDS SubscriptionSync, SequenceTheorems, TLAPS

(* The facts about the daemon, for the two topics and no poison record.    *)
DP == INSTANCE EventListenerDaemonProofs
       WITH Partitions <- Topics, Messages <- Events, Poison <- {}

-----------------------------------------------------------------------------

(* Every event in a topic is the one its request sent: the request has     *)
(* come as far as publishing, and has kept its entity since.               *)
LogInv ==
    \A t \in Topics : \A o \in DOMAIN log[t] :
        \E r \in Requests :
            /\ req[r].pc \in {"published", "committed", "aborted"}
            /\ req[r].kind = t
            /\ log[t][o] = EventOf(r)

SentInv ==
    \A r \in Requests : req[r].pc \in {"published", "committed"} =>
        SentBy(r) # {}

(* A request that has written holds its row until it ends, an update is of *)
(* a committed subscription, and one request creates an id.                *)
RequestInv ==
    \A r \in Requests : req[r] # NotAsked =>
        /\ req[r].pc \in {"written", "published"} => lock[req[r].id] = r
        /\ req[r].kind = "update" => /\ IsCreated(req[r].id)
                                     /\ req[r].entity.updatedBy \in Users
        /\ req[r].kind = "create" => req[r].pc # "read"

CreateInv ==
    \A r, q \in Requests :
        /\ req[r] # NotAsked /\ req[r].kind = "create"
        /\ req[q] # NotAsked /\ req[q].kind = "create"
        /\ req[r].id = req[q].id
        => r = q

LockInv ==
    \A s \in Subs : lock[s] # NoRequest =>
        /\ req[lock[s]].pc \in {"written", "published"}
        /\ req[lock[s]].id = s

(* commits lists the committed requests, each once, the create first.      *)
CommitsInv ==
    \A s \in Subs :
        /\ \A i \in DOMAIN commits[s] :
              /\ req[commits[s][i]].pc = "committed"
              /\ req[commits[s][i]].id = s
              /\ i = 1 => req[commits[s][i]].kind = "create"
        /\ \A i, j \in DOMAIN commits[s] :
              commits[s][i] = commits[s][j] => i = j

CommittedInv ==
    \A r \in Requests : req[r].pc = "committed" =>
        \E i \in DOMAIN commits[req[r].id] : commits[req[r].id][i] = r

RowInv == \A s \in Subs : IsCreated(s) => row[s] # NoRow

(* The request that holds a row has sent its events after those of the     *)
(* requests that committed before it.                                      *)
OrderInv ==
    \A r, q \in Requests :
        /\ req[r].pc = "committed" /\ req[q].pc = "published"
        /\ req[r].kind = req[q].kind /\ req[r].id = req[q].id
        => \A a \in SentBy(r), b \in SentBy(q) : a < b

(* execute runs inside a listening delivery of its own topic's event.      *)
WorkInv ==
    \A c \in Consumers : work[c] # NoWork =>
        /\ delivery[c].stage = "listening"
        /\ D!Event(c).type = IF work[c].at = "update" THEN "update"
                                                      ELSE "create"
        /\ work[c].at \in {"resave", "update"} => EventRow(c) # NoRow
        /\ work[c].at = "update" => work[c].entity.name = D!Event(c).name

IInv == /\ TypeOK /\ D!DeliveryInv /\ D!CommittedIsSettled
        /\ LogInv /\ SentInv /\ RequestInv /\ CreateInv /\ LockInv
        /\ CommitsInv /\ CommittedInv /\ RowInv /\ OrderInv /\ WorkInv
        /\ LogOrderIsCommitOrder /\ ConsumerNeverOvertakesCreate

(* One listener process, no event of a request that rolled back, and no    *)
(* listener that fails for another reason than the row it finds.           *)
Quiet == /\ \A c, d \in Consumers : c = d
         /\ Faults \cap {"abortAfterPublish", "listenerError"} = {}

OffsetInv ==
    /\ \A t \in Topics : committed[t] <= Len(log[t])
    /\ \A c \in Consumers : delivery[c].stage # "idle" =>
          delivery[c].offset = committed[delivery[c].partition]

KeptInv ==
    \A t \in Topics : \A o \in DOMAIN log[t] :
        req[log[t][o].from].pc # "aborted"

(* No update of the row was passed since the create listener saw no row.   *)
AheadInv ==
    \A c \in Consumers : work[c].at \in {"select", "insert", "resave"} =>
        \A o \in DOMAIN log["update"] :
            log["update"][o].id = D!Event(c).id => o > committed["update"]

IsStale(s) == IsCreated(s) /\ row[s].name # LatestName(s)

(* A stale row waits for an update event that is ahead of the offset, also *)
(* of the one a settled delivery is about to commit.                       *)
PendingInv ==
    \A s \in Subs : IsStale(s) =>
        /\ req[LatestRequest(s)].kind = "update"
        /\ \E o \in SentBy(LatestRequest(s)) :
              /\ o > committed["update"]
              /\ \A c \in Consumers :
                    /\ delivery[c].stage = "settled"
                    /\ delivery[c].partition = "update"
                    => o # delivery[c].offset + 1

QInv == OffsetInv /\ KeptInv /\ AheadInv /\ PendingInv
-----------------------------------------------------------------------------
(* The daemon's lemmas, for the two topics and without poison records.     *)
LEMMA DaemonAssumptions ==
  /\ DP!ConsumersAssumption /\ DP!PoisonAssumption
  /\ DP!RetriesAssumption /\ DP!BoundsAssumption
BY ConsumersAssumption, RetriesAssumption, BoundsAssumption
   DEF DP!ConsumersAssumption, DP!PoisonAssumption, DP!RetriesAssumption,
       DP!BoundsAssumption

LEMMA SameNext == D!Next <=> DP!Next
BY Zenon
   DEF D!Next, DP!Next, D!Produce, DP!Produce,
       D!ConsumerStep, DP!ConsumerStep, D!Rebalance, DP!Rebalance,
       D!Crash, DP!Crash, D!Deliver, DP!Deliver,
       D!StartAttempt, DP!StartAttempt,
       D!HeartbeatThrows, DP!HeartbeatThrows,
       D!ListenerReturns, DP!ListenerReturns,
       D!CommitOffset, DP!CommitOffset,
       D!CommitRejected, DP!CommitRejected, D!EndAttempt, DP!EndAttempt,
       D!Settle, DP!Settle, D!IsStale, DP!IsStale, D!Idle, DP!Idle,
       D!Event, DP!Event, D!PossibleResults, DP!PossibleResults,
       D!kafka, DP!kafka, D!Results, DP!Results

LEMMA SameInv ==
  /\ D!TypeOK <=> DP!TypeOK
  /\ D!DeliveryInv <=> DP!DeliveryInv
  /\ D!CommittedIsSettled <=> DP!CommittedIsSettled
  /\ D!TypeOK' <=> DP!TypeOK'
  /\ D!DeliveryInv' <=> DP!DeliveryInv'
  /\ D!CommittedIsSettled' <=> DP!CommittedIsSettled'
<1>1. (D!TypeOK <=> DP!TypeOK) /\ (D!TypeOK' <=> DP!TypeOK')
  BY Zenon DEF D!TypeOK, DP!TypeOK, D!Delivery, DP!Delivery, D!Idle, DP!Idle,
               D!Verdicts, DP!Verdicts
<1>2. /\ D!DeliveryInv <=> DP!DeliveryInv
      /\ D!DeliveryInv' <=> DP!DeliveryInv'
  BY Zenon DEF D!DeliveryInv, DP!DeliveryInv, D!Idle, DP!Idle,
               D!Verdicts, DP!Verdicts
<1>3. /\ D!CommittedIsSettled <=> DP!CommittedIsSettled
      /\ D!CommittedIsSettled' <=> DP!CommittedIsSettled'
  BY Zenon DEF D!CommittedIsSettled, DP!CommittedIsSettled,
               D!Verdicts, DP!Verdicts
<1> QED BY <1>1, <1>2, <1>3

LEMMA DaemonInvStep ==
  ASSUME D!TypeOK, D!DeliveryInv, D!CommittedIsSettled, [D!Next]_D!vars
  PROVE  D!TypeOK' /\ D!DeliveryInv' /\ D!CommittedIsSettled'
<1>1. [DP!Next]_DP!vars
  BY SameNext DEF D!vars, DP!vars
<1>2. DP!TypeOK /\ DP!DeliveryInv /\ DP!CommittedIsSettled
  BY SameInv
<1>3. DP!TypeOK'
  BY <1>1, <1>2, DaemonAssumptions, DP!TypeStep
<1>4. DP!DeliveryInv'
  BY <1>1, <1>2, DaemonAssumptions, DP!DeliveryStep
<1>5. DP!CommittedIsSettled'
  BY <1>1, <1>2, DaemonAssumptions, DP!CommittedStep
<1> QED
  BY <1>3, <1>4, <1>5, SameInv

LEMMA DaemonInit ==
  ASSUME D!Init
  PROVE  D!TypeOK /\ D!DeliveryInv /\ D!CommittedIsSettled
<1>1. D!Init <=> DP!Init
  BY Zenon DEF D!Init, DP!Init, D!Idle, DP!Idle
<1>2. DP!IInv
  BY <1>1, DaemonAssumptions, DP!InitIInv
<1> QED BY <1>2, SameInv DEF DP!IInv

-----------------------------------------------------------------------------
LEMMA AskedFields ==
  ASSUME TypeOK, NEW r \in Requests, req[r].pc # "idle"
  PROVE  /\ req[r] \in Asked /\ req[r] # NotAsked
         /\ req[r].pc \in {"read", "written", "published", "committed",
                           "aborted"}
         /\ req[r].kind \in Topics /\ req[r].id \in Subs
         /\ req[r].entity \in Row
BY DEF TypeOK, Asked, NotAsked

LEMMA AskedPc ==
  ASSUME TypeOK, NEW r \in Requests
  PROVE  req[r].pc = "idle" <=> req[r] = NotAsked
<1>1. req[r] \in Asked \cup {NotAsked}
  BY DEF TypeOK
<1>2. ASSUME NEW x \in Asked
      PROVE  x.pc # "idle"
  BY <1>2 DEF Asked
<1>3. NotAsked.pc = "idle"
  BY DEF NotAsked
<1> QED BY <1>1, <1>2, <1>3

LEMMA EventTyped ==
  ASSUME TypeOK, NEW r \in Requests, req[r].pc # "idle"
  PROVE  EventOf(r) \in Events
<1>1. req[r].kind \in Topics /\ req[r].id \in Subs /\ req[r].entity \in Row
  BY AskedFields
<1>2. PICK e \in Row : e = req[r].entity
  BY <1>1
<1>3. /\ e.name \in Names
      /\ e.createdBy \in Subs \cup {NoOne}
      /\ e.updatedBy \in Users \cup {NoOne}
  BY DEF Row
<1>4. /\ OrSystem(e.createdBy) \in Subs \cup {NoOne, System}
      /\ OrSystem(e.updatedBy) \in Users \cup {NoOne, System}
  BY <1>3 DEF OrSystem
<1> QED BY <1>1, <1>2, <1>3, <1>4 DEF EventOf, Events

(* Every step is a step of the event listener daemon, or leaves it alone.  *)
LEMMA StepOfDaemon == TypeOK /\ [Next]_vars => [D!Next]_D!vars
<1> SUFFICES ASSUME TypeOK, [Next]_vars PROVE [D!Next]_D!vars
  OBVIOUS
<1>1. ASSUME NEW r \in Requests, req[r].pc # "idle",
             D!Produce(req[r].kind, EventOf(r))
      PROVE  D!Next
  BY <1>1, AskedFields, EventTyped DEF D!Next
<1>2. ASSUME NEW c \in Consumers, NEW x \in {"handled", "retryable"},
             Return(c, x)
      PROVE  D!Next
  <2>1. D!ListenerReturns(c)
    BY <1>2 DEF Return, D!ListenerReturns, D!EndAttempt, D!PossibleResults,
                D!Results
  <2> QED BY <2>1 DEF D!Next, D!ConsumerStep
<1>3. ASSUME NEW c \in Consumers, ListenerStep(c)
      PROVE  D!Next \/ UNCHANGED daemon
  BY <1>3, <1>2 DEF ListenerStep, CreatedRead, CreatedSelect, CreatedInsert,
     CreatedResave, UpdatedRead, UpdatedWrite, ListenerError, Proceed,
     WriteResults
<1>4. ASSUME NEW c \in Consumers, DaemonStep(c)
      PROVE  D!Next
  BY <1>4 DEF DaemonStep, D!Next, D!ConsumerStep
<1>5. ASSUME NEW c \in Consumers, ConsumerCrash(c)
      PROVE  D!Next
  BY <1>5 DEF ConsumerCrash, D!Next
<1>6. CASE GroupRebalance
  BY <1>6 DEF GroupRebalance, D!Next
<1>7. ASSUME NEW r \in Requests, RequestStep(r) \/ PublishAgain(r)
      PROVE  D!Next \/ UNCHANGED daemon
  <2>1. CASE Publish(r) \/ PublishAgain(r)
    BY <2>1, <1>1 DEF Publish, PublishAgain
  <2>2. CASE UpdateWrite(r) \/ Commit(r) \/ Abort(r)
    BY <2>2 DEF UpdateWrite, Commit, Abort
  <2> QED BY <1>7, <2>1, <2>2 DEF RequestStep
<1>8. ASSUME NEW r \in Requests, NEW s \in Subs, NEW n,
             CreateInsert(r, s, n) \/ UpdateRead(r, s, n)
      PROVE  UNCHANGED daemon
  BY <1>8 DEF CreateInsert, UpdateRead
<1>9. CASE UNCHANGED vars
  BY <1>9 DEF vars, D!vars
<1>10. CASE Next
  <2>1. CASE \E r \in Requests, s \in Subs, n \in Names :
               CreateInsert(r, s, n)
    BY <2>1, <1>8 DEF daemon, D!vars
  <2>2. CASE \E r \in Requests, s \in Subs, n \in Names \cup {NoName} :
               UpdateRead(r, s, n)
    BY <2>2, <1>8 DEF daemon, D!vars
  <2>3. CASE \E r \in Requests : RequestStep(r) \/ PublishAgain(r)
    BY <2>3, <1>7 DEF daemon, D!vars
  <2>4. CASE \E c \in Consumers : ListenerStep(c) \/ DaemonStep(c)
    BY <2>4, <1>3, <1>4 DEF daemon, D!vars
  <2>5. CASE \E c \in Consumers : ConsumerCrash(c)
    BY <2>5, <1>5
  <2> QED BY <1>10, <1>6, <2>1, <2>2, <2>3, <2>4, <2>5 DEF Next
<1> QED BY <1>9, <1>10
-----------------------------------------------------------------------------
(* What the steps do to requests, to topics and to deliveries.             *)
LEMMA PcMove ==
  ASSUME TypeOK, NEW r \in Requests, req[r].pc # "idle", NEW p,
         req' = [req EXCEPT ![r].pc = p]
  PROVE  /\ req'[r].pc = p
         /\ \A q \in Requests : /\ q # r => req'[q] = req[q]
                                /\ req'[q].kind = req[q].kind
                                /\ req'[q].id = req[q].id
                                /\ req'[q].entity = req[q].entity
<1>1. req \in [Requests -> Asked \cup {NotAsked}]
  BY DEF TypeOK
<1>2. req[r] \in Asked
  BY AskedFields
<1>3. \A q \in Requests : q # r => req'[q] = req[q]
  BY <1>1
<1>4. req'[r] = [req[r] EXCEPT !.pc = p]
  BY <1>1
<1>5. PICK x \in Asked : x = req[r]
  BY <1>2
<1>6. LET y == [x EXCEPT !.pc = p]
      IN  y.pc = p /\ y.kind = x.kind /\ y.id = x.id /\ y.entity = x.entity
  BY DEF Asked
<1>7. /\ req'[r].pc = p
      /\ req'[r].kind = req[r].kind /\ req'[r].id = req[r].id
      /\ req'[r].entity = req[r].entity
  BY <1>4, <1>5, <1>6
<1> QED BY <1>3, <1>7

(* The request r alone changes.                                            *)
OnlyMoves(r) ==
    \A q \in Requests : q # r => req'[q] = req[q]

SameRequest(r) == /\ req'[r].kind = req[r].kind
                  /\ req'[r].id = req[r].id
                  /\ req'[r].entity = req[r].entity

LEMMA CreateInsertView ==
  ASSUME TypeOK, NEW r \in Requests, NEW s \in Subs, NEW n \in Names,
         CreateInsert(r, s, n)
  PROVE  /\ req[r].pc = "idle" /\ req'[r].pc = "written"
         /\ req'[r].kind = "create" /\ req'[r].id = s
         /\ req'[r] \in Asked
         /\ OnlyMoves(r)
         /\ \A q \in Requests : req[q].pc # "idle" => req[q].id # s
         /\ lock'[s] = r
         /\ \A t \in Subs : t # s => lock'[t] = lock[t]
         /\ UNCHANGED <<log, committed, delivery, row, work, commits>>
<1>1. req[r].pc = "idle" /\ req \in [Requests -> Asked \cup {NotAsked}]
      /\ lock \in [Subs -> Requests \cup {NoRequest}]
  BY DEF CreateInsert, NotAsked, TypeOK
<1>2. req' = [req EXCEPT ![r] =
                [pc |-> "written", kind |-> "create", id |-> s,
                 entity |-> [name |-> n, createdBy |-> NoOne,
                             updatedBy |-> NoOne]]]
  BY DEF CreateInsert
<1>3. \A q \in Requests : req[q].pc # "idle" => req[q].id # s
  BY AskedPc DEF CreateInsert
<1>4. [name |-> n, createdBy |-> NoOne, updatedBy |-> NoOne] \in Row
  BY DEF Row
<1>5. [pc |-> "written", kind |-> "create", id |-> s,
       entity |-> [name |-> n, createdBy |-> NoOne,
                   updatedBy |-> NoOne]] \in Asked
  BY <1>4 DEF Asked, Topics
<1> QED BY <1>1, <1>2, <1>3, <1>5 DEF CreateInsert, OnlyMoves, daemon

LEMMA CreateInsertFresh ==
  ASSUME TypeOK, NEW r \in Requests, NEW s \in Subs, NEW n \in Names,
         CreateInsert(r, s, n)
  PROVE  /\ \A q \in Requests : req[q].pc # "idle" => req[q].id # s
         /\ \A q \in Requests : q # r => req'[q] = req[q]
         /\ req[r].pc = "idle" /\ req'[r].pc = "written" /\ req'[r].id = s
         /\ lock'[s] = r
         /\ \A t \in Subs : t # s => lock'[t] = lock[t]
<1>1. OnlyMoves(r) => \A q \in Requests : q # r => req'[q] = req[q]
  BY DEF OnlyMoves
<1>2. \A q \in Requests : req[q].pc # "idle" => req[q].id # s
  BY CreateInsertView
<1>3. OnlyMoves(r)
  BY CreateInsertView
<1>4. /\ req[r].pc = "idle" /\ req'[r].pc = "written" /\ req'[r].id = s
      /\ lock'[s] = r
  BY CreateInsertView
<1>5. \A t \in Subs : t # s => lock'[t] = lock[t]
  BY CreateInsertView
<1> QED BY <1>1, <1>2, <1>3, <1>4, <1>5

LEMMA UpdatedTyped ==
  ASSUME NEW e \in Row, NEW n \in Names \cup {NoName}, NEW u \in Users
  PROVE  /\ Updated(e, n, u) \in Row
         /\ Updated(e, n, u).updatedBy = u
         /\ n \in Names => Updated(e, n, u).name = n
BY MarkersAssumption DEF Updated, Row

LEMMA PreservedTyped ==
  ASSUME NEW e \in Row, NEW s \in Subs
  PROVE  Preserved(s, e) \in Row /\ Preserved(s, e).name = e.name
BY DEF Preserved, Row

LEMMA UpdateReadView ==
  ASSUME TypeOK, RowInv,
         NEW r \in Requests, NEW s \in Subs, NEW n \in Names \cup {NoName},
         UpdateRead(r, s, n)
  PROVE  /\ req[r].pc = "idle" /\ req'[r].pc = "read"
         /\ req'[r].kind = "update" /\ req'[r].id = s
         /\ req'[r].entity.updatedBy \in Users
         /\ req'[r] \in Asked
         /\ IsCreated(s)
         /\ OnlyMoves(r)
         /\ UNCHANGED <<log, committed, delivery, row, lock, work, commits>>
<1>1. req[r].pc = "idle" /\ req \in [Requests -> Asked \cup {NotAsked}]
  BY DEF UpdateRead, NotAsked, TypeOK
<1>2. req' = [req EXCEPT ![r] =
                [pc |-> "read", kind |-> "update", id |-> s,
                 entity |-> Updated(row[s], n, UserOf[r])]]
  BY DEF UpdateRead
<1>3. row[s] \in Row
  BY DEF RowInv, UpdateRead, TypeOK
<1>4. UserOf[r] \in Users
  BY UserOfAssumption
<1>5. PICK e \in Row : e = Updated(row[s], n, UserOf[r])
  BY <1>3, <1>4, UpdatedTyped
<1>6. e.updatedBy \in Users
  BY <1>3, <1>4, <1>5, UpdatedTyped
<1>7. [pc |-> "read", kind |-> "update", id |-> s, entity |-> e] \in Asked
  BY DEF Asked, Topics
<1> QED BY <1>1, <1>2, <1>5, <1>6, <1>7
        DEF UpdateRead, OnlyMoves, daemon

LEMMA UpdateWriteView ==
  ASSUME TypeOK, NEW r \in Requests, UpdateWrite(r)
  PROVE  /\ req[r].pc = "read" /\ req'[r].pc = "written"
         /\ OnlyMoves(r) /\ \A q \in Requests : SameRequest(q)
         /\ lock[req[r].id] = NoRequest /\ lock'[req[r].id] = r
         /\ \A s \in Subs : s # req[r].id => lock'[s] = lock[s]
         /\ UNCHANGED <<log, committed, delivery, row, work, commits>>
<1>1. req[r].pc = "read" /\ req' = [req EXCEPT ![r].pc = "written"]
  BY DEF UpdateWrite
<1>2. /\ req'[r].pc = "written" /\ OnlyMoves(r)
      /\ \A q \in Requests : SameRequest(q)
  BY <1>1, PcMove DEF OnlyMoves, SameRequest
<1>3. req[r].id \in Subs /\ lock \in [Subs -> Requests \cup {NoRequest}]
  BY <1>1, AskedFields DEF TypeOK
<1> QED BY <1>1, <1>2, <1>3 DEF UpdateWrite, daemon

(* The event of r is appended to the topic of its kind.                    *)
Sends(r) ==
    /\ \A t \in Topics : t # req[r].kind => log'[t] = log[t]
    /\ log'[req[r].kind] = Append(log[req[r].kind], EventOf(r))

LEMMA ProduceView ==
  ASSUME TypeOK, NEW r \in Requests, req[r].pc # "idle",
         D!Produce(req[r].kind, EventOf(r))
  PROVE  Sends(r) /\ UNCHANGED <<committed, owner, generation, delivery>>
<1>1. req[r].kind \in Topics /\ log \in [Topics -> Seq(Events)]
  BY AskedFields DEF TypeOK, D!TypeOK
<1> QED BY <1>1 DEF D!Produce, Sends

LEMMA PublishView ==
  ASSUME TypeOK, NEW r \in Requests, Publish(r)
  PROVE  /\ req[r].pc = "written" /\ req'[r].pc = "published"
         /\ OnlyMoves(r) /\ \A q \in Requests : SameRequest(q)
         /\ Sends(r)
         /\ UNCHANGED <<committed, delivery, row, lock, work, commits>>
<1>1. req[r].pc = "written" /\ req' = [req EXCEPT ![r].pc = "published"]
  BY DEF Publish
<1>2. /\ req'[r].pc = "published" /\ OnlyMoves(r)
      /\ \A q \in Requests : SameRequest(q)
  BY <1>1, PcMove DEF OnlyMoves, SameRequest
<1> QED BY <1>1, <1>2, ProduceView DEF Publish

LEMMA PublishAgainView ==
  ASSUME TypeOK, NEW r \in Requests, PublishAgain(r)
  PROVE  /\ req[r].pc = "published" /\ Sends(r)
         /\ UNCHANGED <<committed, delivery, row, lock, req, work, commits>>
<1>1. req[r].pc = "published"
  BY DEF PublishAgain
<1> QED BY <1>1, ProduceView DEF PublishAgain

LEMMA ReleaseView ==
  ASSUME TypeOK, NEW r \in Requests, req[r].pc # "idle", Release(r)
  PROVE  /\ lock'[req[r].id] = IF lock[req[r].id] = r THEN NoRequest
                                                    ELSE lock[req[r].id]
         /\ \A s \in Subs : s # req[r].id => lock'[s] = lock[s]
<1>1. req[r].id \in Subs /\ lock \in [Subs -> Requests \cup {NoRequest}]
  BY AskedFields DEF TypeOK
<1> QED BY <1>1 DEF Release

LEMMA CommitView ==
  ASSUME TypeOK, NEW r \in Requests, Commit(r)
  PROVE  /\ req[r].pc = "published" /\ req'[r].pc = "committed"
         /\ OnlyMoves(r) /\ \A q \in Requests : SameRequest(q)
         /\ lock'[req[r].id] = IF lock[req[r].id] = r THEN NoRequest
                                                    ELSE lock[req[r].id]
         /\ commits'[req[r].id] = Append(commits[req[r].id], r)
         /\ row'[req[r].id] = RowOf(r)
         /\ \A s \in Subs : s # req[r].id => /\ lock'[s] = lock[s]
                                             /\ commits'[s] = commits[s]
                                             /\ row'[s] = row[s]
         /\ UNCHANGED <<log, committed, delivery, work>>
<1>1. req[r].pc = "published" /\ req' = [req EXCEPT ![r].pc = "committed"]
  BY DEF Commit
<1>2. /\ req'[r].pc = "committed" /\ OnlyMoves(r)
      /\ \A q \in Requests : SameRequest(q)
  BY <1>1, PcMove DEF OnlyMoves, SameRequest
<1>3. /\ req[r].id \in Subs /\ commits \in [Subs -> Seq(Requests)]
      /\ row \in [Subs -> Row \cup {NoRow}]
  BY <1>1, AskedFields DEF TypeOK
<1>4. /\ commits' = [commits EXCEPT ![req[r].id] = Append(@, r)]
      /\ row' = [row EXCEPT ![req[r].id] = RowOf(r)]
      /\ Release(r)
      /\ UNCHANGED <<log, committed, delivery, work>>
  BY DEF Commit, daemon
<1> QED BY <1>1, <1>2, <1>3, <1>4, ReleaseView

LEMMA AbortView ==
  ASSUME TypeOK, NEW r \in Requests, Abort(r)
  PROVE  /\ req[r].pc \in {"read", "written", "published"}
         /\ "abortAfterPublish" \notin Faults => req[r].pc # "published"
         /\ req'[r].pc = "aborted"
         /\ OnlyMoves(r) /\ \A q \in Requests : SameRequest(q)
         /\ lock'[req[r].id] = IF lock[req[r].id] = r THEN NoRequest
                                                    ELSE lock[req[r].id]
         /\ \A s \in Subs : s # req[r].id => lock'[s] = lock[s]
         /\ UNCHANGED <<log, committed, delivery, row, work, commits>>
<1>1. /\ req[r].pc \in {"read", "written", "published"}
      /\ "abortAfterPublish" \notin Faults => req[r].pc # "published"
      /\ req' = [req EXCEPT ![r].pc = "aborted"]
  BY DEF Abort
<1>2. /\ req'[r].pc = "aborted" /\ OnlyMoves(r)
      /\ \A q \in Requests : SameRequest(q)
  BY <1>1, PcMove DEF OnlyMoves, SameRequest
<1> QED BY <1>1, <1>2, ReleaseView DEF Abort, daemon
-----------------------------------------------------------------------------
(* A step of the listener side: it writes no topic and no request.         *)
ConsumerSide ==
    \/ \E c \in Consumers : ListenerStep(c) \/ DaemonStep(c) \/ ConsumerCrash(c)
    \/ GroupRebalance
    \/ UNCHANGED vars

LEMMA ConsumerSideView ==
  ASSUME ConsumerSide
  PROVE  UNCHANGED <<log, lock, req, commits>>
<1>1. ASSUME NEW c \in Consumers, NEW x, Return(c, x)
      PROVE  UNCHANGED log
  BY <1>1 DEF Return, D!EndAttempt, D!kafka
<1>2. ASSUME NEW c \in Consumers, ListenerStep(c)
      PROVE  UNCHANGED <<log, lock, req, commits>>
  BY <1>1, <1>2 DEF ListenerStep, CreatedRead, CreatedSelect, CreatedInsert,
     CreatedResave, UpdatedRead, UpdatedWrite, ListenerError, Proceed, daemon,
     api
<1>3. ASSUME NEW c \in Consumers, DaemonStep(c)
      PROVE  UNCHANGED <<log, lock, req, commits>>
  BY <1>3 DEF DaemonStep, api, D!Deliver, D!StartAttempt, D!HeartbeatThrows,
     D!CommitOffset, D!CommitRejected, D!kafka
<1>4. ASSUME NEW c \in Consumers, ConsumerCrash(c)
      PROVE  UNCHANGED <<log, lock, req, commits>>
  BY <1>4 DEF ConsumerCrash, api, D!Crash
<1>5. CASE GroupRebalance
  BY <1>5 DEF GroupRebalance, api, D!Rebalance
<1>6. CASE UNCHANGED vars
  BY <1>6 DEF vars
<1> QED BY <1>2, <1>3, <1>4, <1>5, <1>6 DEF ConsumerSide

LEMMA StepCases ==
  ASSUME [Next]_vars
  PROVE  \/ \E r \in Requests, s \in Subs, n \in Names : CreateInsert(r, s, n)
         \/ \E r \in Requests, s \in Subs, n \in Names \cup {NoName} :
               UpdateRead(r, s, n)
         \/ \E r \in Requests : UpdateWrite(r)
         \/ \E r \in Requests : Publish(r)
         \/ \E r \in Requests : PublishAgain(r)
         \/ \E r \in Requests : Commit(r)
         \/ \E r \in Requests : Abort(r)
         \/ ConsumerSide
BY Zenon DEF Next, RequestStep, ConsumerSide

LEMMA SameEvent ==
  ASSUME NEW r, SameRequest(r)
  PROVE  EventOf(r)' = EventOf(r) /\ RowOf(r)' = RowOf(r)
BY DEF SameRequest, EventOf, RowOf

Sent == {"published", "committed", "aborted"}

(* A request that has begun keeps what it is about, and an ended one stays *)
(* as it ended.                                                            *)
LEMMA RequestsKept ==
  ASSUME TypeOK, RowInv, [Next]_vars, NEW q \in Requests, req[q].pc # "idle"
  PROVE  /\ SameRequest(q) /\ req'[q].pc # "idle"
         /\ req[q].pc \in Sent => req'[q].pc \in Sent
         /\ req[q].pc = "committed" => req'[q].pc = "committed"
<1> DEFINE Goal == /\ SameRequest(q) /\ req'[q].pc # "idle"
                   /\ req[q].pc \in Sent => req'[q].pc \in Sent
                   /\ req[q].pc = "committed" => req'[q].pc = "committed"
<1>1. CASE req'[q] = req[q]
  BY <1>1 DEF SameRequest
<1>2. ASSUME NEW r \in Requests, NEW s \in Subs, NEW n \in Names,
             CreateInsert(r, s, n)
      PROVE  Goal
  BY <1>1, <1>2, CreateInsertView DEF OnlyMoves
<1>3. ASSUME NEW r \in Requests, NEW s \in Subs,
             NEW n \in Names \cup {NoName}, UpdateRead(r, s, n)
      PROVE  Goal
  BY <1>1, <1>3, UpdateReadView DEF OnlyMoves
<1>4. ASSUME NEW r \in Requests, UpdateWrite(r)
      PROVE  Goal
  BY <1>1, <1>4, UpdateWriteView DEF OnlyMoves, Sent
<1>5. ASSUME NEW r \in Requests, Publish(r)
      PROVE  Goal
  BY <1>1, <1>5, PublishView DEF OnlyMoves, Sent
<1>6. ASSUME NEW r \in Requests, PublishAgain(r)
      PROVE  Goal
  BY <1>1, <1>6, PublishAgainView
<1>7. ASSUME NEW r \in Requests, Commit(r)
      PROVE  Goal
  BY <1>1, <1>7, CommitView DEF OnlyMoves, Sent
<1>8. ASSUME NEW r \in Requests, Abort(r)
      PROVE  Goal
  BY <1>1, <1>8, AbortView DEF OnlyMoves, Sent
<1>9. CASE ConsumerSide
  BY <1>1, <1>9, ConsumerSideView
<1> QED BY <1>2, <1>3, <1>4, <1>5, <1>6, <1>7, <1>8, <1>9, StepCases

(* Topics only grow, by the event of a request that is publishing.         *)
LEMMA LogStep ==
  ASSUME TypeOK, RowInv, [Next]_vars
  PROVE  \/ UNCHANGED log
         \/ \E r \in Requests : /\ req[r].pc \in {"written", "published"}
                                /\ req'[r].pc = "published"
                                /\ SameRequest(r)
                                /\ Sends(r)
<1> DEFINE Grows(r) == /\ req[r].pc \in {"written", "published"}
                       /\ req'[r].pc = "published"
                       /\ SameRequest(r)
                       /\ Sends(r)
<1>1. ASSUME NEW r \in Requests, NEW s \in Subs, NEW n \in Names,
             CreateInsert(r, s, n)
      PROVE  UNCHANGED log
  BY <1>1, CreateInsertView
<1>2. ASSUME NEW r \in Requests, NEW s \in Subs,
             NEW n \in Names \cup {NoName}, UpdateRead(r, s, n)
      PROVE  UNCHANGED log
  BY <1>2, UpdateReadView
<1>3. ASSUME NEW r \in Requests, UpdateWrite(r) \/ Commit(r) \/ Abort(r)
      PROVE  UNCHANGED log
  BY <1>3, UpdateWriteView, CommitView, AbortView
<1>4. ASSUME NEW r \in Requests, Publish(r)
      PROVE  Grows(r)
  BY <1>4, PublishView
<1>5. ASSUME NEW r \in Requests, PublishAgain(r)
      PROVE  Grows(r)
  BY <1>5, PublishAgainView DEF SameRequest
<1>6. CASE ConsumerSide
  BY <1>6, ConsumerSideView
<1> QED BY <1>1, <1>2, <1>3, <1>4, <1>5, <1>6, StepCases

LEMMA EntriesTyped ==
  ASSUME TypeOK, NEW t \in Topics
  PROVE  /\ log[t] \in Seq(Events) /\ Len(log[t]) \in Nat
         /\ DOMAIN log[t] = 1..Len(log[t])
         /\ \A o \in DOMAIN log[t] : /\ log[t][o] \in Events
                                     /\ log[t][o].from \in Requests
                                     /\ log[t][o].id \in Subs
                                     /\ log[t][o].name \in Names
                                     /\ log[t][o].type \in Topics
<1>1. log[t] \in Seq(Events)
  BY DEF TypeOK, D!TypeOK
<1>2. \A e \in Events : /\ e.from \in Requests /\ e.id \in Subs
                        /\ e.name \in Names /\ e.type \in Topics
  BY DEF Events
<1> QED BY <1>1, <1>2

LEMMA SendsView ==
  ASSUME TypeOK, NEW r \in Requests, req[r].pc # "idle", Sends(r)
  PROVE  LET k == req[r].kind
         IN  /\ k \in Topics
             /\ \A t \in Topics : t # k => log'[t] = log[t]
             /\ DOMAIN log'[k] = DOMAIN log[k] \cup {Len(log[k]) + 1}
             /\ Len(log'[k]) = Len(log[k]) + 1
             /\ \A o \in DOMAIN log[k] : log'[k][o] = log[k][o]
             /\ log'[k][Len(log[k]) + 1] = EventOf(r)
<1>1. req[r].kind \in Topics
  BY AskedFields
<1>2. EventOf(r) \in Events
  BY EventTyped
<1> QED BY <1>1, <1>2, EntriesTyped DEF Sends

(* Whatever the step, what was in a topic stays where it was.              *)
LEMMA EntriesKept ==
  ASSUME TypeOK, RowInv, [Next]_vars, NEW t \in Topics
  PROVE  /\ Len(log[t]) <= Len(log'[t])
         /\ \A o \in DOMAIN log[t] : o \in DOMAIN log'[t]
                                     /\ log'[t][o] = log[t][o]
<1>1. CASE UNCHANGED log
  BY <1>1, EntriesTyped
<1>2. ASSUME NEW r \in Requests, req[r].pc \in {"written", "published"},
             Sends(r)
      PROVE  /\ Len(log[t]) <= Len(log'[t])
             /\ \A o \in DOMAIN log[t] : o \in DOMAIN log'[t]
                                         /\ log'[t][o] = log[t][o]
  <2>1. /\ t # req[r].kind => log'[t] = log[t]
        /\ t = req[r].kind =>
              /\ DOMAIN log'[t] = DOMAIN log[t] \cup {Len(log[t]) + 1}
              /\ Len(log'[t]) = Len(log[t]) + 1
              /\ \A o \in DOMAIN log[t] : log'[t][o] = log[t][o]
    BY <1>2, SendsView
  <2>2. Len(log[t]) \in Nat
    BY EntriesTyped
  <2> QED BY <2>1, <2>2
<1> QED BY <1>1, <1>2, LogStep

LEMMA SentBySame ==
  ASSUME NEW q \in Requests, UNCHANGED log, SameRequest(q)
  PROVE  SentBy(q)' = SentBy(q)
BY DEF SentBy, SameRequest

LEMMA SentByGrows ==
  ASSUME TypeOK, RowInv, [Next]_vars, NEW q \in Requests, req[q].pc # "idle"
  PROVE  SentBy(q) \subseteq SentBy(q)'
<1>1. req[q].kind \in Topics /\ req'[q].kind = req[q].kind
  BY AskedFields, RequestsKept DEF SameRequest
<1> QED BY <1>1, EntriesKept DEF SentBy

LEMMA SentBySends ==
  ASSUME TypeOK, NEW r \in Requests, req[r].pc # "idle", Sends(r),
         NEW q \in Requests, req[q].pc # "idle", SameRequest(q)
  PROVE  SentBy(q)' = IF q = r THEN SentBy(q) \cup {Len(log[req[r].kind]) + 1}
                               ELSE SentBy(q)
<1>1. EventOf(r).from = r
  BY DEF EventOf
<1>2. req[q].kind \in Topics /\ req'[q].kind = req[q].kind
  BY AskedFields DEF SameRequest
<1>3. CASE req[q].kind # req[r].kind
  <2>1. log'[req[q].kind] = log[req[q].kind]
    BY <1>2, <1>3, SendsView
  <2> QED BY <1>2, <1>3, <2>1 DEF SentBy
<1>4. CASE req[q].kind = req[r].kind
  <2>1. PICK k \in Topics : k = req[r].kind
    BY <1>2, <1>4
  <2>2. /\ DOMAIN log'[k] = DOMAIN log[k] \cup {Len(log[k]) + 1}
        /\ \A o \in DOMAIN log[k] : log'[k][o] = log[k][o]
        /\ log'[k][Len(log[k]) + 1].from = r
    BY <1>1, <2>1, SendsView
  <2>3. Len(log[k]) + 1 \notin DOMAIN log[k]
    BY EntriesTyped
  <2>4. SentBy(q)' = {o \in DOMAIN log'[k] : log'[k][o].from = q}
    BY <1>2, <1>4, <2>1 DEF SentBy
  <2>5. SentBy(q) = {o \in DOMAIN log[k] : log[k][o].from = q}
    BY <1>4, <2>1 DEF SentBy
  <2> QED BY <2>1, <2>2, <2>3, <2>4, <2>5
<1> QED BY <1>3, <1>4

LEMMA SentByBound ==
  ASSUME TypeOK, NEW r \in Requests, req[r].pc # "idle"
  PROVE  \A o \in SentBy(r) : o \in 1..Len(log[req[r].kind])
BY AskedFields, EntriesTyped DEF SentBy

LEMMA NothingSentYet ==
  ASSUME TypeOK, LogInv, NEW r \in Requests, req[r].pc \notin Sent
  PROVE  req[r].pc = "idle" \/ SentBy(r) = {}
<1>1. \A q : EventOf(q).from = q
  BY DEF EventOf
<1> QED BY <1>1, AskedFields DEF LogInv, SentBy, Sent
-----------------------------------------------------------------------------
(* The request side keeps its invariants.                                  *)
LEMMA LogInvStep ==
  ASSUME TypeOK, RowInv, LogInv, [Next]_vars
  PROVE  LogInv'
<1> SUFFICES ASSUME NEW t \in Topics, NEW o \in DOMAIN log'[t]
             PROVE  \E r \in Requests : /\ req'[r].pc \in Sent
                                        /\ req'[r].kind = t
                                        /\ log'[t][o] = EventOf(r)'
  BY DEF LogInv, Sent
<1>1. CASE o \in DOMAIN log[t] /\ log'[t][o] = log[t][o]
  <2>1. PICK r \in Requests : /\ req[r].pc \in Sent /\ req[r].kind = t
                              /\ log[t][o] = EventOf(r)
    BY <1>1 DEF LogInv, Sent
  <2>2. req'[r].pc \in Sent /\ SameRequest(r)
    BY <2>1, RequestsKept DEF Sent
  <2>3. EventOf(r)' = EventOf(r)
    BY <2>2, SameEvent
  <2> QED BY <1>1, <2>1, <2>2, <2>3 DEF SameRequest
<1>2. CASE UNCHANGED log
  BY <1>1, <1>2
<1>3. ASSUME NEW r \in Requests, req[r].pc \in {"written", "published"},
             req'[r].pc = "published", SameRequest(r), Sends(r)
      PROVE  \/ o \in DOMAIN log[t] /\ log'[t][o] = log[t][o]
             \/ /\ req'[r].pc \in Sent /\ req'[r].kind = t
                /\ log'[t][o] = EventOf(r)'
  <2>1. CASE t = req[r].kind
    <3>1. \/ o \in DOMAIN log[t] /\ log'[t][o] = log[t][o]
          \/ log'[t][o] = EventOf(r)
      BY <1>3, <2>1, SendsView
    <3>2. EventOf(r)' = EventOf(r)
      BY <1>3, SameEvent
    <3> QED BY <1>3, <2>1, <3>1, <3>2 DEF SameRequest, Sent
  <2>2. CASE t # req[r].kind
    BY <1>3, <2>2, SendsView
  <2> QED BY <2>1, <2>2
<1> QED BY <1>1, <1>2, <1>3, LogStep

LEMMA SentInvStep ==
  ASSUME TypeOK, RowInv, SentInv, [Next]_vars
  PROVE  SentInv'
<1> SUFFICES ASSUME NEW q \in Requests,
                    req'[q].pc \in {"published", "committed"}
             PROVE  SentBy(q)' # {}
  BY DEF SentInv
<1>1. CASE req[q].pc \in {"published", "committed"}
  BY <1>1, SentByGrows DEF SentInv
<1>2. ASSUME NEW r \in Requests, Publish(r)
      PROVE  SentBy(q)' # {}
  <2>1. CASE q # r
    BY <1>1, <1>2, <2>1, PublishView DEF OnlyMoves
  <2>2. CASE q = r
    BY <1>2, <2>2, PublishView, SentBySends
  <2> QED BY <2>1, <2>2
<1>3. ASSUME NEW r \in Requests, NEW s \in Subs, NEW n \in Names,
             CreateInsert(r, s, n)
      PROVE  SentBy(q)' # {}
  BY <1>1, <1>3, CreateInsertView DEF OnlyMoves
<1>4. ASSUME NEW r \in Requests, NEW s \in Subs,
             NEW n \in Names \cup {NoName}, UpdateRead(r, s, n)
      PROVE  SentBy(q)' # {}
  BY <1>1, <1>4, UpdateReadView DEF OnlyMoves
<1>5. ASSUME NEW r \in Requests, UpdateWrite(r)
      PROVE  SentBy(q)' # {}
  BY <1>1, <1>5, UpdateWriteView DEF OnlyMoves
<1>6. ASSUME NEW r \in Requests, PublishAgain(r)
      PROVE  SentBy(q)' # {}
  BY <1>1, <1>6, PublishAgainView
<1>7. ASSUME NEW r \in Requests, Commit(r)
      PROVE  SentBy(q)' # {}
  BY <1>1, <1>7, CommitView DEF OnlyMoves
<1>8. ASSUME NEW r \in Requests, Abort(r)
      PROVE  SentBy(q)' # {}
  BY <1>1, <1>8, AbortView DEF OnlyMoves
<1>9. CASE ConsumerSide
  BY <1>1, <1>9, ConsumerSideView
<1> QED BY <1>2, <1>3, <1>4, <1>5, <1>6, <1>7, <1>8, <1>9, StepCases

(* Only a commit makes a request committed, and only it writes commits.    *)
LEMMA CommitCases ==
  ASSUME TypeOK, RowInv, [Next]_vars
  PROVE  \/ \E r \in Requests : Commit(r)
         \/ /\ UNCHANGED commits
            /\ \A q \in Requests : req'[q].pc = "committed" => req'[q] = req[q]
<1> DEFINE Same == /\ UNCHANGED commits
                   /\ \A q \in Requests : req'[q].pc = "committed"
                                            => req'[q] = req[q]
<1>1. ASSUME NEW r \in Requests, NEW t \in Subs, NEW n \in Names,
             CreateInsert(r, t, n)
      PROVE  Same
  BY <1>1, CreateInsertView DEF OnlyMoves
<1>2. ASSUME NEW r \in Requests, NEW t \in Subs,
             NEW n \in Names \cup {NoName}, UpdateRead(r, t, n)
      PROVE  Same
  BY <1>2, UpdateReadView DEF OnlyMoves
<1>3. ASSUME NEW r \in Requests, UpdateWrite(r)
      PROVE  Same
  BY <1>3, UpdateWriteView DEF OnlyMoves
<1>4. ASSUME NEW r \in Requests, Publish(r)
      PROVE  Same
  BY <1>4, PublishView DEF OnlyMoves
<1>5. ASSUME NEW r \in Requests, PublishAgain(r)
      PROVE  Same
  BY <1>5, PublishAgainView
<1>6. ASSUME NEW r \in Requests, Abort(r)
      PROVE  Same
  BY <1>6, AbortView DEF OnlyMoves
<1>7. ConsumerSide => Same
  BY ConsumerSideView
<1> QED BY <1>1, <1>2, <1>3, <1>4, <1>5, <1>6, <1>7, StepCases

LEMMA CommitAppends ==
  ASSUME TypeOK, NEW r \in Requests, Commit(r)
  PROVE  LET s == req[r].id
         IN  /\ s \in Subs
             /\ \A t \in Subs : t # s => commits'[t] = commits[t]
             /\ Len(commits'[s]) = Len(commits[s]) + 1
             /\ Len(commits[s]) \in Nat
             /\ DOMAIN commits[s] = 1..Len(commits[s])
             /\ DOMAIN commits'[s] = 1..(Len(commits[s]) + 1)
             /\ \A i \in DOMAIN commits[s] : /\ commits'[s][i] = commits[s][i]
                                              /\ commits[s][i] \in Requests
             /\ commits'[s][Len(commits[s]) + 1] = r
             /\ commits'[s] # << >>
<1>1. PICK s \in Subs : s = req[r].id
  BY AskedFields, CommitView
<1>2. PICK q \in Seq(Requests) : q = commits[s]
  BY DEF TypeOK
<1>3. commits'[s] = Append(q, r)
  BY <1>1, <1>2, CommitView
<1>4. \A t \in Subs : t # s => commits'[t] = commits[t]
  BY <1>1, CommitView
<1> QED BY <1>1, <1>2, <1>3, <1>4

LEMMA CreatedStays ==
  ASSUME TypeOK, RowInv, [Next]_vars, NEW s \in Subs, commits[s] # << >>
  PROVE  commits'[s] # << >>
<1>1. ASSUME NEW r \in Requests, Commit(r)
      PROVE  commits'[s] # << >>
  BY <1>1, CommitAppends
<1> QED BY <1>1, CommitCases

(* How a step moves one request, and what that does to its row's lock.     *)
Moves(r) == \/ req'[r] = req[r]
            \/ req[r].pc = "idle" /\ req'[r].kind = "create"
                  /\ req'[r].pc = "written" /\ lock'[req'[r].id] = r
            \/ req[r].pc = "idle" /\ req'[r].kind = "update"
                  /\ req'[r].pc = "read" /\ IsCreated(req'[r].id)
                  /\ req'[r].entity.updatedBy \in Users
                  /\ req'[r].id \in Subs
            \/ SameRequest(r) /\ req[r].pc = "read"
                  /\ req'[r].pc = "written" /\ lock'[req[r].id] = r
            \/ SameRequest(r) /\ req[r].pc = "written"
                  /\ req'[r].pc = "published" /\ lock' = lock
            \/ SameRequest(r) /\ req[r].pc = "published"
                  /\ req'[r].pc = "committed" /\ lock'[req[r].id] # r
            \/ SameRequest(r) /\ req[r].pc \in {"read", "written", "published"}
                  /\ (req[r].pc = "published" => "abortAfterPublish" \in Faults)
                  /\ req'[r].pc = "aborted" /\ lock'[req[r].id] # r

LEMMA EveryMove ==
  ASSUME TypeOK, RowInv, [Next]_vars, NEW q \in Requests
  PROVE  Moves(q)
<1>1. ASSUME NEW r \in Requests, NEW t \in Subs, NEW n \in Names,
             CreateInsert(r, t, n)
      PROVE  Moves(q)
  BY <1>1, CreateInsertView DEF OnlyMoves, Moves
<1>2. ASSUME NEW r \in Requests, NEW t \in Subs,
             NEW n \in Names \cup {NoName}, UpdateRead(r, t, n)
      PROVE  Moves(q)
  BY <1>2, UpdateReadView DEF OnlyMoves, Moves
<1>3. ASSUME NEW r \in Requests, UpdateWrite(r)
      PROVE  Moves(q)
  BY <1>3, UpdateWriteView DEF OnlyMoves, Moves
<1>4. ASSUME NEW r \in Requests, Publish(r)
      PROVE  Moves(q)
  BY <1>4, PublishView DEF OnlyMoves, Moves
<1>5. ASSUME NEW r \in Requests, PublishAgain(r)
      PROVE  Moves(q)
  BY <1>5, PublishAgainView DEF Moves
<1>6. ASSUME NEW r \in Requests, Commit(r)
      PROVE  Moves(q)
  BY <1>6, CommitView, MarkersAssumption DEF OnlyMoves, Moves
<1>7. ASSUME NEW r \in Requests, Abort(r)
      PROVE  Moves(q)
  BY <1>7, AbortView, MarkersAssumption DEF OnlyMoves, Moves
<1>8. CASE ConsumerSide
  BY <1>8, ConsumerSideView DEF Moves
<1> QED BY <1>1, <1>2, <1>3, <1>4, <1>5, <1>6, <1>7, <1>8, StepCases
LEMMA LockCases ==
  ASSUME TypeOK, RowInv, LockInv, [Next]_vars, NEW s \in Subs
  PROVE  \/ lock'[s] = lock[s]
         \/ \E r \in Requests : /\ lock[s] = NoRequest /\ lock'[s] = r
                                /\ req'[r].pc = "written" /\ req'[r].id = s
         \/ \E r \in Requests : /\ lock[s] = r /\ lock'[s] = NoRequest
                                /\ req'[r].pc \in {"committed", "aborted"}
<1> DEFINE Goal ==
         \/ lock'[s] = lock[s]
         \/ \E r \in Requests : /\ lock[s] = NoRequest /\ lock'[s] = r
                                /\ req'[r].pc = "written" /\ req'[r].id = s
         \/ \E r \in Requests : /\ lock[s] = r /\ lock'[s] = NoRequest
                                /\ req'[r].pc \in {"committed", "aborted"}
<1>0. lock[s] \in Requests \cup {NoRequest}
  BY DEF TypeOK
<1>1. ASSUME NEW r \in Requests, NEW t \in Subs, NEW n \in Names,
             CreateInsert(r, t, n)
      PROVE  Goal
  <2>1. /\ \A u \in Subs : u # t => lock'[u] = lock[u]
        /\ lock'[t] = r /\ req'[r].pc = "written" /\ req'[r].id = t
        /\ \A q \in Requests : req[q].pc # "idle" => req[q].id # t
    BY <1>1, CreateInsertFresh
  <2>2. CASE t # s
    BY <2>1, <2>2
  <2>3. CASE t = s
    <3>1. lock[s] = NoRequest
      BY <1>0, <2>1, <2>3 DEF LockInv
    <3> QED BY <2>1, <2>3, <3>1
  <2> QED BY <2>2, <2>3
<1>2. ASSUME NEW r \in Requests, NEW t \in Subs,
             NEW n \in Names \cup {NoName}, UpdateRead(r, t, n)
      PROVE  Goal
  BY <1>2, UpdateReadView
<1>3. ASSUME NEW r \in Requests, UpdateWrite(r)
      PROVE  Goal
  BY <1>3, UpdateWriteView DEF SameRequest
<1>4. ASSUME NEW r \in Requests, Publish(r)
      PROVE  Goal
  BY <1>4, PublishView
<1>5. ASSUME NEW r \in Requests, PublishAgain(r)
      PROVE  Goal
  BY <1>5, PublishAgainView
<1>6. ASSUME NEW r \in Requests, Commit(r)
      PROVE  Goal
  BY <1>6, CommitView
<1>7. ASSUME NEW r \in Requests, Abort(r)
      PROVE  Goal
  BY <1>7, AbortView
<1>8. ConsumerSide => Goal
  BY ConsumerSideView
<1> QED BY <1>1, <1>2, <1>3, <1>4, <1>5, <1>6, <1>7, <1>8, StepCases

LEMMA LockInvStep ==
  ASSUME TypeOK, RowInv, LockInv, [Next]_vars
  PROVE  LockInv'
<1> SUFFICES ASSUME NEW s \in Subs, lock'[s] # NoRequest
             PROVE  /\ req'[lock'[s]].pc \in {"written", "published"}
                    /\ req'[lock'[s]].id = s
  BY DEF LockInv
<1>1. CASE lock'[s] = lock[s]
  <2>1. PICK r \in Requests : r = lock[s]
    BY <1>1 DEF TypeOK
  <2>2. req[r].pc \in {"written", "published"} /\ req[r].id = s
    BY <1>1, <2>1 DEF LockInv
  <2> QED BY <1>1, <2>1, <2>2, EveryMove DEF Moves, SameRequest
<1> QED BY <1>1, LockCases

LEMMA RequestInvStep ==
  ASSUME TypeOK, RowInv, LockInv, RequestInv, [Next]_vars
  PROVE  RequestInv'
<1> SUFFICES ASSUME NEW r \in Requests, req'[r] # NotAsked
             PROVE  /\ req'[r].pc \in {"written", "published"}
                          => lock'[req'[r].id] = r
                    /\ req'[r].kind = "update" =>
                          /\ commits'[req'[r].id] # << >>
                          /\ req'[r].entity.updatedBy \in Users
                    /\ req'[r].kind = "create" => req'[r].pc # "read"
  BY DEF RequestInv, IsCreated
<1>1. Moves(r)
  BY EveryMove
<1>2. CASE req[r] = NotAsked
  <2>1. req[r].pc = "idle"
    BY <1>2 DEF NotAsked
  <2> QED BY <1>1, <1>2, <2>1, CreatedStays DEF Moves, IsCreated
<1>3. CASE req[r] # NotAsked
  <2>1. /\ req[r].pc \in {"written", "published"} => lock[req[r].id] = r
        /\ req[r].kind = "update" => /\ commits[req[r].id] # << >>
                                     /\ req[r].entity.updatedBy \in Users
        /\ req[r].kind = "create" => req[r].pc # "read"
        /\ req[r].pc # "idle" /\ req[r].id \in Subs
    BY <1>3, AskedFields, AskedPc DEF RequestInv, IsCreated
  <2>2. SameRequest(r)
    BY <2>1, RequestsKept
  <2>3. ASSUME req'[r].pc \in {"written", "published"}
        PROVE  lock'[req[r].id] = r
    <3>1. CASE req[r].pc \in {"written", "published"}
      <4>1. PICK s \in Subs : s = req[r].id
        BY <2>1
      <4>2. lock[s] = r /\ r # NoRequest
        BY <2>1, <3>1, <4>1, MarkersAssumption
      <4>3. lock'[s] = lock[s]
        BY <2>3, <4>2, LockCases
      <4> QED BY <4>1, <4>2, <4>3
    <3>2. CASE req[r].pc = "read"
      BY <1>1, <2>3, <3>2 DEF Moves
    <3> QED BY <1>1, <2>1, <2>3, <3>1, <3>2 DEF Moves
  <2>4. req[r].kind = "create" => req'[r].pc # "read"
    BY <1>1, <2>1 DEF Moves
  <2>5. req[r].kind = "update" => commits'[req[r].id] # << >>
    BY <2>1, CreatedStays
  <2> QED BY <2>1, <2>2, <2>3, <2>4, <2>5 DEF SameRequest
<1> QED BY <1>2, <1>3

LEMMA CreateInvStep ==
  ASSUME TypeOK, RowInv, CreateInv, [Next]_vars
  PROVE  CreateInv'
<1> SUFFICES ASSUME NEW r \in Requests, NEW q \in Requests,
                    req'[r] # NotAsked, req'[r].kind = "create",
                    req'[q] # NotAsked, req'[q].kind = "create",
                    req'[r].id = req'[q].id
             PROVE  r = q
  BY DEF CreateInv
<1>1. CASE req[r].pc # "idle" /\ req[q].pc # "idle"
  BY <1>1, RequestsKept, AskedPc DEF CreateInv, SameRequest
<1>2. ASSUME NEW p \in Requests, NEW t \in Subs, NEW n \in Names,
             CreateInsert(p, t, n)
      PROVE  r = q
  <2>0. /\ \A x \in Requests : x # p => req'[x] = req[x]
        /\ \A x \in Requests : req[x].pc # "idle" => req[x].id # t
        /\ req'[p].id = t
    BY <1>2, CreateInsertFresh
  <2>1. \A x \in Requests : x # p /\ req'[x] # NotAsked => req'[x].id # t
    BY <2>0, AskedPc
  <2>2. req'[p].id = t
    BY <2>0
  <2>3. r # p /\ q # p => r = q
    BY <1>1, <2>0, AskedPc
  <2> QED BY <2>1, <2>2, <2>3
<1>3. ASSUME NEW p \in Requests, NEW t \in Subs,
             NEW n \in Names \cup {NoName}, UpdateRead(p, t, n)
      PROVE  r = q
  <2>1. /\ \A x \in Requests : x # p => req'[x] = req[x]
        /\ req'[p].kind = "update"
    BY <1>3, UpdateReadView DEF OnlyMoves
  <2>2. r # p /\ q # p
    BY <2>1
  <2> QED BY <1>1, <2>1, <2>2, AskedPc
<1>4. ASSUME \A x \in Requests : req[x].pc = "idle" => req'[x] = req[x]
      PROVE  r = q
  BY <1>1, <1>4, AskedPc
<1>5. ASSUME NEW p \in Requests, UpdateWrite(p)
      PROVE  r = q
  BY <1>4, <1>5, UpdateWriteView DEF OnlyMoves
<1>6. ASSUME NEW p \in Requests, Publish(p)
      PROVE  r = q
  BY <1>4, <1>6, PublishView DEF OnlyMoves
<1>7. ASSUME NEW p \in Requests, PublishAgain(p)
      PROVE  r = q
  BY <1>4, <1>7, PublishAgainView
<1>8. ASSUME NEW p \in Requests, Commit(p)
      PROVE  r = q
  BY <1>4, <1>8, CommitView DEF OnlyMoves
<1>9. ASSUME NEW p \in Requests, Abort(p)
      PROVE  r = q
  BY <1>4, <1>9, AbortView DEF OnlyMoves
<1>10. ConsumerSide => r = q
  BY <1>4, ConsumerSideView
<1> QED BY <1>2, <1>3, <1>5, <1>6, <1>7, <1>8, <1>9, <1>10, StepCases
LEMMA CommitsInvStep ==
  ASSUME TypeOK, RowInv, LogInv, SentInv, RequestInv, CreateInv, CommitsInv,
         [Next]_vars
  PROVE  CommitsInv'
<1> SUFFICES ASSUME NEW s \in Subs
             PROVE  /\ \A i \in DOMAIN commits'[s] :
                          /\ req'[commits'[s][i]].pc = "committed"
                          /\ req'[commits'[s][i]].id = s
                          /\ i = 1 => req'[commits'[s][i]].kind = "create"
                    /\ \A i, j \in DOMAIN commits'[s] :
                          commits'[s][i] = commits'[s][j] => i = j
  BY DEF CommitsInv
<1>1. /\ \A i \in DOMAIN commits[s] :
            /\ req[commits[s][i]].pc = "committed"
            /\ req[commits[s][i]].id = s
            /\ i = 1 => req[commits[s][i]].kind = "create"
      /\ \A i, j \in DOMAIN commits[s] :
            commits[s][i] = commits[s][j] => i = j
  BY DEF CommitsInv
<1>2. \A i \in DOMAIN commits[s] : commits[s][i] \in Requests
  BY DEF TypeOK
<1>3. \A q \in Requests : req[q].pc = "committed" =>
         /\ req'[q].pc = "committed" /\ req'[q].id = req[q].id
         /\ req'[q].kind = req[q].kind
  BY RequestsKept DEF SameRequest
<1>4. CASE commits'[s] = commits[s]
  BY <1>1, <1>2, <1>3, <1>4
<1>5. ASSUME NEW r \in Requests, Commit(r), s = req[r].id
      PROVE  /\ \A i \in DOMAIN commits'[s] :
                   /\ req'[commits'[s][i]].pc = "committed"
                   /\ req'[commits'[s][i]].id = s
                   /\ i = 1 => req'[commits'[s][i]].kind = "create"
             /\ \A i, j \in DOMAIN commits'[s] :
                   commits'[s][i] = commits'[s][j] => i = j
  <2>1. PICK l \in Nat : l = Len(commits[s])
    BY <1>5, CommitAppends
  <2>2. /\ DOMAIN commits[s] = 1..l /\ DOMAIN commits'[s] = 1..(l + 1)
        /\ \A i \in 1..l : commits'[s][i] = commits[s][i]
        /\ commits'[s][l + 1] = r
    BY <1>5, <2>1, CommitAppends
  <2>3. /\ req[r].pc = "published" /\ req'[r].pc = "committed"
        /\ req'[r].kind = req[r].kind /\ req'[r].id = s
    BY <1>5, CommitView DEF SameRequest
  <2>4. \A i \in 1..l : commits[s][i] # r
    BY <1>1, <2>2, <2>3
  <2>5. ASSUME l = 0
        PROVE  req'[r].kind = "create"
    <3>1. commits[s] = << >>
      <4>1. commits[s] \in Seq(Requests)
        BY DEF TypeOK
      <4> QED BY <2>1, <2>5, <4>1, EmptySeq
    <3>2. req[r] # NotAsked /\ req[r].kind \in Topics
      BY <2>3, AskedFields
    <3>3. req[r].kind # "update"
      BY <1>5, <3>1, <3>2 DEF RequestInv, IsCreated
    <3> QED BY <2>3, <3>2, <3>3 DEF Topics
  <2>6. \A i \in 1..(l + 1) : i \in 1..l \/ i = l + 1
    OBVIOUS
  <2>7. ASSUME NEW i \in 1..(l + 1)
        PROVE  /\ req'[commits'[s][i]].pc = "committed"
               /\ req'[commits'[s][i]].id = s
               /\ i = 1 => req'[commits'[s][i]].kind = "create"
    <3>1. CASE i \in 1..l
      BY <1>1, <1>2, <1>3, <2>2, <3>1
    <3>2. CASE i = l + 1
      BY <2>2, <2>3, <2>5, <3>2
    <3> QED BY <2>6, <3>1, <3>2
  <2>8. ASSUME NEW i \in 1..(l + 1), NEW j \in 1..(l + 1),
               commits'[s][i] = commits'[s][j]
        PROVE  i = j
    BY <1>1, <2>2, <2>4, <2>6, <2>8
  <2> QED BY <2>2, <2>7, <2>8
<1>6. ASSUME NEW r \in Requests, Commit(r), s # req[r].id
      PROVE  commits'[s] = commits[s]
  BY <1>6, CommitAppends
<1> QED BY <1>4, <1>5, <1>6, CommitCases

LEMMA CommittedInvStep ==
  ASSUME TypeOK, RowInv, CommittedInv, [Next]_vars
  PROVE  CommittedInv'
<1> SUFFICES ASSUME NEW q \in Requests, req'[q].pc = "committed"
             PROVE  \E i \in DOMAIN commits'[req'[q].id] :
                        commits'[req'[q].id][i] = q
  BY DEF CommittedInv
<1>1. CASE req[q].pc = "committed"
  <2>1. req'[q].id = req[q].id /\ req[q].id \in Subs
    BY <1>1, RequestsKept, AskedFields DEF SameRequest
  <2>2. PICK i \in DOMAIN commits[req[q].id] : commits[req[q].id][i] = q
    BY <1>1 DEF CommittedInv
  <2>3. ASSUME NEW r \in Requests, Commit(r)
        PROVE  /\ i \in DOMAIN commits'[req[q].id]
               /\ commits'[req[q].id][i] = q
    <3>1. CASE req[q].id # req[r].id
      BY <2>1, <2>2, <2>3, <3>1, CommitAppends
    <3>2. CASE req[q].id = req[r].id
      <4>1. PICK s \in Subs : s = req[r].id
        BY <2>1, <3>2
      <4>2. /\ Len(commits[s]) \in Nat
            /\ DOMAIN commits[s] = 1..Len(commits[s])
            /\ DOMAIN commits'[s] = 1..(Len(commits[s]) + 1)
            /\ \A k \in DOMAIN commits[s] : commits'[s][k] = commits[s][k]
        BY <2>3, <4>1, CommitAppends
      <4> QED BY <2>2, <3>2, <4>1, <4>2
    <3> QED BY <3>1, <3>2
  <2> QED BY <1>1, <2>1, <2>2, <2>3, CommitCases
<1>2. ASSUME req[q].pc # "committed", NEW r \in Requests, Commit(r)
      PROVE  \E i \in DOMAIN commits'[req'[q].id] :
                commits'[req'[q].id][i] = q
  <2>1. q = r /\ req'[q].id = req[r].id
    BY <1>2, CommitView DEF OnlyMoves, SameRequest
  <2>2. PICK s \in Subs : s = req[r].id
    BY <1>2, CommitAppends
  <2>3. /\ Len(commits[s]) + 1 \in DOMAIN commits'[s]
        /\ commits'[s][Len(commits[s]) + 1] = r
    BY <1>2, <2>2, CommitAppends
  <2> QED BY <2>1, <2>2, <2>3
<1> QED BY <1>1, <1>2, CommitCases

(* Whoever has published and not ended is the only one on its row.         *)
LEMMA HolderUnique ==
  ASSUME TypeOK, RequestInv, NEW r \in Requests, NEW q \in Requests,
         req[r].pc \in {"written", "published"},
         req[q].pc \in {"written", "published"}, req[r].id = req[q].id
  PROVE  r = q
BY AskedFields DEF RequestInv

LEMMA OrderInvStep ==
  ASSUME TypeOK, RowInv, LogInv, RequestInv, OrderInv, [Next]_vars
  PROVE  OrderInv'
<1> SUFFICES ASSUME NEW r \in Requests, NEW q \in Requests,
                    req'[r].pc = "committed", req'[q].pc = "published",
                    req'[r].kind = req'[q].kind, req'[r].id = req'[q].id
             PROVE  \A a \in SentBy(r)', b \in SentBy(q)' : a < b
  BY DEF OrderInv
<1>1. Moves(r) /\ Moves(q)
  BY EveryMove
<1>2. req[r].pc \in {"published", "committed"} /\ SameRequest(r)
  BY <1>1 DEF Moves, SameRequest
<1>3. req[q].pc \in {"written", "published"} /\ SameRequest(q)
  BY <1>1 DEF Moves, SameRequest
<1>4. req[r].kind = req[q].kind /\ req[r].id = req[q].id
  BY <1>2, <1>3 DEF SameRequest
<1>5. req[r].pc = "committed" /\ r # q
  BY <1>2, <1>3, <1>4, HolderUnique
<1>6. \A a \in SentBy(r), b \in SentBy(q) : a < b
  BY <1>3, <1>4, <1>5, NothingSentYet DEF OrderInv, Sent
<1>7. CASE UNCHANGED log
  BY <1>2, <1>3, <1>6, <1>7, SentBySame
<1>8. ASSUME NEW p \in Requests, req[p].pc \in {"written", "published"},
             Sends(p)
      PROVE  \A a \in SentBy(r)', b \in SentBy(q)' : a < b
  <2>1. p # r /\ SentBy(r)' = SentBy(r)
    BY <1>2, <1>5, <1>8, SentBySends
  <2>2. CASE p # q
    <3>1. SentBy(q)' = SentBy(q)
      BY <1>3, <1>8, <2>2, SentBySends
    <3> QED BY <1>6, <2>1, <3>1
  <2>3. CASE p = q
    <3>1. PICK k \in Topics : k = req[q].kind
      BY <1>3, AskedFields
    <3>2. SentBy(q)' = SentBy(q) \cup {Len(log[k]) + 1}
      BY <1>3, <1>8, <2>3, <3>1, SentBySends
    <3>3. \A o \in SentBy(r) : o \in 1..Len(log[k])
      BY <1>4, <1>5, <3>1, SentByBound
    <3>4. Len(log[k]) \in Nat
      BY EntriesTyped
    <3>5. \A a \in SentBy(r) : a < Len(log[k]) + 1
      BY <3>3, <3>4
    <3> QED BY <1>6, <2>1, <3>2, <3>5
  <2> QED BY <2>2, <2>3
<1> QED BY <1>7, <1>8, LogStep

LEMMA CommitOrderStep ==
  ASSUME TypeOK, RowInv, LogInv, CommitsInv, OrderInv, LogOrderIsCommitOrder,
         [Next]_vars
  PROVE  LogOrderIsCommitOrder'
<1> SUFFICES ASSUME NEW s \in Subs,
                    NEW i \in DOMAIN commits'[s], NEW j \in DOMAIN commits'[s],
                    NEW r, NEW q, r = commits'[s][i], q = commits'[s][j],
                    i < j, req'[r].kind = req'[q].kind
             PROVE  \A a \in SentBy(r)', b \in SentBy(q)' : a < b
  BY DEF LogOrderIsCommitOrder
<1>1. ASSUME NEW x \in Requests, req[x].pc = "committed"
      PROVE  /\ SameRequest(x) /\ req[x].pc # "idle"
             /\ SentBy(x)' = SentBy(x)
  <2>1. SameRequest(x) /\ req[x].pc # "idle"
    BY <1>1, RequestsKept
  <2>2. CASE UNCHANGED log
    BY <2>1, <2>2, SentBySame
  <2>3. ASSUME NEW p \in Requests, req[p].pc \in {"written", "published"},
               Sends(p)
        PROVE  SentBy(x)' = SentBy(x)
    BY <1>1, <2>1, <2>3, SentBySends
  <2> QED BY <2>1, <2>2, <2>3, LogStep
<1>2. \A k \in DOMAIN commits[s] : /\ commits[s][k] \in Requests
                                   /\ req[commits[s][k]].pc = "committed"
                                   /\ req[commits[s][k]].id = s
  BY DEF CommitsInv, TypeOK
<1>3. ASSUME i \in DOMAIN commits[s], j \in DOMAIN commits[s],
             commits'[s][i] = commits[s][i], commits'[s][j] = commits[s][j]
      PROVE  \A a \in SentBy(r)', b \in SentBy(q)' : a < b
  <2>1. /\ r \in Requests /\ q \in Requests
        /\ SameRequest(r) /\ SameRequest(q)
        /\ SentBy(r)' = SentBy(r) /\ SentBy(q)' = SentBy(q)
    BY <1>1, <1>2, <1>3
  <2>2. r = commits[s][i] /\ q = commits[s][j] /\ req[r].kind = req[q].kind
    BY <1>3, <2>1 DEF SameRequest
  <2>3. \A a \in SentBy(r), b \in SentBy(q) : a < b
    BY <1>3, <2>2 DEF LogOrderIsCommitOrder
  <2> QED BY <2>1, <2>3
<1>4. CASE commits'[s] = commits[s]
  BY <1>3, <1>4
<1>5. ASSUME NEW p \in Requests, Commit(p), s = req[p].id
      PROVE  \A a \in SentBy(r)', b \in SentBy(q)' : a < b
  <2>1. PICK l \in Nat : l = Len(commits[s])
    BY <1>5, CommitAppends
  <2>2. /\ DOMAIN commits[s] = 1..l /\ DOMAIN commits'[s] = 1..(l + 1)
        /\ \A k \in 1..l : commits'[s][k] = commits[s][k]
        /\ commits'[s][l + 1] = p
    BY <1>5, <2>1, CommitAppends
  <2>3. i \in 1..l /\ (j \in 1..l \/ j = l + 1)
    BY <2>2
  <2>4. CASE j \in 1..l
    BY <1>3, <2>2, <2>3, <2>4
  <2>5. CASE j = l + 1
    <3>1. /\ q = p /\ r = commits[s][i] /\ r \in Requests
          /\ req[r].pc = "committed" /\ req[r].id = s
      BY <1>2, <2>2, <2>3, <2>5
    <3>2. req[p].pc = "published" /\ SameRequest(p) /\ UNCHANGED log
      BY <1>5, CommitView
    <3>3. SentBy(p)' = SentBy(p)
      BY <3>2, SentBySame
    <3>4. SentBy(r)' = SentBy(r) /\ SameRequest(r)
      BY <1>1, <3>1
    <3>5. req[r].kind = req[p].kind
      BY <3>1, <3>2, <3>4 DEF SameRequest
    <3>6. \A a \in SentBy(r), b \in SentBy(p) : a < b
      BY <1>5, <3>1, <3>2, <3>5 DEF OrderInv
    <3> QED BY <3>1, <3>3, <3>4, <3>6
  <2> QED BY <2>3, <2>4, <2>5
<1>6. ASSUME NEW p \in Requests, Commit(p), s # req[p].id
      PROVE  commits'[s] = commits[s]
  BY <1>6, CommitAppends
<1> QED BY <1>4, <1>5, <1>6, CommitCases
-----------------------------------------------------------------------------
(* The listener side: deliveries, the event at hand, the row.              *)
LEMMA BusyFields ==
  ASSUME TypeOK, D!DeliveryInv, NEW c \in Consumers,
         delivery[c].stage # "idle"
  PROVE  /\ delivery[c] # D!Idle
         /\ delivery[c].partition \in Topics /\ delivery[c].offset \in Nat
         /\ delivery[c].offset + 1 \in DOMAIN log[delivery[c].partition]
<1>1. delivery[c] # D!Idle
  BY DEF D!Idle
<1>2. delivery[c] \in D!Delivery
  BY <1>1 DEF TypeOK, D!TypeOK
<1>3. delivery[c].partition \in Topics /\ delivery[c].offset \in Nat
  BY <1>2 DEF D!Delivery
<1>4. delivery[c].offset < Len(log[delivery[c].partition])
  BY <1>1 DEF D!DeliveryInv
<1> QED BY <1>1, <1>3, <1>4, EntriesTyped

LEMMA EventFields ==
  ASSUME TypeOK, D!DeliveryInv, NEW c \in Consumers,
         delivery[c].stage # "idle"
  PROVE  /\ D!Event(c) \in Events /\ D!Event(c).id \in Subs
         /\ D!Event(c).name \in Names /\ D!Event(c).type \in Topics
         /\ D!Event(c) = log[delivery[c].partition][delivery[c].offset + 1]
BY BusyFields, EntriesTyped DEF D!Event

(* The event at hand is the one a request has sent.                        *)
LEMMA EventRequest ==
  ASSUME TypeOK, D!DeliveryInv, LogInv, NEW c \in Consumers,
         delivery[c].stage # "idle"
  PROVE  \E r \in Requests :
            /\ req[r].pc \in Sent /\ req[r].pc # "idle"
            /\ req[r].kind = delivery[c].partition
            /\ D!Event(c).type = req[r].kind /\ D!Event(c).id = req[r].id
            /\ D!Event(c).name = req[r].entity.name
            /\ D!Event(c).from = r
            /\ D!Event(c) = EventOf(r)
<1>1. PICK r \in Requests : /\ req[r].pc \in Sent
                            /\ req[r].kind = delivery[c].partition
                            /\ D!Event(c) = EventOf(r)
  BY BusyFields, EventFields DEF LogInv, Sent
<1>2. /\ EventOf(r).type = req[r].kind /\ EventOf(r).id = req[r].id
      /\ EventOf(r).name = req[r].entity.name /\ EventOf(r).from = r
  BY DEF EventOf
<1> QED BY <1>1, <1>2 DEF Sent

LEMMA UpdateEventUser ==
  ASSUME TypeOK, D!DeliveryInv, LogInv, RequestInv, NEW c \in Consumers,
         delivery[c].stage # "idle", D!Event(c).type = "update"
  PROVE  D!Event(c).updatedBy \in Users
<1>1. PICK r \in Requests : /\ req[r].pc # "idle" /\ req[r].kind = "update"
                            /\ D!Event(c) = EventOf(r)
  BY EventRequest
<1>2. req[r].entity.updatedBy \in Users
  BY <1>1, AskedPc DEF RequestInv
<1>3. EventOf(r).updatedBy = OrSystem(req[r].entity.updatedBy)
  BY <1>1 DEF EventOf
<1> QED BY <1>1, <1>2, <1>3, MarkersAssumption DEF OrSystem

LEMMA WorkFields ==
  ASSUME TypeOK, NEW c \in Consumers
  PROVE  /\ work[c] \in Work \cup {NoWork}
         /\ work[c].at = "start" <=> work[c] = NoWork
         /\ work[c].at \in {"start", "select", "insert", "resave", "update"}
         /\ work[c].at = "update" => work[c].entity \in Row
<1>1. work[c] \in Work \cup {NoWork}
  BY DEF TypeOK
<1>2. NoWork.at = "start"
  BY DEF NoWork
<1>3. ASSUME NEW w \in Work
      PROVE  /\ w.at \in {"select", "insert", "resave", "update"}
             /\ w.at = "update" => w.entity \in Row
  BY <1>3 DEF Work
<1> QED BY <1>1, <1>2, <1>3

(* The consumer c alone moves, and stays at its event.                     *)
SameDelivery(c) == /\ delivery'[c].partition = delivery[c].partition
                   /\ delivery'[c].offset = delivery[c].offset
                   /\ delivery'[c].stage # "idle"
OnlyDelivery(c) ==
    \A d \in Consumers : d # c => delivery'[d] = delivery[d]
OnlyWork(c) ==
    \A d \in Consumers : d # c => work'[d] = work[d]

LEMMA DeliveryRecord ==
  ASSUME NEW x \in D!Delivery, NEW n
  PROVE  LET y == [x EXCEPT !.stage = "settled"]
             z == [x EXCEPT !.stage = "listening"]
             w == [x EXCEPT !.stage = "heartbeat", !.attempt = n]
         IN  /\ y.stage = "settled" /\ z.stage = "listening"
             /\ w.stage = "heartbeat"
             /\ y.partition = x.partition /\ y.offset = x.offset
             /\ z.partition = x.partition /\ z.offset = x.offset
             /\ w.partition = x.partition /\ w.offset = x.offset
BY DEF D!Delivery

LEMMA StageBusy ==
  ASSUME TypeOK, NEW c \in Consumers, delivery[c].stage # "idle"
  PROVE  delivery[c] \in D!Delivery
BY DEF TypeOK, D!TypeOK, D!Idle

LEMMA EndAttemptView ==
  ASSUME TypeOK, NEW c \in Consumers, NEW x \in {"handled", "retryable"},
         D!EndAttempt(c, x)
  PROVE  /\ delivery[c].stage = "listening"
         /\ delivery'[c].stage \in {"settled", "heartbeat"}
         /\ SameDelivery(c) /\ OnlyDelivery(c)
         /\ UNCHANGED <<log, committed>>
<1>0. delivery[c].stage = "listening"
  BY DEF D!EndAttempt
<1>1. delivery \in [Consumers -> D!Delivery \cup {D!Idle}]
  BY DEF TypeOK, D!TypeOK
<1>2. PICK b \in D!Delivery : b = delivery[c]
  BY <1>0, StageBusy
<1>3. \/ delivery' = [delivery EXCEPT ![c].stage = "settled"]
      \/ delivery' = [delivery EXCEPT ![c].stage = "heartbeat",
                                      ![c].attempt = @ + 1]
  BY DEF D!EndAttempt, D!Settle
<1>4. OnlyDelivery(c)
  BY <1>1, <1>3 DEF OnlyDelivery
<1>5. \/ delivery'[c] = [b EXCEPT !.stage = "settled"]
      \/ delivery'[c] = [b EXCEPT !.stage = "heartbeat",
                                  !.attempt = b.attempt + 1]
  BY <1>1, <1>2, <1>3
<1>6. /\ delivery'[c].stage \in {"settled", "heartbeat"}
      /\ delivery'[c].partition = b.partition
      /\ delivery'[c].offset = b.offset
  <2>1. CASE delivery'[c] = [b EXCEPT !.stage = "settled"]
    BY <2>1, DeliveryRecord
  <2>2. CASE delivery'[c] = [b EXCEPT !.stage = "heartbeat",
                                      !.attempt = b.attempt + 1]
    BY <2>2 DEF D!Delivery
  <2> QED BY <1>5, <2>1, <2>2
<1>7. UNCHANGED <<log, committed>>
  BY DEF D!EndAttempt, D!kafka
<1> QED BY <1>0, <1>2, <1>4, <1>6, <1>7 DEF SameDelivery

LEMMA ReturnView ==
  ASSUME TypeOK, NEW c \in Consumers, NEW x \in {"handled", "retryable"},
         Return(c, x)
  PROVE  /\ delivery[c].stage = "listening"
         /\ delivery'[c].stage \in {"settled", "heartbeat"}
         /\ SameDelivery(c) /\ OnlyDelivery(c)
         /\ work'[c] = NoWork /\ OnlyWork(c)
         /\ UNCHANGED <<log, committed>>
<1>1. D!EndAttempt(c, x) /\ work' = [work EXCEPT ![c] = NoWork]
  BY DEF Return
<1>2. work'[c] = NoWork /\ OnlyWork(c)
  BY <1>1 DEF TypeOK, OnlyWork
<1> QED BY <1>1, <1>2, EndAttemptView

LEMMA ProceedView ==
  ASSUME TypeOK, NEW c \in Consumers, NEW w, Proceed(c, w)
  PROVE  /\ work'[c] = w /\ OnlyWork(c)
         /\ UNCHANGED <<log, committed, delivery>>
BY DEF Proceed, TypeOK, OnlyWork, daemon

(* What the daemon does around execute: it never runs while the consumer   *)
(* is listening, except to begin.                                          *)
LEMMA DaemonView ==
  ASSUME TypeOK, NEW c \in Consumers, DaemonStep(c)
  PROVE  /\ delivery[c].stage # "listening" /\ OnlyDelivery(c)
         /\ UNCHANGED <<log, row, lock, req, work, commits>>
         /\ \/ \E t \in Topics :
                  /\ delivery[c] = D!Idle /\ delivery'[c].stage = "heartbeat"
                  /\ delivery'[c].partition = t
                  /\ delivery'[c].offset = committed[t]
                  /\ committed' = committed
            \/ /\ SameDelivery(c) /\ delivery'[c].stage = "listening"
               /\ delivery[c].stage = "heartbeat"
               /\ committed' = committed
            \/ delivery'[c] = D!Idle /\ committed' = committed
            \/ /\ delivery'[c] = D!Idle
               /\ delivery[c].stage = "settled"
               /\ committed'[delivery[c].partition] = delivery[c].offset + 1
               /\ \A t \in Topics : t # delivery[c].partition =>
                     committed'[t] = committed[t]
<1>1. delivery \in [Consumers -> D!Delivery \cup {D!Idle}]
  BY DEF TypeOK, D!TypeOK
<1>2. UNCHANGED <<row, lock, req, work, commits>>
  BY DEF DaemonStep, api
<1>3. ASSUME NEW t \in Topics, D!Deliver(c, t)
      PROVE  /\ delivery[c] = D!Idle /\ delivery'[c].stage = "heartbeat"
             /\ delivery'[c].partition = t
             /\ delivery'[c].offset = committed[t]
             /\ UNCHANGED <<log, committed>> /\ OnlyDelivery(c)
  BY <1>1, <1>3 DEF D!Deliver, D!kafka, OnlyDelivery
<1>4. CASE D!StartAttempt(c)
  <2>1. PICK b \in D!Delivery : b = delivery[c]
    BY <1>4, StageBusy DEF D!StartAttempt
  <2>2. delivery' = [delivery EXCEPT ![c].stage = "listening"]
    BY <1>4 DEF D!StartAttempt
  <2>3. delivery'[c] = [b EXCEPT !.stage = "listening"]
    BY <1>1, <2>1, <2>2
  <2>4. SameDelivery(c) /\ delivery'[c].stage = "listening"
    BY <2>1, <2>3, DeliveryRecord DEF SameDelivery
  <2>5. OnlyDelivery(c)
    BY <1>1, <2>2 DEF OnlyDelivery
  <2>6. delivery[c].stage = "heartbeat" /\ UNCHANGED <<log, committed>>
    BY <1>4 DEF D!StartAttempt, D!kafka
  <2> QED BY <1>2, <2>4, <2>5, <2>6
<1>5. CASE D!HeartbeatThrows(c) \/ D!CommitRejected(c)
  <2>1. /\ delivery' = [delivery EXCEPT ![c] = D!Idle]
        /\ delivery[c].stage \in {"heartbeat", "settled"}
        /\ UNCHANGED <<log, committed>>
    BY <1>5 DEF D!HeartbeatThrows, D!CommitRejected, D!kafka
  <2>2. delivery'[c] = D!Idle /\ OnlyDelivery(c)
    BY <1>1, <2>1 DEF OnlyDelivery
  <2> QED BY <1>2, <2>1, <2>2
<1>6. CASE D!CommitOffset(c)
  <2>1. /\ delivery' = [delivery EXCEPT ![c] = D!Idle]
        /\ delivery[c].stage = "settled"
        /\ committed' = [committed EXCEPT ![delivery[c].partition] =
                                             delivery[c].offset + 1]
        /\ UNCHANGED log
    BY <1>6 DEF D!CommitOffset
  <2>2. delivery'[c] = D!Idle /\ OnlyDelivery(c)
    BY <1>1, <2>1 DEF OnlyDelivery
  <2>3. delivery[c].partition \in Topics
    BY <2>1, StageBusy DEF D!Delivery
  <2>4. committed \in [Topics -> Nat]
    BY DEF TypeOK, D!TypeOK
  <2> QED BY <1>2, <2>1, <2>2, <2>3, <2>4
<1>7. D!Idle.stage = "idle"
  BY DEF D!Idle
<1>8. \/ \E t \in Topics : D!Deliver(c, t)
      \/ D!StartAttempt(c) \/ D!HeartbeatThrows(c) \/ D!CommitRejected(c)
      \/ D!CommitOffset(c)
  BY DEF DaemonStep
<1> QED BY <1>2, <1>3, <1>4, <1>5, <1>6, <1>7, <1>8

LEMMA CrashView ==
  ASSUME TypeOK, NEW c \in Consumers, ConsumerCrash(c)
  PROVE  /\ delivery'[c] = D!Idle /\ OnlyDelivery(c)
         /\ work'[c] = NoWork /\ OnlyWork(c)
         /\ UNCHANGED <<log, committed, row, lock, req, commits>>
<1>1. delivery \in [Consumers -> D!Delivery \cup {D!Idle}]
  BY DEF TypeOK, D!TypeOK
<1> QED BY <1>1 DEF ConsumerCrash, D!Crash, TypeOK, OnlyDelivery, OnlyWork, api

LEMMA RebalanceView ==
  ASSUME GroupRebalance
  PROVE  UNCHANGED <<log, committed, delivery, row, lock, req, work, commits>>
BY DEF GroupRebalance, D!Rebalance, api
-----------------------------------------------------------------------------
(* The forms a step of execute takes.                                      *)
Typed == /\ row' \in [Subs -> Row \cup {NoRow}]
         /\ work' \in [Consumers -> Work \cup {NoWork}]

Goes(c, at) == /\ work'[c] \in Work /\ work'[c].at = at
               /\ UNCHANGED <<row, delivery>>

Reads(c) == /\ Goes(c, "select") /\ work[c] = NoWork
            /\ D!Event(c).type = "create" /\ row[D!Event(c).id] = NoRow

Selects(c) == /\ work[c].at = "select"
              /\ \/ Goes(c, "insert")
                 \/ Goes(c, "resave") /\ row[D!Event(c).id] # NoRow

Plans(c) == /\ Goes(c, "update") /\ work[c] = NoWork
            /\ D!Event(c).type = "update" /\ row[D!Event(c).id] # NoRow
            /\ work'[c].entity.name = D!Event(c).name

Returns(c) == /\ work'[c] = NoWork /\ SameDelivery(c)
              /\ delivery'[c].stage \in {"settled", "heartbeat"}

Leaves(c) == /\ Returns(c) /\ UNCHANGED row
             /\ \/ "listenerError" \in Faults
                \/ D!Event(c).type = "create"
                \/ row[D!Event(c).id] = NoRow
                \/ row[D!Event(c).id].name = D!Event(c).name

WritesRow(c) ==
    /\ Returns(c) /\ lock[D!Event(c).id] = NoRequest
    /\ row'[D!Event(c).id] \in Row
    /\ row'[D!Event(c).id].name = D!Event(c).name
    /\ \A s \in Subs : s # D!Event(c).id => row'[s] = row[s]

Inserts(c) == /\ WritesRow(c) /\ work[c].at = "insert"
              /\ row[D!Event(c).id] = NoRow
Resaves(c) == WritesRow(c) /\ work[c].at = "resave"
Rewrites(c) == WritesRow(c) /\ work[c].at = "update"

Executes(c) == /\ Typed
               /\ \/ Reads(c) \/ Selects(c) \/ Plans(c) \/ Leaves(c)
                  \/ Inserts(c) \/ Resaves(c) \/ Rewrites(c)

LEMMA ReturnResults == WriteResults \subseteq {"handled", "retryable"}
BY DEF WriteResults

LEMMA ReturnForm ==
  ASSUME TypeOK, NEW c \in Consumers, NEW x \in {"handled", "retryable"},
         Return(c, x)
  PROVE  /\ Returns(c) /\ OnlyWork(c) /\ OnlyDelivery(c)
         /\ delivery[c].stage = "listening"
         /\ UNCHANGED <<log, committed>>
         /\ work' \in [Consumers -> Work \cup {NoWork}]
         /\ UNCHANGED row => Typed
<1>1. work' \in [Consumers -> Work \cup {NoWork}]
  BY DEF Return, TypeOK
<1>2. row \in [Subs -> Row \cup {NoRow}]
  BY DEF TypeOK
<1> QED BY <1>1, <1>2, ReturnView DEF Returns, Typed

LEMMA ProceedForm ==
  ASSUME TypeOK, NEW c \in Consumers, NEW w \in Work, Proceed(c, w),
         UNCHANGED row
  PROVE  /\ Goes(c, w.at) /\ OnlyWork(c) /\ OnlyDelivery(c)
         /\ work'[c] = w
         /\ UNCHANGED <<log, committed>>
         /\ Typed
<1>1. Typed
  BY DEF Proceed, TypeOK, Typed
<1> QED BY <1>1, ProceedView DEF Goes, OnlyDelivery

LEMMA ExecuteForms ==
  ASSUME TypeOK, D!DeliveryInv, LogInv, RequestInv, WorkInv,
         NEW c \in Consumers, ListenerStep(c)
  PROVE  /\ delivery[c].stage = "listening"
         /\ OnlyWork(c) /\ OnlyDelivery(c)
         /\ UNCHANGED <<log, committed, lock, req, commits>>
         /\ Executes(c)
<1> DEFINE Frame == /\ delivery[c].stage = "listening"
                    /\ OnlyWork(c) /\ OnlyDelivery(c)
                    /\ UNCHANGED <<log, committed>>
<1>0. SUFFICES Executes(c) /\ Frame
  BY ConsumerSideView DEF ConsumerSide
<1>1. CASE CreatedRead(c)
  <2>1. /\ delivery[c].stage = "listening" /\ D!Event(c).type = "create"
        /\ work[c] = NoWork /\ UNCHANGED row
    BY <1>1 DEF CreatedRead, Listening
  <2>2. CASE row[D!Event(c).id] = NoRow /\ Proceed(c, [at |-> "select"])
    <3>1. [at |-> "select"] \in Work
      BY DEF Work
    <3>2. Goes(c, "select") /\ Frame /\ Typed
      BY <2>1, <2>2, <3>1, ProceedForm
    <3> QED BY <2>1, <2>2, <3>2 DEF Reads, Executes
  <2>3. CASE Return(c, "handled")
    BY <2>1, <2>3, ReturnForm DEF Leaves, Executes
  <2> QED BY <1>1, <2>2, <2>3 DEF CreatedRead, EventRow
<1>2. CASE CreatedSelect(c)
  <2>1. work[c].at = "select" /\ work[c] # NoWork /\ UNCHANGED row
    BY <1>2, WorkFields DEF CreatedSelect
  <2>2. delivery[c].stage = "listening"
    BY <2>1 DEF WorkInv
  <2>3. CASE row[D!Event(c).id] = NoRow
    <3>1. [at |-> "insert"] \in Work /\ Proceed(c, [at |-> "insert"])
      BY <1>2, <2>3 DEF Work, CreatedSelect, EventRow
    <3>2. Goes(c, "insert") /\ Frame /\ Typed
      BY <2>1, <2>2, <3>1, ProceedForm
    <3> QED BY <2>1, <3>2 DEF Selects, Executes
  <2>4. CASE row[D!Event(c).id] # NoRow
    <3>1. row[D!Event(c).id] \in Row
      BY <2>2, <2>4, EventFields DEF TypeOK
    <3>2. row[D!Event(c).id].name \in Names
      BY <3>1 DEF Row
    <3>3. PICK w \in Work : w = [at |-> "resave",
                                 seen |-> row[D!Event(c).id].name]
      BY <3>2 DEF Work
    <3>4. Proceed(c, w) /\ w.at = "resave"
      BY <1>2, <2>4, <3>3 DEF CreatedSelect, EventRow
    <3>5. Goes(c, "resave") /\ Frame /\ Typed
      BY <2>1, <2>2, <3>4, ProceedForm
    <3> QED BY <2>1, <2>4, <3>5 DEF Selects, Executes
  <2> QED BY <2>3, <2>4
<1>3. CASE CreatedInsert(c)
  <2>1. work[c].at = "insert" /\ work[c] # NoWork
    BY <1>3, WorkFields DEF CreatedInsert
  <2>2. delivery[c].stage = "listening" /\ D!Event(c).type = "create"
    BY <2>1 DEF WorkInv
  <2>3. PICK e \in Events : e = D!Event(c) /\ e.id \in Subs /\ e.name \in Names
    BY <2>2, EventFields
  <2>4. CASE row[e.id] = NoRow
    <3>1. PICK x \in WriteResults : Return(c, x)
      BY <1>3, <2>3, <2>4 DEF CreatedInsert, EventRow
    <3>2. Returns(c) /\ Frame
      BY <3>1, ReturnResults, ReturnForm
    <3>3. PICK y \in Row : /\ y = [name |-> e.name, createdBy |-> NoOne,
                                   updatedBy |-> NoOne]
                           /\ y.name = e.name
      <4>1. [name |-> e.name, createdBy |-> NoOne, updatedBy |-> NoOne] \in Row
        BY <2>3 DEF Row
      <4> QED BY <4>1
    <3>4. row' = [row EXCEPT ![e.id] = y] /\ lock[e.id] = NoRequest
      BY <1>3, <2>3, <2>4, <3>3 DEF CreatedInsert, EventRow
    <3>5. row'[e.id] = y /\ \A s \in Subs : s # e.id => row'[s] = row[s]
      BY <2>3, <3>4 DEF TypeOK
    <3>6. Typed
      BY <3>1, <3>4, ReturnResults, ReturnForm DEF Typed, TypeOK
    <3> QED BY <2>1, <2>3, <2>4, <3>2, <3>3, <3>4, <3>5, <3>6
            DEF Inserts, WritesRow, Executes
  <2>5. CASE row[e.id] # NoRow
    <3>1. Return(c, "retryable") /\ UNCHANGED row
      BY <1>3, <2>3, <2>5 DEF CreatedInsert, EventRow
    <3> QED BY <2>2, <3>1, ReturnForm DEF Leaves, Executes
  <2> QED BY <2>4, <2>5
<1>4. CASE CreatedResave(c)
  <2>1. /\ work[c].at = "resave" /\ work[c] # NoWork
        /\ lock[D!Event(c).id] = NoRequest
    BY <1>4, WorkFields DEF CreatedResave
  <2>2. /\ delivery[c].stage = "listening" /\ D!Event(c).type = "create"
        /\ row[D!Event(c).id] # NoRow
    BY <2>1 DEF WorkInv, EventRow
  <2>3. PICK e \in Events : e = D!Event(c) /\ e.id \in Subs /\ e.name \in Names
    BY <2>2, EventFields
  <2>4. PICK x \in WriteResults : Return(c, x)
    BY <1>4 DEF CreatedResave
  <2>5. Returns(c) /\ Frame
    BY <2>4, ReturnResults, ReturnForm
  <2>6. CASE row' = row
    BY <2>2, <2>4, <2>5, <2>6, ReturnResults, ReturnForm DEF Leaves, Executes
  <2>7. CASE row' = [row EXCEPT ![e.id].name = e.name]
    <3>1. PICK y \in Row : y = row[e.id]
      BY <2>2, <2>3 DEF TypeOK
    <3>2. row' = [row EXCEPT ![e.id] = [y EXCEPT !.name = e.name]]
      BY <2>7, <3>1
    <3>3. [y EXCEPT !.name = e.name] \in Row
      BY <2>3 DEF Row
    <3>4. [y EXCEPT !.name = e.name].name = e.name
      BY DEF Row
    <3>5. /\ row'[e.id] \in Row /\ row'[e.id].name = e.name
          /\ \A s \in Subs : s # e.id => row'[s] = row[s]
      BY <2>3, <3>2, <3>3, <3>4 DEF TypeOK
    <3>6. Typed
      BY <2>4, <3>2, <3>3, ReturnResults, ReturnForm DEF Typed, TypeOK
    <3> QED BY <2>1, <2>3, <2>5, <3>5, <3>6 DEF Resaves, WritesRow, Executes
  <2> QED BY <1>4, <2>3, <2>6, <2>7 DEF CreatedResave
<1>5. CASE UpdatedRead(c)
  <2>1. /\ delivery[c].stage = "listening" /\ D!Event(c).type = "update"
        /\ work[c] = NoWork /\ UNCHANGED row
    BY <1>5 DEF UpdatedRead, Listening
  <2>2. PICK e \in Events : e = D!Event(c) /\ e.id \in Subs /\ e.name \in Names
    BY <2>1, EventFields
  <2>3. e.updatedBy \in Users
    BY <2>1, <2>2, UpdateEventUser
  <2>4. CASE /\ row[e.id] = NoRow \/ IsUpdateReflected(row[e.id], e)
             /\ Return(c, "handled")
    BY <2>1, <2>2, <2>4, ReturnForm DEF Leaves, Executes, IsUpdateReflected
  <2>5. CASE /\ row[e.id] # NoRow
             /\ Proceed(c, [at |-> "update",
                            entity |-> Preserved(e.id,
                               Updated(row[e.id], e.name, e.updatedBy))])
    <3>1. row[e.id] \in Row
      BY <2>2, <2>5 DEF TypeOK
    <3>2. PICK y \in Row : /\ y = Updated(row[e.id], e.name, e.updatedBy)
                           /\ y.name = e.name
      BY <2>2, <2>3, <3>1, UpdatedTyped
    <3>3. PICK z \in Row : z = Preserved(e.id, y) /\ z.name = e.name
      BY <2>2, <3>2, PreservedTyped
    <3>4. PICK w \in Work : /\ w = [at |-> "update", entity |-> z]
                            /\ w.at = "update" /\ w.entity = z
      <4>1. [at |-> "update", entity |-> z] \in Work
        BY DEF Work
      <4> QED BY <4>1
    <3>5. Proceed(c, w)
      BY <2>5, <3>2, <3>3, <3>4
    <3>6. Goes(c, "update") /\ Frame /\ Typed /\ work'[c] = w
      BY <2>1, <3>4, <3>5, ProceedForm
    <3> QED BY <2>1, <2>2, <2>5, <3>3, <3>4, <3>6 DEF Plans, Executes
  <2> QED BY <1>5, <2>2, <2>4, <2>5 DEF UpdatedRead, EventRow
<1>6. CASE UpdatedWrite(c)
  <2>1. /\ work[c].at = "update" /\ work[c] # NoWork
        /\ lock[D!Event(c).id] = NoRequest
    BY <1>6, WorkFields DEF UpdatedWrite
  <2>2. /\ delivery[c].stage = "listening"
        /\ work[c].entity.name = D!Event(c).name
    BY <2>1 DEF WorkInv
  <2>3. PICK e \in Events : e = D!Event(c) /\ e.id \in Subs
    BY <2>2, EventFields
  <2>4. PICK x \in WriteResults : Return(c, x)
    BY <1>6 DEF UpdatedWrite
  <2>5. Returns(c) /\ Frame
    BY <2>4, ReturnResults, ReturnForm
  <2>6. row' = [row EXCEPT ![e.id] = work[c].entity]
    BY <1>6, <2>3 DEF UpdatedWrite
  <2>7. work[c].entity \in Row
    BY <2>1, WorkFields
  <2>8. /\ row'[e.id] = work[c].entity
        /\ \A s \in Subs : s # e.id => row'[s] = row[s]
    BY <2>3, <2>6 DEF TypeOK
  <2>9. Typed
    BY <2>4, <2>6, <2>7, ReturnResults, ReturnForm DEF Typed, TypeOK
  <2> QED BY <2>1, <2>2, <2>3, <2>5, <2>7, <2>8, <2>9
          DEF Rewrites, WritesRow, Executes
<1>7. CASE ListenerError(c)
  <2>1. "listenerError" \in Faults /\ Return(c, "retryable") /\ UNCHANGED row
    BY <1>7 DEF ListenerError
  <2> QED BY <2>1, ReturnForm DEF Leaves, Executes
<1> QED BY <1>1, <1>2, <1>3, <1>4, <1>5, <1>6, <1>7 DEF ListenerStep
-----------------------------------------------------------------------------
LEMMA EventKept ==
  ASSUME TypeOK, D!DeliveryInv, RowInv, [Next]_vars, NEW c \in Consumers,
         delivery[c].stage # "idle",
         delivery'[c].partition = delivery[c].partition,
         delivery'[c].offset = delivery[c].offset
  PROVE  D!Event(c)' = D!Event(c)
<1>1. /\ delivery[c].partition \in Topics
      /\ delivery[c].offset + 1 \in DOMAIN log[delivery[c].partition]
  BY BusyFields
<1> QED BY <1>1, EntriesKept DEF D!Event

LEMMA RowOfTyped ==
  ASSUME TypeOK, NEW r \in Requests, req[r].pc # "idle"
  PROVE  /\ RowOf(r) \in Row /\ RowOf(r) # NoRow
         /\ RowOf(r).name = req[r].entity.name
BY AskedFields, PreservedTyped, NoRowAssumption DEF RowOf

(* Who writes the row: a commit, or a listener under no lock.              *)
WritesFor(c) == /\ delivery[c].stage = "listening" /\ WritesRow(c)
                /\ Inserts(c) \/ Resaves(c) \/ Rewrites(c)

LEMMA RowCases ==
  ASSUME TypeOK, D!DeliveryInv, LogInv, RequestInv, WorkInv, RowInv,
         [Next]_vars
  PROVE  \/ UNCHANGED row
         \/ \E r \in Requests : Commit(r)
         \/ \E c \in Consumers : WritesFor(c)
<1>1. ASSUME NEW r \in Requests, NEW t \in Subs, NEW n \in Names,
             CreateInsert(r, t, n)
      PROVE  UNCHANGED row
  BY <1>1, CreateInsertView
<1>2. ASSUME NEW r \in Requests, NEW t \in Subs,
             NEW n \in Names \cup {NoName}, UpdateRead(r, t, n)
      PROVE  UNCHANGED row
  BY <1>2, UpdateReadView
<1>3. ASSUME NEW r \in Requests, UpdateWrite(r)
      PROVE  UNCHANGED row
  BY <1>3, UpdateWriteView
<1>4. ASSUME NEW r \in Requests, Publish(r)
      PROVE  UNCHANGED row
  BY <1>4, PublishView
<1>5. ASSUME NEW r \in Requests, PublishAgain(r)
      PROVE  UNCHANGED row
  BY <1>5, PublishAgainView
<1>6. ASSUME NEW r \in Requests, Abort(r)
      PROVE  UNCHANGED row
  BY <1>6, AbortView
<1>7. ASSUME NEW c \in Consumers, ListenerStep(c)
      PROVE  UNCHANGED row \/ WritesFor(c)
  BY <1>7, ExecuteForms
     DEF Executes, Reads, Selects, Plans, Leaves, Goes, WritesFor, Inserts,
         Resaves, Rewrites
<1>8. ASSUME NEW c \in Consumers, DaemonStep(c) \/ ConsumerCrash(c)
      PROVE  UNCHANGED row
  BY <1>8, DaemonView, CrashView
<1>9. GroupRebalance \/ UNCHANGED vars => UNCHANGED row
  BY RebalanceView DEF vars
<1>10. ConsumerSide => UNCHANGED row \/ \E c \in Consumers : WritesFor(c)
  BY <1>7, <1>8, <1>9 DEF ConsumerSide
<1> QED BY <1>1, <1>2, <1>3, <1>4, <1>5, <1>6, <1>10, StepCases

LEMMA RowKept ==
  ASSUME TypeOK, D!DeliveryInv, LogInv, RequestInv, WorkInv, RowInv,
         [Next]_vars, NEW s \in Subs, row[s] # NoRow
  PROVE  row'[s] # NoRow
<1>1. ASSUME NEW r \in Requests, Commit(r)
      PROVE  row'[s] # NoRow
  BY <1>1, CommitView, RowOfTyped
<1>2. ASSUME NEW c \in Consumers, WritesFor(c)
      PROVE  row'[s] # NoRow
  BY <1>2, NoRowAssumption DEF WritesFor, WritesRow
<1> QED BY <1>1, <1>2, RowCases

LEMMA RowInvStep ==
  ASSUME TypeOK, D!DeliveryInv, LogInv, RequestInv, WorkInv, RowInv,
         [Next]_vars
  PROVE  RowInv'
<1> SUFFICES ASSUME NEW s \in Subs, commits'[s] # << >>
             PROVE  row'[s] # NoRow
  BY DEF RowInv, IsCreated
<1>1. CASE commits[s] # << >>
  BY <1>1, RowKept DEF RowInv, IsCreated
<1>2. ASSUME NEW r \in Requests, Commit(r), commits[s] = << >>
      PROVE  row'[s] # NoRow
  <2>1. s = req[r].id /\ req[r].pc # "idle"
    BY <1>2, CommitAppends, CommitView
  <2> QED BY <1>2, <2>1, CommitView, RowOfTyped
<1> QED BY <1>1, <1>2, CommitCases

LEMMA WorkInvStep ==
  ASSUME TypeOK, D!DeliveryInv, LogInv, RequestInv, WorkInv, RowInv,
         [Next]_vars
  PROVE  WorkInv'
<1> SUFFICES ASSUME NEW d \in Consumers, work'[d] # NoWork
             PROVE  /\ delivery'[d].stage = "listening"
                    /\ D!Event(d)'.type = IF work'[d].at = "update"
                                          THEN "update" ELSE "create"
                    /\ work'[d].at \in {"resave", "update"} =>
                          row'[D!Event(d)'.id] # NoRow
                    /\ work'[d].at = "update" =>
                          work'[d].entity.name = D!Event(d)'.name
  BY DEF WorkInv, EventRow
<1>1. ASSUME work'[d] = work[d], delivery'[d] = delivery[d]
      PROVE  /\ delivery'[d].stage = "listening"
             /\ D!Event(d)'.type = IF work'[d].at = "update"
                                   THEN "update" ELSE "create"
             /\ work'[d].at \in {"resave", "update"} =>
                   row'[D!Event(d)'.id] # NoRow
             /\ work'[d].at = "update" =>
                   work'[d].entity.name = D!Event(d)'.name
  <2>1. /\ delivery[d].stage = "listening"
        /\ D!Event(d).type = IF work[d].at = "update"
                             THEN "update" ELSE "create"
        /\ work[d].at \in {"resave", "update"} => row[D!Event(d).id] # NoRow
        /\ work[d].at = "update" => work[d].entity.name = D!Event(d).name
    BY <1>1 DEF WorkInv, EventRow
  <2>2. D!Event(d)' = D!Event(d) /\ D!Event(d).id \in Subs
    BY <1>1, <2>1, EventKept, EventFields
  <2>3. work[d].at \in {"resave", "update"} => row'[D!Event(d).id] # NoRow
    BY <2>1, <2>2, RowKept
  <2> QED BY <1>1, <2>1, <2>2, <2>3
<1> DEFINE Kept == work'[d] = work[d] /\ delivery'[d] = delivery[d]
<1>2. ASSUME NEW r \in Requests, NEW t \in Subs, NEW n \in Names,
             CreateInsert(r, t, n)
      PROVE  Kept
  BY <1>2, CreateInsertView
<1>3. ASSUME NEW r \in Requests, NEW t \in Subs,
             NEW n \in Names \cup {NoName}, UpdateRead(r, t, n)
      PROVE  Kept
  BY <1>3, UpdateReadView
<1>4. ASSUME NEW r \in Requests, UpdateWrite(r)
      PROVE  Kept
  BY <1>4, UpdateWriteView
<1>5. ASSUME NEW r \in Requests, Publish(r)
      PROVE  Kept
  BY <1>5, PublishView
<1>6. ASSUME NEW r \in Requests, PublishAgain(r)
      PROVE  Kept
  BY <1>6, PublishAgainView
<1>7. ASSUME NEW r \in Requests, Commit(r)
      PROVE  Kept
  BY <1>7, CommitView
<1>8. ASSUME NEW r \in Requests, Abort(r)
      PROVE  Kept
  BY <1>8, AbortView
<1>9. ASSUME NEW c \in Consumers, DaemonStep(c)
      PROVE  Kept
  <2>1. delivery[c].stage # "listening" /\ work' = work /\ OnlyDelivery(c)
    BY <1>9, DaemonView
  <2>2. d # c
    BY <2>1 DEF WorkInv
  <2> QED BY <2>1, <2>2 DEF OnlyDelivery
<1>10. ASSUME NEW c \in Consumers, ConsumerCrash(c)
       PROVE  Kept
  BY <1>10, CrashView DEF OnlyWork, OnlyDelivery
<1>11. GroupRebalance \/ UNCHANGED vars => Kept
  BY RebalanceView DEF vars
<1>12. ASSUME NEW c \in Consumers, ListenerStep(c), d # c
       PROVE  Kept
  BY <1>12, ExecuteForms DEF OnlyWork, OnlyDelivery
<1>13. ASSUME ListenerStep(d)
       PROVE  /\ delivery'[d].stage = "listening"
              /\ D!Event(d)'.type = IF work'[d].at = "update"
                                    THEN "update" ELSE "create"
              /\ work'[d].at \in {"resave", "update"} =>
                    row'[D!Event(d)'.id] # NoRow
              /\ work'[d].at = "update" =>
                    work'[d].entity.name = D!Event(d)'.name
  <2>1. delivery[d].stage = "listening" /\ Executes(d)
    BY <1>13, ExecuteForms
  <2>2. Reads(d) \/ Selects(d) \/ Plans(d)
    BY <2>1 DEF Executes, Leaves, Inserts, Resaves, Rewrites, WritesRow, Returns
  <2>3. delivery' = delivery /\ row' = row
    BY <2>2 DEF Reads, Selects, Plans, Goes
  <2>4. D!Event(d)' = D!Event(d)
    BY <2>1, <2>3, EventKept
  <2>5. CASE Reads(d)
    BY <2>1, <2>3, <2>4, <2>5 DEF Reads, Goes
  <2>6. CASE Plans(d)
    BY <2>1, <2>3, <2>4, <2>6 DEF Plans, Goes
  <2>7. CASE Selects(d)
    <3>1. D!Event(d).type = "create"
      BY <2>7, WorkFields DEF Selects, WorkInv
    <3> QED BY <2>1, <2>3, <2>4, <2>7, <3>1 DEF Selects, Goes
  <2> QED BY <2>2, <2>5, <2>6, <2>7
<1>14. CASE Kept
  BY <1>1, <1>14
<1>15. CASE ConsumerSide
  <2>1. ASSUME NEW c \in Consumers, ListenerStep(c)
        PROVE  c = d \/ Kept
    BY <1>12, <2>1
  <2>2. Kept \/ ListenerStep(d)
    BY <1>9, <1>10, <1>11, <1>15, <2>1 DEF ConsumerSide
  <2> QED BY <1>13, <1>14, <2>2
<1> QED BY <1>2, <1>3, <1>4, <1>5, <1>6, <1>7, <1>8, <1>14, <1>15, StepCases

(* The listener writes a row under no lock, so the create whose event it   *)
(* has is over: rolled back, or committed.                                 *)
LEMMA OvertakeStep ==
  ASSUME TypeOK, D!DeliveryInv, LogInv, RequestInv, WorkInv, RowInv,
         CommittedInv, ConsumerNeverOvertakesCreate, [Next]_vars
  PROVE  ConsumerNeverOvertakesCreate'
<1> SUFFICES ASSUME NEW s \in Subs, row'[s] # NoRow, commits'[s] = << >>
             PROVE  \E r \in Requests : /\ req'[r].pc = "aborted"
                                        /\ req'[r].kind = "create"
                                        /\ req'[r].id = s
  BY DEF ConsumerNeverOvertakesCreate, IsCreated
<1>1. ~IsCreated(s)
  BY CreatedStays DEF IsCreated
<1>2. ASSUME NEW r \in Requests, req[r].pc = "aborted",
             req[r].kind = "create", req[r].id = s
      PROVE  /\ req'[r].pc = "aborted"
             /\ req'[r].kind = "create"
             /\ req'[r].id = s
  <2>1. Moves(r)
    BY EveryMove
  <2> QED BY <1>2, <2>1 DEF Moves, SameRequest
<1>3. CASE row[s] # NoRow
  BY <1>1, <1>2, <1>3 DEF ConsumerNeverOvertakesCreate
<1>4. ASSUME NEW r \in Requests, Commit(r), row[s] = NoRow
      PROVE  FALSE
  <2>1. s # req[r].id
    BY <1>4, CommitAppends
  <2> QED BY <1>4, <2>1, CommitView
<1>5. ASSUME NEW c \in Consumers, WritesFor(c), row[s] = NoRow
      PROVE  \E r \in Requests : /\ req[r].pc = "aborted"
                                 /\ req[r].kind = "create"
                                 /\ req[r].id = s
  <2>1. /\ delivery[c].stage = "listening" /\ s = D!Event(c).id
        /\ lock[s] = NoRequest
    BY <1>5 DEF WritesFor, WritesRow
  <2>2. work[c].at \in {"insert", "resave", "update"}
    BY <1>5 DEF WritesFor, Inserts, Resaves, Rewrites
  <2>3. work[c] # NoWork
    BY <2>2, WorkFields
  <2>4. work[c].at = "insert" /\ D!Event(c).type = "create"
    BY <1>5, <2>1, <2>2, <2>3 DEF WorkInv, EventRow
  <2>5. PICK r \in Requests : /\ req[r].pc \in Sent /\ req[r].pc # "idle"
                              /\ req[r].kind = "create"
                              /\ req[r].id = s
    BY <2>1, <2>4, EventRequest
  <2>6. req[r].pc # "published"
    BY <2>1, <2>5, AskedPc, MarkersAssumption DEF RequestInv
  <2>7. req[r].pc # "committed"
    <3>1. SUFFICES ASSUME req[r].pc = "committed" PROVE FALSE
      OBVIOUS
    <3>2. PICK i \in DOMAIN commits[s] : commits[s][i] = r
      BY <2>5, <3>1 DEF CommittedInv
    <3> QED BY <1>1, <3>2 DEF IsCreated
  <2> QED BY <2>5, <2>6, <2>7 DEF Sent
<1> QED BY <1>2, <1>3, <1>4, <1>5, RowCases
-----------------------------------------------------------------------------
ApiTyped == /\ lock \in [Subs -> Requests \cup {NoRequest}]
            /\ req \in [Requests -> Asked \cup {NotAsked}]
            /\ commits \in [Subs -> Seq(Requests)]
RowTyped == /\ row \in [Subs -> Row \cup {NoRow}]
            /\ work \in [Consumers -> Work \cup {NoWork}]

LEMMA PcTyped ==
  ASSUME TypeOK, NEW r \in Requests, req[r].pc # "idle",
         NEW p \in {"read", "written", "published", "committed", "aborted"}
  PROVE  [req EXCEPT ![r].pc = p] \in [Requests -> Asked \cup {NotAsked}]
<1>1. PICK x \in Asked : x = req[r]
  BY AskedFields
<1>2. [x EXCEPT !.pc = p] \in Asked
  BY DEF Asked
<1>3. [req EXCEPT ![r].pc = p] = [req EXCEPT ![r] = [x EXCEPT !.pc = p]]
  BY <1>1
<1> QED BY <1>2, <1>3 DEF TypeOK

LEMMA ReleaseTyped ==
  ASSUME TypeOK, NEW r \in Requests, Release(r)
  PROVE  lock' \in [Subs -> Requests \cup {NoRequest}]
<1>1. lock \in [Subs -> Requests \cup {NoRequest}]
  BY DEF TypeOK
<1>2. PICK v : lock' = [lock EXCEPT ![req[r].id] = v]
               /\ (req[r].id \in Subs => v \in Requests \cup {NoRequest})
  BY <1>1 DEF Release
<1> QED BY <1>1, <1>2

LEMMA ApiTypeStep ==
  ASSUME TypeOK, RowInv, [Next]_vars
  PROVE  ApiTyped'
<1>0. ApiTyped
  BY DEF TypeOK, ApiTyped
<1>1. ASSUME NEW r \in Requests, NEW t \in Subs, NEW n \in Names,
             CreateInsert(r, t, n)
      PROVE  ApiTyped'
  <2>1. PICK a \in Asked : req' = [req EXCEPT ![r] = a]
    <3>1. [name |-> n, createdBy |-> NoOne, updatedBy |-> NoOne] \in Row
      BY DEF Row
    <3>2. [pc |-> "written", kind |-> "create", id |-> t,
           entity |-> [name |-> n, createdBy |-> NoOne,
                       updatedBy |-> NoOne]] \in Asked
      BY <3>1 DEF Asked, Topics
    <3> QED BY <1>1, <3>2 DEF CreateInsert
  <2>2. lock' = [lock EXCEPT ![t] = r] /\ UNCHANGED commits
    BY <1>1 DEF CreateInsert
  <2> QED BY <1>0, <2>1, <2>2 DEF ApiTyped
<1>2. ASSUME NEW r \in Requests, NEW t \in Subs,
             NEW n \in Names \cup {NoName}, UpdateRead(r, t, n)
      PROVE  ApiTyped'
  <2>1. PICK e : req' = [req EXCEPT ![r] = e]
    BY <1>2 DEF UpdateRead
  <2>2. req'[r] \in Asked
    BY <1>2, UpdateReadView
  <2>3. req'[r] = e
    BY <1>0, <2>1 DEF ApiTyped
  <2> QED BY <1>0, <1>2, <2>1, <2>2, <2>3 DEF ApiTyped, UpdateRead
<1>3. ASSUME NEW r \in Requests, UpdateWrite(r)
      PROVE  ApiTyped'
  <2>1. req[r].pc # "idle" /\ req' = [req EXCEPT ![r].pc = "written"]
    BY <1>3 DEF UpdateWrite
  <2>2. lock' = [lock EXCEPT ![req[r].id] = r] /\ UNCHANGED commits
    BY <1>3 DEF UpdateWrite
  <2> QED BY <1>0, <2>1, <2>2, PcTyped DEF ApiTyped
<1>4. ASSUME NEW r \in Requests, Publish(r)
      PROVE  ApiTyped'
  <2>1. req[r].pc # "idle" /\ req' = [req EXCEPT ![r].pc = "published"]
    BY <1>4 DEF Publish
  <2> QED BY <1>0, <1>4, <2>1, PcTyped DEF ApiTyped, Publish
<1>5. ASSUME NEW r \in Requests, PublishAgain(r)
      PROVE  ApiTyped'
  BY <1>0, <1>5 DEF ApiTyped, PublishAgain
<1>6. ASSUME NEW r \in Requests, Commit(r)
      PROVE  ApiTyped'
  <2>1. /\ req[r].pc # "idle" /\ req' = [req EXCEPT ![r].pc = "committed"]
        /\ Release(r)
        /\ commits' = [commits EXCEPT ![req[r].id] = Append(@, r)]
    BY <1>6 DEF Commit
  <2>2. req' \in [Requests -> Asked \cup {NotAsked}]
    BY <2>1, PcTyped
  <2>3. commits' \in [Subs -> Seq(Requests)]
    <3>1. PICK s \in Subs : s = req[r].id
      BY <2>1, AskedFields
    <3>2. Append(commits[s], r) \in Seq(Requests)
      BY <1>0 DEF ApiTyped
    <3> QED BY <1>0, <2>1, <3>1, <3>2 DEF ApiTyped
  <2> QED BY <2>1, <2>2, <2>3, ReleaseTyped DEF ApiTyped
<1>7. ASSUME NEW r \in Requests, Abort(r)
      PROVE  ApiTyped'
  <2>1. /\ req[r].pc # "idle" /\ req' = [req EXCEPT ![r].pc = "aborted"]
        /\ Release(r) /\ UNCHANGED commits
    BY <1>7, AbortView DEF Abort
  <2> QED BY <1>0, <2>1, PcTyped, ReleaseTyped DEF ApiTyped
<1>8. ConsumerSide => ApiTyped'
  BY <1>0, ConsumerSideView DEF ApiTyped
<1> QED BY <1>1, <1>2, <1>3, <1>4, <1>5, <1>6, <1>7, <1>8, StepCases

LEMMA RowTypeStep ==
  ASSUME TypeOK, D!DeliveryInv, LogInv, RequestInv, WorkInv, RowInv,
         [Next]_vars
  PROVE  RowTyped'
<1>0. RowTyped
  BY DEF TypeOK, RowTyped
<1>1. ASSUME NEW r \in Requests, NEW t \in Subs, NEW n \in Names,
             CreateInsert(r, t, n)
      PROVE  RowTyped'
  BY <1>0, <1>1, CreateInsertView DEF RowTyped
<1>2. ASSUME NEW r \in Requests, NEW t \in Subs,
             NEW n \in Names \cup {NoName}, UpdateRead(r, t, n)
      PROVE  RowTyped'
  BY <1>0, <1>2, UpdateReadView DEF RowTyped
<1>3. ASSUME NEW r \in Requests, UpdateWrite(r)
      PROVE  RowTyped'
  BY <1>0, <1>3, UpdateWriteView DEF RowTyped
<1>4. ASSUME NEW r \in Requests, Publish(r)
      PROVE  RowTyped'
  BY <1>0, <1>4, PublishView DEF RowTyped
<1>5. ASSUME NEW r \in Requests, PublishAgain(r)
      PROVE  RowTyped'
  BY <1>0, <1>5, PublishAgainView DEF RowTyped
<1>6. ASSUME NEW r \in Requests, Commit(r)
      PROVE  RowTyped'
  <2>1. /\ req[r].pc # "idle" /\ UNCHANGED work
        /\ row' = [row EXCEPT ![req[r].id] = RowOf(r)]
    BY <1>6 DEF Commit
  <2>2. RowOf(r) \in Row
    BY <2>1, RowOfTyped
  <2> QED BY <1>0, <2>1, <2>2 DEF RowTyped
<1>7. ASSUME NEW r \in Requests, Abort(r)
      PROVE  RowTyped'
  BY <1>0, <1>7, AbortView DEF RowTyped
<1>8. ASSUME NEW c \in Consumers, ListenerStep(c)
      PROVE  RowTyped'
  BY <1>8, ExecuteForms DEF Executes, Typed, RowTyped
<1>9. ASSUME NEW c \in Consumers, DaemonStep(c)
      PROVE  RowTyped'
  BY <1>0, <1>9, DaemonView DEF RowTyped
<1>10. ASSUME NEW c \in Consumers, ConsumerCrash(c)
       PROVE  RowTyped'
  BY <1>10 DEF ConsumerCrash, RowTyped, TypeOK
<1>11. GroupRebalance \/ UNCHANGED vars => RowTyped'
  BY <1>0, RebalanceView DEF vars, RowTyped
<1>12. ConsumerSide => RowTyped'
  BY <1>8, <1>9, <1>10, <1>11 DEF ConsumerSide
<1> QED BY <1>1, <1>2, <1>3, <1>4, <1>5, <1>6, <1>7, <1>12, StepCases

LEMMA InitIInv == Init => IInv
<1> SUFFICES ASSUME Init PROVE IInv
  OBVIOUS
<1>1. D!TypeOK /\ D!DeliveryInv /\ D!CommittedIsSettled
  BY DaemonInit DEF Init
<1>2. /\ \A r \in Requests : req[r] = NotAsked /\ req[r].pc = "idle"
      /\ \A s \in Subs : /\ row[s] = NoRow /\ lock[s] = NoRequest
                         /\ commits[s] = << >>
      /\ \A c \in Consumers : work[c] = NoWork
  BY DEF Init, NotAsked
<1>3. \A t \in Topics : log[t] = << >>
  BY DEF Init, D!Init
<1>4. TypeOK
  BY <1>1 DEF Init, TypeOK
<1>5. LogInv
  BY <1>3 DEF LogInv
<1>6. SentInv /\ RequestInv /\ CreateInv /\ CommittedInv /\ OrderInv
  BY <1>2 DEF SentInv, RequestInv, CreateInv, CommittedInv, OrderInv
<1>7. LockInv /\ CommitsInv /\ RowInv /\ WorkInv
  BY <1>2 DEF LockInv, CommitsInv, RowInv, WorkInv, IsCreated
<1>8. LogOrderIsCommitOrder /\ ConsumerNeverOvertakesCreate
  BY <1>2 DEF LogOrderIsCommitOrder, ConsumerNeverOvertakesCreate
<1> QED BY <1>1, <1>4, <1>5, <1>6, <1>7, <1>8 DEF IInv

LEMMA NextIInv == IInv /\ [Next]_vars => IInv'
<1> SUFFICES ASSUME IInv, [Next]_vars PROVE IInv'
  OBVIOUS
<1>0. /\ TypeOK /\ D!DeliveryInv /\ D!CommittedIsSettled
      /\ LogInv /\ SentInv /\ RequestInv /\ CreateInv /\ LockInv
      /\ CommitsInv /\ CommittedInv /\ RowInv /\ OrderInv /\ WorkInv
      /\ LogOrderIsCommitOrder /\ ConsumerNeverOvertakesCreate
  BY DEF IInv
<1>1. [D!Next]_D!vars /\ D!TypeOK
  BY <1>0, StepOfDaemon DEF TypeOK
<1>2. D!TypeOK' /\ D!DeliveryInv' /\ D!CommittedIsSettled'
  BY <1>0, <1>1, DaemonInvStep
<1>3. TypeOK'
  BY <1>0, <1>2, ApiTypeStep, RowTypeStep DEF TypeOK, ApiTyped, RowTyped
<1>4. LogInv' /\ SentInv'
  BY <1>0, LogInvStep, SentInvStep
<1>5. RequestInv' /\ CreateInv' /\ LockInv'
  BY <1>0, RequestInvStep, CreateInvStep, LockInvStep
<1>6. CommitsInv' /\ CommittedInv' /\ OrderInv'
  BY <1>0, CommitsInvStep, CommittedInvStep, OrderInvStep
<1>7. RowInv' /\ WorkInv'
  BY <1>0, RowInvStep, WorkInvStep
<1>8. LogOrderIsCommitOrder' /\ ConsumerNeverOvertakesCreate'
  BY <1>0, CommitOrderStep, OvertakeStep
<1> QED BY <1>2, <1>3, <1>4, <1>5, <1>6, <1>7, <1>8 DEF IInv

(* The inductive invariant holds under every fault of the model: lost      *)
(* answers of Kafka, roll backs after publishing, crashes and rebalances   *)
(* of the consumers, listeners that fail.                                  *)
THEOREM InductiveInvariant == Spec => []IInv
BY InitIInv, NextIInv, PTL DEF Spec

(* Rows, requests, topics and deliveries keep their types.                 *)
THEOREM TypeCorrect == Spec => []TypeOK
<1>1. IInv => TypeOK
  BY DEF IInv
<1> QED BY <1>1, InductiveInvariant, PTL

(* Whatever handlers publish and listeners do, the daemon inside is one of *)
(* EventListenerDaemon without poison records: what is proved of that one  *)
(* (at-least-once delivery of its offsets) holds of this one.              *)
THEOREM ImplementsDaemon == Spec => D!Spec
<1>1. Init => D!Init
  BY DEF Init
<1>2. IInv /\ [Next]_vars => [D!Next]_D!vars
  BY StepOfDaemon DEF IInv
<1> QED BY <1>1, <1>2, InductiveInvariant, PTL DEF Spec, D!Spec

(* The events of one row are in their topic in the order in which their    *)
(* requests committed, although each is published before its commit: the   *)
(* row's lock is held from the write to the end of the transaction.        *)
THEOREM CommitOrder == Spec => []LogOrderIsCommitOrder
<1>1. IInv => LogOrderIsCommitOrder
  BY DEF IInv
<1> QED BY <1>1, InductiveInvariant, PTL

(* The created listener never gets in front of the request it echoes: the  *)
(* event is in the topic before the commit, but the row is locked until    *)
(* then, so a row nobody committed is of a request that rolled back.       *)
THEOREM NoOvertaking == Spec => []ConsumerNeverOvertakesCreate
<1>1. IInv => ConsumerNeverOvertakesCreate
  BY DEF IInv
<1> QED BY <1>1, InductiveInvariant, PTL

LEMMA SentEvent ==
  ASSUME TypeOK, LogInv, NEW r \in Requests, req[r].pc # "idle",
         NEW o \in SentBy(r)
  PROVE  log[req[r].kind][o] = EventOf(r)
<1>1. /\ req[r].kind \in Topics /\ o \in DOMAIN log[req[r].kind]
      /\ log[req[r].kind][o].from = r
  BY AskedFields DEF SentBy
<1>2. PICK q \in Requests : log[req[r].kind][o] = EventOf(q)
  BY <1>1 DEF LogInv
<1>3. EventOf(q).from = q
  BY DEF EventOf
<1> QED BY <1>1, <1>2, <1>3

LEMMA NameOfEvent ==
  ASSUME TypeOK, NEW r \in Requests, req[r].pc # "idle"
  PROVE  [EventOf(r) EXCEPT !.name = RowOf(r).name] = EventOf(r)
<1>1. RowOf(r).name = req[r].entity.name /\ EventOf(r).name = req[r].entity.name
  BY RowOfTyped DEF EventOf
<1>2. PICK e \in Events : e = EventOf(r)
  BY EventTyped
<1>3. [e EXCEPT !.name = e.name] = e
  BY DEF Events
<1> QED BY <1>1, <1>2, <1>3

(* Every committed create and update has an event with its data in its     *)
(* topic, whatever became of Kafka's answers.                              *)
THEOREM CommitsAnnounced == Spec => []EveryCommitAnnounced
<1>1. IInv => EveryCommitAnnounced
  <2> SUFFICES ASSUME IInv, NEW r \in Requests, req[r].pc = "committed"
               PROVE  \E o \in SentBy(r) : log[req[r].kind][o] =
                         [EventOf(r) EXCEPT !.name = RowOf(r).name]
    BY DEF EveryCommitAnnounced
  <2>1. PICK o : o \in SentBy(r)
    BY DEF IInv, SentInv
  <2>2. log[req[r].kind][o] = EventOf(r)
    BY <2>1, SentEvent DEF IInv
  <2>3. [EventOf(r) EXCEPT !.name = RowOf(r).name] = EventOf(r)
    BY NameOfEvent DEF IInv
  <2> QED BY <2>1, <2>2, <2>3
<1> QED BY <1>1, InductiveInvariant, PTL
-----------------------------------------------------------------------------
(* One listener process: a stale row is one whose event is still to come.  *)
Runs(c) == /\ delivery[c].stage = "listening"
           /\ OnlyWork(c) /\ OnlyDelivery(c)
           /\ UNCHANGED <<log, committed, lock, req, commits>>
           /\ Executes(c)

LEMMA FiveKinds ==
  ASSUME TypeOK, D!DeliveryInv, LogInv, RequestInv, WorkInv, RowInv,
         [Next]_vars
  PROVE  \/ UNCHANGED <<committed, delivery, work, row, commits>>
         \/ \E r \in Requests : Commit(r)
         \/ \E c \in Consumers : Runs(c)
         \/ \E c \in Consumers : DaemonStep(c)
         \/ \E c \in Consumers : ConsumerCrash(c)
<1> DEFINE Same == UNCHANGED <<committed, delivery, work, row, commits>>
<1>1. ASSUME NEW r \in Requests, NEW t \in Subs, NEW n \in Names,
             CreateInsert(r, t, n)
      PROVE  Same
  BY <1>1, CreateInsertView
<1>2. ASSUME NEW r \in Requests, NEW t \in Subs,
             NEW n \in Names \cup {NoName}, UpdateRead(r, t, n)
      PROVE  Same
  BY <1>2, UpdateReadView
<1>3. ASSUME NEW r \in Requests, UpdateWrite(r)
      PROVE  Same
  BY <1>3, UpdateWriteView
<1>4. ASSUME NEW r \in Requests, Publish(r)
      PROVE  Same
  BY <1>4, PublishView
<1>5. ASSUME NEW r \in Requests, PublishAgain(r)
      PROVE  Same
  BY <1>5, PublishAgainView
<1>6. ASSUME NEW r \in Requests, Abort(r)
      PROVE  Same
  BY <1>6, AbortView
<1>7. ASSUME NEW c \in Consumers, ListenerStep(c)
      PROVE  Runs(c)
  BY <1>7, ExecuteForms DEF Runs
<1>8. GroupRebalance \/ UNCHANGED vars => Same
  BY RebalanceView DEF vars
<1>9. CASE ConsumerSide
  BY <1>7, <1>8, <1>9 DEF ConsumerSide
<1> QED BY <1>1, <1>2, <1>3, <1>4, <1>5, <1>6, <1>9, StepCases

LEMMA OneConsumer ==
  ASSUME Quiet, NEW c \in Consumers, NEW d \in Consumers
  PROVE  c = d
BY DEF Quiet

LEMMA IdleStage == D!Idle.stage = "idle"
BY DEF D!Idle

LEMMA OffsetStep ==
  ASSUME Quiet, TypeOK, D!DeliveryInv, LogInv, RequestInv, WorkInv, RowInv,
         OffsetInv, [Next]_vars
  PROVE  OffsetInv'
<1> SUFFICES
       /\ \A t \in Topics : committed'[t] <= Len(log'[t])
       /\ \A c \in Consumers : delivery'[c].stage # "idle" =>
             delivery'[c].offset = committed'[delivery'[c].partition]
  BY DEF OffsetInv
<1>0. \A t \in Topics : /\ committed[t] \in Nat /\ Len(log[t]) \in Nat
                        /\ Len(log'[t]) \in Nat \/ UNCHANGED log
                        /\ committed[t] <= Len(log[t])
                        /\ Len(log[t]) <= Len(log'[t])
  BY EntriesTyped, EntriesKept DEF OffsetInv, TypeOK, D!TypeOK
<1>1. \A t \in Topics : committed'[t] = committed[t]
                          => committed'[t] <= Len(log'[t])
  <2> SUFFICES ASSUME NEW t \in Topics PROVE committed[t] <= Len(log'[t])
    OBVIOUS
  <2>1. CASE UNCHANGED log
    BY <1>0, <2>1
  <2>2. CASE \E r \in Requests : /\ req[r].pc \in {"written", "published"}
                                 /\ Sends(r)
    <3>1. Len(log'[t]) \in Nat
      BY <1>0, <2>2, SendsView
    <3> QED BY <1>0, <3>1
  <2> QED BY <2>1, <2>2, LogStep
<1>2. \A c \in Consumers : delivery[c].stage # "idle" =>
         /\ delivery[c].offset = committed[delivery[c].partition]
         /\ delivery[c].partition \in Topics
  BY BusyFields DEF OffsetInv
<1>3. CASE UNCHANGED <<committed, delivery>>
  BY <1>1, <1>2, <1>3
<1>4. ASSUME NEW c \in Consumers, Runs(c)
      PROVE  /\ UNCHANGED committed
             /\ delivery'[c].offset = committed'[delivery'[c].partition]
  <2>1. UNCHANGED committed /\ delivery[c].stage = "listening"
    BY <1>4 DEF Runs
  <2>2. \/ delivery' = delivery
        \/ SameDelivery(c)
    BY <1>4 DEF Runs, Executes, Reads, Selects, Plans, Leaves, Inserts,
                Resaves, Rewrites, WritesRow, Returns, Goes
  <2> QED BY <1>2, <2>1, <2>2 DEF SameDelivery
<1>5. ASSUME NEW c \in Consumers, DaemonStep(c)
      PROVE  /\ \A t \in Topics : committed'[t] <= Len(log'[t])
             /\ delivery'[c].stage # "idle" =>
                   delivery'[c].offset = committed'[delivery'[c].partition]
  <2>1. CASE \E t \in Topics :
                  /\ delivery'[c].partition = t
                  /\ delivery'[c].offset = committed[t]
                  /\ committed' = committed
    BY <1>1, <2>1
  <2>2. CASE /\ SameDelivery(c) /\ delivery[c].stage = "heartbeat"
             /\ committed' = committed
    BY <1>1, <1>2, <2>2 DEF SameDelivery
  <2>3. CASE delivery'[c] = D!Idle /\ committed' = committed
    BY <1>1, <2>3, IdleStage
  <2>4. CASE /\ delivery'[c] = D!Idle
             /\ delivery[c].stage = "settled"
             /\ committed'[delivery[c].partition] = delivery[c].offset + 1
             /\ \A t \in Topics : t # delivery[c].partition =>
                   committed'[t] = committed[t]
    <3>1. UNCHANGED log
      BY <1>5, DaemonView
    <3>2. PICK p \in Topics : p = delivery[c].partition
      BY <2>4, BusyFields
    <3>3. delivery[c].offset + 1 \in DOMAIN log[p]
      BY <2>4, <3>2, BusyFields
    <3>4. delivery[c].offset + 1 <= Len(log[p])
      BY <3>3, EntriesTyped
    <3>5. ASSUME NEW t \in Topics
          PROVE  committed'[t] <= Len(log'[t])
      BY <1>1, <2>4, <3>1, <3>2, <3>4
    <3> QED BY <2>4, <3>5, IdleStage
  <2> QED BY <1>5, <2>1, <2>2, <2>3, <2>4, DaemonView
<1>6. ASSUME NEW c \in Consumers, ConsumerCrash(c)
      PROVE  UNCHANGED committed /\ delivery'[c].stage = "idle"
  BY <1>6, CrashView, IdleStage
<1>7. ASSUME NEW r \in Requests, Commit(r)
      PROVE  UNCHANGED <<committed, delivery>>
  BY <1>7, CommitView
<1>8. CASE \E c \in Consumers : Runs(c)
  BY <1>1, <1>4, <1>8, OneConsumer
<1>9. CASE \E c \in Consumers : DaemonStep(c)
  BY <1>5, <1>9, OneConsumer
<1>10. CASE \E c \in Consumers : ConsumerCrash(c)
  BY <1>1, <1>6, <1>10, OneConsumer
<1> QED BY <1>3, <1>7, <1>8, <1>9, <1>10, FiveKinds

LEMMA KeptStep ==
  ASSUME Quiet, TypeOK, LogInv, RowInv, KeptInv, [Next]_vars
  PROVE  KeptInv'
<1> SUFFICES ASSUME NEW t \in Topics, NEW o \in DOMAIN log'[t]
             PROVE  req'[log'[t][o].from].pc # "aborted"
  BY DEF KeptInv
<1>1. CASE o \in DOMAIN log[t] /\ log'[t][o] = log[t][o]
  <2>1. PICK r \in Requests : /\ req[r].pc \in Sent /\ r = log[t][o].from
                              /\ req[r].pc # "aborted"
    <3>1. \A q : EventOf(q).from = q
      BY DEF EventOf
    <3> QED BY <1>1, <3>1 DEF LogInv, KeptInv, Sent
  <2>2. "abortAfterPublish" \notin Faults
    BY DEF Quiet
  <2>3. Moves(r)
    BY EveryMove
  <2> QED BY <1>1, <2>1, <2>2, <2>3 DEF Moves, Sent
<1>2. CASE UNCHANGED log
  BY <1>1, <1>2
<1>3. ASSUME NEW r \in Requests, req[r].pc \in {"written", "published"},
             req'[r].pc = "published", Sends(r)
      PROVE  \/ o \in DOMAIN log[t] /\ log'[t][o] = log[t][o]
             \/ log'[t][o].from = r
  <2>1. EventOf(r).from = r
    BY DEF EventOf
  <2>2. CASE t = req[r].kind
    BY <1>3, <2>1, <2>2, SendsView
  <2>3. CASE t # req[r].kind
    BY <1>3, <2>3, SendsView
  <2> QED BY <2>2, <2>3
<1> QED BY <1>1, <1>2, <1>3, LogStep

(* An entry that is new is past everything that was in the topic.          *)
LEMMA NewEntry ==
  ASSUME TypeOK, RowInv, [Next]_vars, NEW t \in Topics,
         NEW o \in DOMAIN log'[t]
  PROVE  \/ o \in DOMAIN log[t] /\ log'[t][o] = log[t][o]
         \/ o = Len(log[t]) + 1
<1>1. CASE UNCHANGED log
  BY <1>1
<1>2. ASSUME NEW r \in Requests, req[r].pc \in {"written", "published"},
             Sends(r)
      PROVE  \/ o \in DOMAIN log[t] /\ log'[t][o] = log[t][o]
             \/ o = Len(log[t]) + 1
  <2>1. CASE t = req[r].kind
    BY <1>2, <2>1, SendsView
  <2>2. CASE t # req[r].kind
    BY <1>2, <2>2, SendsView
  <2> QED BY <2>1, <2>2
<1> QED BY <1>1, <1>2, LogStep

LEMMA UpdateEventCreated ==
  ASSUME TypeOK, LogInv, RequestInv, NEW o \in DOMAIN log["update"]
  PROVE  IsCreated(log["update"][o].id)
<1>1. PICK r \in Requests : /\ req[r].pc \in Sent /\ req[r].kind = "update"
                            /\ log["update"][o] = EventOf(r)
  BY DEF LogInv, Topics, Sent
<1>2. EventOf(r).id = req[r].id
  BY DEF EventOf
<1>3. req[r] # NotAsked
  BY <1>1, AskedPc DEF Sent
<1> QED BY <1>1, <1>2, <1>3 DEF RequestInv

LEMMA AheadStep ==
  ASSUME Quiet, TypeOK, D!DeliveryInv, LogInv, RequestInv, WorkInv, RowInv,
         OffsetInv, AheadInv, [Next]_vars
  PROVE  AheadInv'
<1> SUFFICES ASSUME NEW c \in Consumers,
                    work'[c].at \in {"select", "insert", "resave"},
                    NEW o \in DOMAIN log'["update"],
                    log'["update"][o].id = D!Event(c)'.id
             PROVE  o > committed'["update"]
  BY DEF AheadInv
<1>0. "update" \in Topics /\ committed["update"] \in Nat
  BY DEF Topics, TypeOK, D!TypeOK
<1>1. ASSUME work[c].at \in {"select", "insert", "resave"},
             delivery'[c] = delivery[c], committed' = committed
      PROVE  o > committed'["update"]
  <2>1. work[c] # NoWork
    BY <1>1, WorkFields
  <2>2. D!Event(c)' = D!Event(c)
    BY <1>1, <2>1, EventKept DEF WorkInv
  <2>3. CASE o \in DOMAIN log["update"] /\ log'["update"][o] = log["update"][o]
    BY <1>1, <2>2, <2>3 DEF AheadInv
  <2>4. CASE o = Len(log["update"]) + 1
    <3>1. committed["update"] <= Len(log["update"])
      BY <1>0 DEF OffsetInv
    <3>2. Len(log["update"]) \in Nat
      BY <1>0, EntriesTyped
    <3> QED BY <1>0, <1>1, <2>4, <3>1, <3>2
  <2> QED BY <1>0, <2>3, <2>4, NewEntry
<1>2. CASE UNCHANGED <<committed, delivery, work>>
  BY <1>1, <1>2
<1>3. ASSUME NEW r \in Requests, Commit(r)
      PROVE  UNCHANGED <<committed, delivery, work>>
  BY <1>3, CommitView
<1>4. CASE Runs(c)
  <2>1. /\ delivery[c].stage = "listening" /\ UNCHANGED <<log, committed>>
    BY <1>4 DEF Runs
  <2>2. work'[c] # NoWork
    BY DEF NoWork
  <2>3. Reads(c) \/ Selects(c)
    BY <1>4, <2>2 DEF Runs, Executes, Plans, Leaves, Inserts, Resaves,
                      Rewrites, WritesRow, Returns, Goes
  <2>4. CASE Selects(c)
    BY <1>1, <2>1, <2>4 DEF Selects, Goes
  <2>5. CASE Reads(c)
    <3>1. delivery' = delivery /\ row[D!Event(c).id] = NoRow
      BY <2>5 DEF Reads, Goes
    <3>2. D!Event(c)' = D!Event(c) /\ D!Event(c).id \in Subs
      BY <2>1, <3>1, EventKept, EventFields
    <3>3. IsCreated(D!Event(c).id)
      BY <2>1, <3>2, UpdateEventCreated
    <3> QED BY <3>1, <3>2, <3>3 DEF RowInv
  <2> QED BY <2>3, <2>4, <2>5
<1>5. CASE DaemonStep(c)
  <2>1. delivery[c].stage # "listening" /\ work' = work
    BY <1>5, DaemonView
  <2>2. work[c] # NoWork
    BY <2>1, WorkFields
  <2> QED BY <2>1, <2>2 DEF WorkInv
<1>6. ~ConsumerCrash(c)
  BY CrashView DEF NoWork
<1> QED BY <1>2, <1>3, <1>4, <1>5, <1>6, FiveKinds, OneConsumer
LEMMA LatestFacts ==
  ASSUME TypeOK, CommitsInv, NEW s \in Subs, IsCreated(s)
  PROVE  /\ LatestRequest(s) \in Requests
         /\ req[LatestRequest(s)].pc = "committed"
         /\ req[LatestRequest(s)].id = s
         /\ Len(commits[s]) \in DOMAIN commits[s]
         /\ DOMAIN commits[s] = 1..Len(commits[s])
         /\ LatestRequest(s) = commits[s][Len(commits[s])]
<1>1. commits[s] \in Seq(Requests) /\ commits[s] # << >>
  BY DEF TypeOK, IsCreated
<1>2. /\ Len(commits[s]) \in Nat \ {0}
      /\ DOMAIN commits[s] = 1..Len(commits[s])
  BY <1>1, EmptySeq
<1>3. Len(commits[s]) \in DOMAIN commits[s]
  BY <1>2
<1> QED BY <1>1, <1>2, <1>3 DEF LatestRequest, CommitsInv

(* A row that is stale after a step was so before it, or the listener has  *)
(* just written another name over the latest one.                          *)
LEMMA StaleCases ==
  ASSUME TypeOK, D!DeliveryInv, LogInv, RequestInv, WorkInv, RowInv,
         CommitsInv, [Next]_vars, NEW s \in Subs, IsStale(s)'
  PROVE  /\ IsCreated(s) /\ LatestRequest(s)' = LatestRequest(s)
         /\ SameRequest(LatestRequest(s))
         /\ LatestName(s)' = LatestName(s)
         /\ \/ IsStale(s)
            \/ \E c \in Consumers : /\ WritesFor(c) /\ s = D!Event(c).id
                                    /\ D!Event(c).name # LatestName(s)
<1>0. commits'[s] # << >> /\ row'[s].name # LatestName(s)'
  BY DEF IsStale, IsCreated
<1>1. ASSUME commits'[s] = commits[s]
      PROVE  /\ IsCreated(s) /\ LatestRequest(s)' = LatestRequest(s)
             /\ SameRequest(LatestRequest(s))
             /\ LatestName(s)' = LatestName(s)
  <2>1. IsCreated(s)
    BY <1>0, <1>1 DEF IsCreated
  <2>2. LatestRequest(s)' = LatestRequest(s)
    BY <1>1 DEF LatestRequest
  <2>3. PICK r \in Requests : r = LatestRequest(s) /\ req[r].pc # "idle"
    BY <2>1, LatestFacts
  <2>4. SameRequest(r)
    BY <2>3, RequestsKept
  <2>5. RowOf(r)' = RowOf(r)
    BY <2>4, SameEvent
  <2>6. LatestName(s) = RowOf(r).name /\ LatestName(s)' = RowOf(r)'.name
    BY <2>2, <2>3 DEF LatestName
  <2> QED BY <2>1, <2>2, <2>3, <2>4, <2>5, <2>6
<1>2. ASSUME NEW r \in Requests, Commit(r)
      PROVE  s # req[r].id
  <2> SUFFICES ASSUME s = req[r].id PROVE FALSE
    OBVIOUS
  <2>1. /\ Len(commits[s]) \in Nat
        /\ Len(commits'[s]) = Len(commits[s]) + 1
        /\ commits'[s][Len(commits[s]) + 1] = r
    BY <1>2, CommitAppends
  <2>2. LatestRequest(s)' = r
    BY <2>1 DEF LatestRequest
  <2>3. row'[s] = RowOf(r) /\ SameRequest(r)
    BY <1>2, CommitView
  <2>4. RowOf(r)' = RowOf(r)
    BY <2>3, SameEvent
  <2>5. LatestName(s)' = RowOf(r)'.name
    BY <2>2 DEF LatestName
  <2> QED BY <1>0, <2>3, <2>4, <2>5
<1>3. commits'[s] = commits[s]
  BY <1>2, CommitAppends, CommitCases
<1>4. CASE row'[s] = row[s]
  BY <1>0, <1>1, <1>3, <1>4 DEF IsStale
<1>5. ASSUME NEW r \in Requests, Commit(r)
      PROVE  row'[s] = row[s]
  BY <1>2, <1>5, CommitView
<1>6. ASSUME NEW c \in Consumers, WritesFor(c), row'[s] # row[s]
      PROVE  s = D!Event(c).id /\ D!Event(c).name # LatestName(s)
  BY <1>0, <1>1, <1>3, <1>6 DEF WritesFor, WritesRow
<1>7. row'[s] = row[s] \/ \E c \in Consumers : WritesFor(c) /\ row'[s] # row[s]
  BY <1>5, RowCases
<1> QED BY <1>1, <1>3, <1>4, <1>6, <1>7

(* The event the listener writes from is of a request that committed       *)
(* before the latest one, which therefore is an update, with its events    *)
(* further on.                                                             *)
LEMMA WriteBehind ==
  ASSUME Quiet, TypeOK, D!DeliveryInv, LogInv, SentInv, RequestInv, CreateInv,
         CommitsInv, CommittedInv, WorkInv, RowInv, LogOrderIsCommitOrder,
         OffsetInv, KeptInv, AheadInv,
         NEW c \in Consumers, WritesFor(c),
         NEW s \in Subs, s = D!Event(c).id, IsCreated(s),
         D!Event(c).name # LatestName(s)
  PROVE  /\ req[LatestRequest(s)].kind = "update"
         /\ \E o \in SentBy(LatestRequest(s)) :
               /\ o > committed["update"]
               /\ delivery[c].partition = "update"
                     => o # delivery[c].offset + 1
<1>1. /\ delivery[c].stage = "listening" /\ lock[s] = NoRequest
      /\ work[c].at \in {"insert", "resave", "update"}
  BY DEF WritesFor, WritesRow, Inserts, Resaves, Rewrites
<1>2. PICK r \in Requests :
            /\ req[r].pc \in Sent /\ req[r].pc # "idle"
            /\ req[r].kind = delivery[c].partition
            /\ D!Event(c).type = req[r].kind /\ D!Event(c).id = req[r].id
            /\ D!Event(c).name = req[r].entity.name
            /\ D!Event(c).from = r
  BY <1>1, EventRequest
<1>3. req[r].pc # "aborted"
  <2>1. /\ delivery[c].partition \in Topics
        /\ delivery[c].offset + 1 \in DOMAIN log[delivery[c].partition]
        /\ D!Event(c) = log[delivery[c].partition][delivery[c].offset + 1]
    BY <1>1, BusyFields, EventFields
  <2> QED BY <1>2, <2>1 DEF KeptInv
<1>4. req[r].pc # "published"
  BY <1>1, <1>2, AskedPc, MarkersAssumption DEF RequestInv
<1>5. req[r].pc = "committed" /\ req[r].id = s
  BY <1>2, <1>3, <1>4 DEF Sent
<1>6. PICK i \in DOMAIN commits[s] : commits[s][i] = r
  BY <1>5 DEF CommittedInv
<1>7. PICK l \in Requests : /\ l = LatestRequest(s) /\ req[l].pc = "committed"
                            /\ req[l].id = s /\ req[l].pc # "idle"
  BY LatestFacts
<1>8. PICK n \in Nat : /\ n = Len(commits[s]) /\ n \in DOMAIN commits[s]
                       /\ DOMAIN commits[s] = 1..n /\ l = commits[s][n]
  BY <1>7, LatestFacts
<1>9. LatestName(s) = req[l].entity.name
  BY <1>7, RowOfTyped DEF LatestName
<1>10. i < n
  <2>1. i # n
    BY <1>2, <1>6, <1>8, <1>9
  <2> QED BY <1>8, <2>1
<1>11. req[l].kind = "update"
  <2>1. SUFFICES ASSUME req[l].kind = "create" PROVE FALSE
    BY <1>7, AskedFields DEF Topics
  <2>2. 1 \in DOMAIN commits[s] /\ 1 # n
    BY <1>8, <1>10
  <2>3. PICK q \in Requests : q = commits[s][1]
    BY <2>2 DEF TypeOK
  <2>4. /\ req[q].pc = "committed" /\ req[q].id = s /\ req[q].kind = "create"
    BY <2>2, <2>3 DEF CommitsInv
  <2>5. req[q] # NotAsked /\ req[l] # NotAsked
    BY <1>7, <2>4, AskedPc
  <2>6. q = l
    BY <1>7, <2>1, <2>4, <2>5 DEF CreateInv
  <2>7. \A i1, i2 \in DOMAIN commits[s] :
           commits[s][i1] = commits[s][i2] => i1 = i2
    BY DEF CommitsInv
  <2> QED BY <1>8, <2>2, <2>3, <2>6, <2>7
<1>12. PICK o \in SentBy(l) : TRUE
  BY <1>7 DEF SentInv
<1>13. work[c] # NoWork
  BY <1>1, WorkFields
<1>14. CASE work[c].at = "update"
  <2>1. D!Event(c).type = "update"
    BY <1>13, <1>14 DEF WorkInv
  <2>2. req[r].kind = "update" /\ delivery[c].partition = "update"
    BY <1>2, <2>1
  <2>3. delivery[c].offset + 1 \in SentBy(r)
    <3>1. /\ delivery[c].offset + 1 \in DOMAIN log["update"]
          /\ D!Event(c) = log["update"][delivery[c].offset + 1]
      BY <1>1, <2>2, BusyFields, EventFields
    <3> QED BY <1>2, <2>2, <3>1 DEF SentBy
  <2>4. delivery[c].offset + 1 < o
    BY <1>6, <1>8, <1>10, <1>11, <1>12, <2>2, <2>3
       DEF LogOrderIsCommitOrder
  <2>5. delivery[c].offset = committed["update"] /\ delivery[c].offset \in Nat
    BY <1>1, <2>2, BusyFields DEF OffsetInv
  <2>6. o \in Nat
    BY <1>7, <1>12, SentByBound
  <2>7. o > committed["update"] /\ o # delivery[c].offset + 1
    BY <2>4, <2>5, <2>6
  <2> QED BY <1>7, <1>11, <1>12, <2>7
<1>15. CASE work[c].at = "resave"
  <2>1. D!Event(c).type = "create"
    BY <1>13, <1>15 DEF WorkInv
  <2>2. delivery[c].partition = "create"
    BY <1>2, <2>1
  <2>3. o \in DOMAIN log["update"] /\ log["update"][o] = EventOf(l)
    BY <1>7, <1>11, <1>12, SentEvent DEF SentBy
  <2>4. log["update"][o].id = s
    BY <1>7, <2>3 DEF EventOf
  <2>5. o > committed["update"]
    BY <1>15, <2>3, <2>4 DEF AheadInv
  <2> QED BY <1>7, <1>11, <1>12, <2>2, <2>5
<1>16. CASE work[c].at = "insert"
  <2>1. row[s] = NoRow
    BY <1>16 DEF WritesFor, Inserts, Resaves, Rewrites
  <2> QED BY <2>1 DEF RowInv
<1> QED BY <1>1, <1>14, <1>15, <1>16

(* The update event a stale row waits for stays ahead.                     *)
Waits(o) == /\ o > committed["update"]
               /\ \A c \in Consumers :
                     /\ delivery[c].stage = "settled"
                     /\ delivery[c].partition = "update"
                     => o # delivery[c].offset + 1

LEMMA WaitsStep ==
  ASSUME Quiet, TypeOK, D!DeliveryInv, LogInv, RequestInv, WorkInv, RowInv,
         CommitsInv, OffsetInv, [Next]_vars,
         NEW s \in Subs, IsStale(s), IsStale(s)',
         req[LatestRequest(s)].kind = "update",
         NEW o \in SentBy(LatestRequest(s)), Waits(o)
  PROVE  Waits(o)'
<1>0. PICK l \in Requests : /\ l = LatestRequest(s) /\ req[l].pc = "committed"
                            /\ req[l].id = s /\ req[l].pc # "idle"
                            /\ req[l].kind = "update"
  BY LatestFacts DEF IsStale
<1>1. CASE UNCHANGED <<committed, delivery>>
  BY <1>1 DEF Waits
<1>2. ASSUME NEW r \in Requests, Commit(r)
      PROVE  UNCHANGED <<committed, delivery>>
  BY <1>2, CommitView
<1>3. ASSUME NEW c \in Consumers, ConsumerCrash(c)
      PROVE  Waits(o)'
  <2>1. delivery'[c].stage = "idle" /\ UNCHANGED committed
    BY <1>3, CrashView, IdleStage
  <2>2. \A d \in Consumers : delivery'[d].stage = "idle"
    BY <2>1, OneConsumer
  <2> QED BY <2>1, <2>2 DEF Waits
<1>4. ASSUME NEW c \in Consumers, DaemonStep(c)
      PROVE  Waits(o)'
  <2>1. \A d \in Consumers : d = c
    BY OneConsumer
  <2>2. CASE /\ committed' = committed
             /\ delivery'[c].stage \in {"heartbeat", "listening", "idle"}
    BY <2>1, <2>2 DEF Waits
  <2>3. CASE /\ delivery'[c] = D!Idle
             /\ delivery[c].stage = "settled"
             /\ committed'[delivery[c].partition] = delivery[c].offset + 1
             /\ \A t \in Topics : t # delivery[c].partition =>
                   committed'[t] = committed[t]
    <3>1. \A d \in Consumers : delivery'[d].stage = "idle"
      BY <2>1, <2>3, IdleStage
    <3>2. CASE delivery[c].partition # "update"
      BY <2>3, <3>1, <3>2 DEF Waits, Topics
    <3>3. CASE delivery[c].partition = "update"
      <4>1. /\ delivery[c].offset = committed["update"]
            /\ delivery[c].offset \in Nat
        BY <2>3, <3>3, BusyFields DEF OffsetInv
      <4>2. o > committed["update"] /\ o # delivery[c].offset + 1
        BY <2>3, <3>3 DEF Waits
      <4>3. o \in Nat
        BY <1>0, SentByBound
      <4>4. o > committed'["update"]
        BY <2>3, <3>3, <4>1, <4>2, <4>3
      <4> QED BY <3>1, <4>4 DEF Waits
    <3> QED BY <3>2, <3>3
  <2> QED BY <1>4, <2>2, <2>3, DaemonView, IdleStage
<1>5. ASSUME NEW c \in Consumers, Runs(c)
      PROVE  Waits(o)'
  <2>1. /\ delivery[c].stage = "listening" /\ UNCHANGED committed
        /\ Executes(c)
    BY <1>5 DEF Runs
  <2>2. CASE delivery' = delivery
    BY <2>1, <2>2 DEF Waits
  <2>3. CASE Returns(c)
    <3>1. SUFFICES ASSUME delivery[c].partition = "update",
                          o = delivery[c].offset + 1
                   PROVE  FALSE
      BY <2>1, <2>3, OneConsumer DEF Waits, Returns, SameDelivery
    <3>2. log["update"][o] = EventOf(l) /\ D!Event(c) = log["update"][o]
      BY <1>0, <2>1, <3>1, SentEvent, EventFields
    <3>3. /\ D!Event(c).id = s /\ D!Event(c).type = "update"
          /\ D!Event(c).name = req[l].entity.name
      BY <1>0, <3>2 DEF EventOf
    <3>4. LatestName(s) = D!Event(c).name
      BY <1>0, <3>3, RowOfTyped DEF LatestName
    <3>5. LatestName(s)' = LatestName(s)
      BY StaleCases
    <3>6. row'[s].name # D!Event(c).name /\ row[s].name # D!Event(c).name
      BY <3>4, <3>5 DEF IsStale
    <3>7. row[s] # NoRow
      BY DEF RowInv, IsStale
    <3>8. CASE Leaves(c)
      BY <3>3, <3>6, <3>7, <3>8 DEF Leaves, Quiet
    <3>9. CASE WritesRow(c)
      BY <3>3, <3>6, <3>9 DEF WritesRow
    <3> QED BY <2>1, <2>3, <3>8, <3>9
            DEF Executes, Reads, Selects, Plans, Goes, Returns, SameDelivery,
                Inserts, Resaves, Rewrites, NoWork
  <2> QED BY <2>1, <2>2, <2>3
          DEF Executes, Reads, Selects, Plans, Leaves, Goes, Inserts, Resaves,
              Rewrites, WritesRow
<1> QED BY <1>1, <1>2, <1>3, <1>4, <1>5, FiveKinds

LEMMA PendingStep ==
  ASSUME Quiet, IInv, QInv, [Next]_vars
  PROVE  PendingInv'
<1>0. /\ TypeOK /\ D!DeliveryInv
      /\ LogInv /\ SentInv /\ RequestInv /\ CreateInv
      /\ CommitsInv /\ CommittedInv /\ RowInv /\ WorkInv
      /\ LogOrderIsCommitOrder
      /\ OffsetInv /\ KeptInv /\ AheadInv /\ PendingInv
  BY DEF IInv, QInv
<1> SUFFICES ASSUME NEW s \in Subs, IsStale(s)'
             PROVE  /\ req[LatestRequest(s)].kind' = "update"
                    /\ \E o \in SentBy(LatestRequest(s))' : Waits(o)'
  BY DEF PendingInv, Waits
<1>1. /\ IsCreated(s) /\ LatestRequest(s)' = LatestRequest(s)
      /\ SameRequest(LatestRequest(s))
  BY <1>0, StaleCases
<1>2. PICK l \in Requests : l = LatestRequest(s) /\ req[l].pc # "idle"
  BY <1>0, <1>1, LatestFacts
<1>3. /\ LatestRequest(s)' = l /\ req'[l].kind = req[l].kind
      /\ SentBy(l) \subseteq SentBy(l)'
  BY <1>0, <1>1, <1>2, SentByGrows DEF SameRequest
<1>4. ASSUME req[l].kind = "update", NEW o \in SentBy(l), Waits(o)'
      PROVE  /\ req[LatestRequest(s)].kind' = "update"
             /\ \E p \in SentBy(LatestRequest(s))' : Waits(p)'
  <2>1. SentBy(LatestRequest(s))' = SentBy(l)'
    BY <1>3
  <2> QED BY <1>3, <1>4, <2>1
<1>5. CASE IsStale(s)
  <2>1. req[l].kind = "update" /\ \E o \in SentBy(l) : Waits(o)
    BY <1>0, <1>2, <1>5 DEF PendingInv, Waits
  <2>2. PICK o \in SentBy(l) : Waits(o)
    BY <2>1
  <2>3. Waits(o)'
    BY <1>0, <1>2, <1>5, <2>1, <2>2, WaitsStep
  <2> QED BY <1>4, <2>1, <2>3
<1>6. ASSUME NEW c \in Consumers, WritesFor(c), s = D!Event(c).id,
             D!Event(c).name # LatestName(s)
      PROVE  /\ req[LatestRequest(s)].kind' = "update"
             /\ \E o \in SentBy(LatestRequest(s))' : Waits(o)'
  <2>1. /\ req[l].kind = "update"
        /\ \E o \in SentBy(l) : /\ o > committed["update"]
                                /\ delivery[c].partition = "update"
                                      => o # delivery[c].offset + 1
    BY <1>0, <1>1, <1>2, <1>6, WriteBehind
  <2>2. PICK o \in SentBy(l) : /\ o > committed["update"]
                               /\ delivery[c].partition = "update"
                                     => o # delivery[c].offset + 1
    BY <2>1
  <2>3. SameDelivery(c)
    BY <1>6 DEF WritesFor, WritesRow, Returns
  <2>4. UNCHANGED committed
    <3>1. ASSUME NEW r \in Requests, Commit(r)
          PROVE  UNCHANGED committed
      BY <1>0, <3>1, CommitView
    <3>2. ASSUME NEW d \in Consumers, Runs(d) \/ ConsumerCrash(d)
          PROVE  UNCHANGED committed
      BY <1>0, <3>2, CrashView DEF Runs
    <3>3. ASSUME NEW d \in Consumers, DaemonStep(d)
          PROVE  FALSE
      <4>1. delivery[c].stage # "listening"
        BY <1>0, <3>3, DaemonView, OneConsumer
      <4> QED BY <1>6, <4>1 DEF WritesFor
    <3> QED BY <1>0, <3>1, <3>2, <3>3, FiveKinds
  <2>5. Waits(o)'
    BY <2>2, <2>3, <2>4, OneConsumer DEF Waits, SameDelivery
  <2> QED BY <1>4, <2>1, <2>5
<1> QED BY <1>0, <1>5, <1>6, StaleCases

LEMMA InitQInv == Init => QInv
<1> SUFFICES ASSUME Init PROVE QInv
  OBVIOUS
<1>1. /\ \A t \in Topics : log[t] = << >> /\ committed[t] = 0
      /\ \A c \in Consumers : /\ delivery[c].stage = "idle"
                              /\ work[c].at = "start"
      /\ \A s \in Subs : commits[s] = << >>
  BY DEF Init, D!Init, D!Idle, NoWork
<1>2. OffsetInv /\ KeptInv /\ AheadInv
  BY <1>1 DEF OffsetInv, KeptInv, AheadInv
<1>3. PendingInv
  BY <1>1 DEF PendingInv, IsStale, IsCreated
<1> QED BY <1>2, <1>3 DEF QInv

(* A row whose name is not the last committed one (the create listener has *)
(* put back an older one) is so only while an update event that will       *)
(* repair it is ahead of the committed offset.  With a second listener     *)
(* process, an event of a request that rolled back, or a listener that     *)
(* fails until it is given up, that is false: see Quiet.                   *)
THEOREM StaleIsPending ==
  ASSUME Quiet
  PROVE  Spec => []StaleOnlyWhilePending
<1>1. IInv /\ QInv /\ [Next]_vars => QInv'
  <2> SUFFICES ASSUME IInv, QInv, [Next]_vars PROVE QInv'
    OBVIOUS
  <2>1. /\ TypeOK /\ D!DeliveryInv /\ LogInv /\ RequestInv /\ WorkInv
        /\ RowInv /\ OffsetInv /\ KeptInv /\ AheadInv
    BY DEF IInv, QInv
  <2>2. OffsetInv' /\ KeptInv' /\ AheadInv'
    BY <2>1, OffsetStep, KeptStep, AheadStep
  <2> QED BY <2>2, PendingStep DEF QInv
<1>2. QInv => StaleOnlyWhilePending
  BY DEF QInv, PendingInv, StaleOnlyWhilePending, IsStale
<1> QED BY <1>1, <1>2, InitQInv, InductiveInvariant, PTL DEF Spec
=============================================================================
