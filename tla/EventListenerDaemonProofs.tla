---------------------- MODULE EventListenerDaemonProofs ----------------------
(***************************************************************************)
(* Theorems about the event listener daemon for any number of processes,   *)
(* partitions, records, retries, crashes and rebalances.                   *)
(***************************************************************************)
EXTENDS EventListenerDaemon, TLAPS

USE RetriesAssumption DEF RetriesAssumption

(* The initial state satisfies the invariant. *)
LEMMA InitIInv == Init => IInv
  BY DEF Init, IInv, TypeOK, DeliveryInv, CommittedIsSettled, Delivery, Idle,
         Verdicts

(* What a busy consumer's delivery record looks like. *)
LEMMA BusyDelivery ==
  ASSUME TypeOK, NEW c \in Consumers, delivery[c] # Idle
  PROVE  /\ delivery[c] \in Delivery
         /\ delivery[c].partition \in Partitions
         /\ delivery[c].offset \in Nat
         /\ delivery[c].generation \in Nat
         /\ delivery[c].attempt \in 1..MaxRetries
  BY DEF TypeOK, Delivery

(* A stage other than idle means the consumer is in an onEvent call. *)
LEMMA StageBusy ==
  ASSUME NEW c \in Consumers, delivery[c].stage # "idle"
  PROVE  delivery[c] # Idle
  BY DEF Idle

(* Going round the retry loop changes only the stage and the attempt.      *)
LEMMA RetryRecord ==
  ASSUME NEW r \in Delivery, NEW n
  PROVE  LET q == [r EXCEPT !.stage = "heartbeat", !.attempt = n]
         IN  /\ q.stage = "heartbeat"
             /\ q.partition = r.partition
             /\ q.offset = r.offset
             /\ q.generation = r.generation
  BY DEF Delivery

(* Every step of the daemon keeps the types of its state.                  *)
LEMMA TypeStep == TypeOK /\ [Next]_vars => TypeOK'
<1> SUFFICES ASSUME TypeOK, [Next]_vars PROVE TypeOK'
  OBVIOUS
<1> USE DEF TypeOK, kafka
<1>1. ASSUME NEW p \in Partitions, NEW m \in Messages, Produce(p, m)
      PROVE  TypeOK'
  BY <1>1 DEF Produce
<1>2. ASSUME NEW c \in Consumers, NEW p \in Partitions, Deliver(c, p)
      PROVE  TypeOK'
  <2>1. [stage |-> "heartbeat", partition |-> p, offset |-> committed[p],
         attempt |-> 1, generation |-> generation] \in Delivery
    BY DEF Delivery
  <2>2. QED
    BY <1>2, <2>1 DEF Deliver
<1>3. ASSUME NEW c \in Consumers, StartAttempt(c)
      PROVE  TypeOK'
  <2>1. delivery[c] \in Delivery
    BY <1>3, StageBusy DEF StartAttempt, Idle
  <2>2. [delivery[c] EXCEPT !.stage = "listening"] \in Delivery
    BY <2>1 DEF Delivery
  <2>3. QED
    BY <1>3, <2>2 DEF StartAttempt
<1>4. ASSUME NEW c \in Consumers, HeartbeatThrows(c)
      PROVE  TypeOK'
  BY <1>4 DEF HeartbeatThrows
<1>5. ASSUME NEW c \in Consumers, NEW r \in Results, EndAttempt(c, r)
      PROVE  TypeOK'
  <2>1. delivery[c] \in Delivery
    BY <1>5 DEF EndAttempt, Idle
  <2>2. CASE \E v \in Verdicts : Settle(c, v)
    <3>1. [delivery[c] EXCEPT !.stage = "settled"] \in Delivery
      BY <2>1 DEF Delivery
    <3>2. delivery' \in [Consumers -> Delivery \cup {Idle}]
      BY <2>2, <3>1 DEF Settle
    <3>3. settled' \subseteq Partitions \X Nat \X Verdicts
      BY <2>1, <2>2 DEF Settle, Delivery
    <3>4. QED
      BY <1>5, <3>2, <3>3 DEF EndAttempt
  <2>3. CASE /\ delivery[c].attempt < MaxRetries
             /\ delivery' = [delivery EXCEPT ![c].stage = "heartbeat",
                                             ![c].attempt = @ + 1]
             /\ UNCHANGED settled
    <3>1. [delivery[c] EXCEPT !.stage = "heartbeat",
                              !.attempt = @ + 1] \in Delivery
      <4>1. delivery[c].attempt + 1 \in 1..MaxRetries
        BY <2>1, <2>3 DEF Delivery
      <4>2. QED
        BY <2>1, <4>1 DEF Delivery
    <3>2. delivery' = [delivery EXCEPT ![c] =
             [delivery[c] EXCEPT !.stage = "heartbeat", !.attempt = @ + 1]]
      BY <2>3
    <3>3. QED
      BY <1>5, <2>3, <3>1, <3>2 DEF EndAttempt
  <2>4. QED
    BY <1>5, <2>2, <2>3 DEF EndAttempt, Verdicts
<1>6. ASSUME NEW c \in Consumers, CommitOffset(c)
      PROVE  TypeOK'
  <2>1. delivery[c] \in Delivery
    BY <1>6 DEF CommitOffset, Idle
  <2>2. /\ delivery[c].partition \in Partitions
        /\ delivery[c].offset + 1 \in Nat
    BY <2>1 DEF Delivery
  <2>3. QED
    BY <1>6, <2>2 DEF CommitOffset
<1>7. ASSUME NEW c \in Consumers, CommitRejected(c)
      PROVE  TypeOK'
  BY <1>7 DEF CommitRejected
<1>8. CASE Rebalance
  BY <1>8 DEF Rebalance
<1>9. ASSUME NEW c \in Consumers, Crash(c)
      PROVE  TypeOK'
  BY <1>9 DEF Crash
<1>10. CASE UNCHANGED vars
  BY <1>10 DEF vars
<1>11. QED
  BY <1>1, <1>2, <1>3, <1>4, <1>5, <1>6, <1>7, <1>8, <1>9, <1>10
     DEF Next, ConsumerStep, ListenerReturns, PossibleResults, Results

(* Types of the daemon's state, for every value of the constants. *)
THEOREM TypeCorrect == Spec => []TypeOK
<1>1. Init => TypeOK
  BY InitIInv DEF IInv
<1>2. QED
  BY <1>1, TypeStep, PTL DEF Spec
-----------------------------------------------------------------------------
(* The part of DeliveryInv that is about one consumer.                     *)
Anchored(c) == delivery[c] # Idle =>
    /\ delivery[c].generation <= generation
    /\ delivery[c].offset <= committed[delivery[c].partition]
    /\ delivery[c].offset < Len(log[delivery[c].partition])
    /\ delivery[c].generation = generation =>
          /\ owner[delivery[c].partition] = c
          /\ delivery[c].offset = committed[delivery[c].partition]
    /\ delivery[c].stage = "settled" =>
          \E v \in Verdicts :
             <<delivery[c].partition, delivery[c].offset, v>> \in settled

(* A delivery nobody touched stays anchored while the log grows, verdicts   *)
(* are added and other partitions' offsets move.                           *)
LEMMA AnchoredFrame ==
  ASSUME TypeOK, NEW c \in Consumers, Anchored(c),
         delivery'[c] = delivery[c],
         generation' = generation, owner' = owner,
         settled \subseteq settled',
         \A p \in Partitions : Len(log'[p]) >= Len(log[p]) /\ Len(log'[p]) \in Nat,
         delivery[c] # Idle =>
            committed'[delivery[c].partition] = committed[delivery[c].partition]
  PROVE  Anchored(c)'
<1>1. CASE delivery[c] = Idle
  BY <1>1 DEF Anchored
<1>2. CASE delivery[c] # Idle
  <2>1. /\ delivery[c].partition \in Partitions
        /\ delivery[c].offset \in Nat
    BY <1>2, BusyDelivery
  <2>2. Len(log[delivery[c].partition]) \in Nat
    BY <2>1 DEF TypeOK
  <2>3. delivery[c].offset < Len(log'[delivery[c].partition])
    BY <1>2, <2>1, <2>2 DEF Anchored
  <2>4. QED
    BY <1>2, <2>1, <2>3 DEF Anchored
<1>3. QED
  BY <1>1, <1>2

(* After a new generation starts every delivery in flight is stale.        *)
LEMMA AnchoredNewGeneration ==
  ASSUME TypeOK, NEW c \in Consumers, Anchored(c),
         delivery'[c] = delivery[c], generation' = generation + 1,
         log' = log, committed' = committed, settled' = settled
  PROVE  Anchored(c)'
<1>1. CASE delivery[c] = Idle
  BY <1>1 DEF Anchored
<1>2. CASE delivery[c] # Idle
  <2>1. delivery[c].generation \in Nat /\ generation \in Nat
    BY <1>2, BusyDelivery DEF TypeOK
  <2>2. /\ delivery[c].generation <= generation + 1
        /\ delivery[c].generation # generation + 1
    BY <1>2, <2>1 DEF Anchored
  <2>3. /\ delivery'[c].generation <= generation'
        /\ delivery'[c].generation # generation'
    BY <2>2
  <2>4. QED
    BY <1>2, <2>3 DEF Anchored
<1>3. QED
  BY <1>1, <1>2

(* Every step keeps current deliveries at the committed offset and stale   *)
(* ones not ahead of it.                                                   *)
LEMMA DeliveryStep == TypeOK /\ DeliveryInv /\ [Next]_vars => DeliveryInv'
<1> SUFFICES ASSUME TypeOK, DeliveryInv, [Next]_vars,
                    NEW d \in Consumers
             PROVE  Anchored(d)'
  BY DEF DeliveryInv, Anchored
<1>a. \A c \in Consumers : Anchored(c)
  BY DEF DeliveryInv, Anchored
<1>l. \A p \in Partitions : Len(log[p]) \in Nat
  BY DEF TypeOK
<1> USE DEF kafka
<1>1. ASSUME NEW p \in Partitions, NEW m \in Messages, Produce(p, m)
      PROVE  Anchored(d)'
  <2>1. \A q \in Partitions : /\ Len(log'[q]) >= Len(log[q])
                              /\ Len(log'[q]) \in Nat
    BY <1>1, <1>l DEF Produce, TypeOK
  <2>2. QED
    BY <1>1, <1>a, <2>1, AnchoredFrame DEF Produce
<1>2. ASSUME NEW c \in Consumers, NEW p \in Partitions, Deliver(c, p)
      PROVE  Anchored(d)'
  <2>1. CASE d = c
    <3>1. delivery'[d] = [stage |-> "heartbeat", partition |-> p,
                          offset |-> committed[p], attempt |-> 1,
                          generation |-> generation]
      BY <1>2, <2>1 DEF Deliver, TypeOK
    <3>2. committed[p] \in Nat /\ generation \in Nat
      BY DEF TypeOK
    <3>3. QED
      BY <1>2, <2>1, <3>1, <3>2 DEF Deliver, Anchored
  <2>2. CASE d # c
    BY <1>2, <2>2, <1>a, <1>l, AnchoredFrame DEF Deliver, TypeOK
  <2>3. QED
    BY <2>1, <2>2
<1>3. ASSUME NEW c \in Consumers, StartAttempt(c)
      PROVE  Anchored(d)'
  <2>1. CASE d = c
    <3>1. delivery[d] # Idle /\ delivery[d] \in Delivery
      BY <1>3, <2>1 DEF StartAttempt, Idle, TypeOK
    <3>2. delivery'[d] = [delivery[d] EXCEPT !.stage = "listening"]
      BY <1>3, <2>1 DEF StartAttempt, TypeOK
    <3>3. QED
      BY <1>3, <1>a, <3>1, <3>2 DEF StartAttempt, Anchored, Delivery
  <2>2. CASE d # c
    BY <1>3, <2>2, <1>a, <1>l, AnchoredFrame DEF StartAttempt, TypeOK
  <2>3. QED
    BY <2>1, <2>2
<1>4. ASSUME NEW c \in Consumers,
             HeartbeatThrows(c) \/ CommitRejected(c)
      PROVE  Anchored(d)'
  <2>1. CASE d = c
    BY <1>4, <2>1 DEF HeartbeatThrows, CommitRejected, Anchored, TypeOK
  <2>2. CASE d # c
    <3>1. /\ delivery'[d] = delivery[d]
          /\ UNCHANGED <<log, committed, owner, generation, settled>>
      BY <1>4, <2>2 DEF HeartbeatThrows, CommitRejected, TypeOK
    <3>2. QED
      BY <1>a, <1>l, <3>1, AnchoredFrame
  <2>3. QED
    BY <2>1, <2>2
<1>5. ASSUME NEW c \in Consumers, NEW r \in Results, EndAttempt(c, r)
      PROVE  Anchored(d)'
  <2>1. delivery[c] # Idle /\ delivery[c] \in Delivery
    BY <1>5 DEF EndAttempt, Idle, TypeOK
  <2>2. CASE d # c
    BY <1>5, <2>2, <1>a, <1>l, AnchoredFrame DEF EndAttempt, Settle, TypeOK
  <2>3. ASSUME d = c, NEW v \in Verdicts, Settle(c, v)
        PROVE  Anchored(d)'
    <3>1. delivery'[d] = [delivery[d] EXCEPT !.stage = "settled"]
      BY <2>3 DEF Settle, TypeOK
    <3>2. <<delivery[d].partition, delivery[d].offset, v>> \in settled'
      BY <2>3 DEF Settle
    <3>3. QED
      BY <1>5, <1>a, <2>1, <2>3, <3>1, <3>2 DEF EndAttempt, Anchored, Delivery
  <2>4. ASSUME d = c, delivery[c].attempt < MaxRetries,
               delivery' = [delivery EXCEPT ![c].stage = "heartbeat",
                                            ![c].attempt = @ + 1],
               UNCHANGED settled
        PROVE  Anchored(d)'
    <3> DEFINE n == delivery[d].attempt + 1
    <3>1. delivery'[d] = [delivery[d] EXCEPT !.stage = "heartbeat",
                                             !.attempt = n]
      BY <2>4 DEF TypeOK
    <3>2. /\ delivery'[d].stage = "heartbeat"
          /\ delivery'[d].partition = delivery[d].partition
          /\ delivery'[d].offset = delivery[d].offset
          /\ delivery'[d].generation = delivery[d].generation
      <4> HIDE DEF n
      <4>1. delivery[d] \in Delivery
        BY <2>1, <2>4
      <4>2. QED
        BY <3>1, <4>1, RetryRecord
    <3>3. UNCHANGED <<log, committed, owner, generation>>
      BY <1>5 DEF EndAttempt
    <3>4. QED
      BY <1>a, <2>1, <2>4, <3>2, <3>3 DEF Anchored
  <2>5. QED
    BY <1>5, <2>2, <2>3, <2>4 DEF EndAttempt, Verdicts
<1>6. ASSUME NEW c \in Consumers, CommitOffset(c)
      PROVE  Anchored(d)'
  <2>1. delivery[c] # Idle /\ delivery[c] \in Delivery
    BY <1>6 DEF CommitOffset, Idle, TypeOK
  <2>2. CASE d = c
    BY <1>6, <2>2 DEF CommitOffset, Anchored, TypeOK
  <2>3. CASE d # c /\ delivery[d] = Idle
    BY <1>6, <2>3 DEF CommitOffset, Anchored, TypeOK
  <2>4. CASE d # c /\ delivery[d] # Idle
    <3>1. delivery'[d] = delivery[d]
      BY <1>6, <2>4 DEF CommitOffset, TypeOK
    <3>2. /\ owner[delivery[c].partition] = c
          /\ delivery[c].offset = committed[delivery[c].partition]
      BY <1>6, <1>a, <2>1 DEF CommitOffset, IsStale, Anchored
    <3>3. CASE delivery[d].partition # delivery[c].partition
      <4>1. committed'[delivery[d].partition] =
              committed[delivery[d].partition]
        BY <1>6, <2>1, <3>3 DEF CommitOffset, TypeOK
      <4>2. QED
        BY <1>6, <1>a, <1>l, <3>1, <4>1, AnchoredFrame DEF CommitOffset
    <3>4. CASE delivery[d].partition = delivery[c].partition
      <4>1. delivery[d].generation # generation
        BY <1>a, <2>4, <3>2, <3>4 DEF Anchored
      <4>2. committed'[delivery[d].partition] =
              committed[delivery[d].partition] + 1
        BY <1>6, <2>1, <3>2, <3>4 DEF CommitOffset, TypeOK, Delivery
      <4>3. /\ delivery[d].offset \in Nat
            /\ committed[delivery[d].partition] \in Nat
        BY <2>4, BusyDelivery DEF TypeOK
      <4>4. delivery[d].offset <= committed'[delivery[d].partition]
        BY <1>a, <2>4, <4>2, <4>3 DEF Anchored
      <4>5. UNCHANGED <<log, owner, generation, settled>>
        BY <1>6 DEF CommitOffset
      <4>6. QED
        BY <1>a, <2>4, <3>1, <4>1, <4>4, <4>5 DEF Anchored
    <3>5. QED
      BY <3>3, <3>4
  <2>5. QED
    BY <2>2, <2>3, <2>4
<1>7. CASE Rebalance
  BY <1>7, <1>a, AnchoredNewGeneration DEF Rebalance
<1>8. ASSUME NEW c \in Consumers, Crash(c)
      PROVE  Anchored(d)'
  <2>1. CASE d = c
    BY <1>8, <2>1 DEF Crash, Anchored, TypeOK
  <2>2. CASE d # c
    BY <1>8, <2>2, <1>a, AnchoredNewGeneration DEF Crash, TypeOK
  <2>3. QED
    BY <2>1, <2>2
<1>9. CASE UNCHANGED vars
  BY <1>9, <1>a DEF vars, Anchored
<1>10. QED
  BY <1>1, <1>2, <1>3, <1>4, <1>5, <1>6, <1>7, <1>8, <1>9
     DEF Next, ConsumerStep, ListenerReturns, PossibleResults, Results

(* A commit moves the offset over one event, which has its verdict.        *)
LEMMA CommitMovesByOne ==
  ASSUME TypeOK, DeliveryInv, NEW c \in Consumers, CommitOffset(c)
  PROVE  LET q == delivery[c].partition
         IN  /\ q \in Partitions
             /\ committed[q] < Len(log[q])
             /\ committed' = [committed EXCEPT ![q] = committed[q] + 1]
             /\ \E v \in Verdicts : <<q, committed[q], v>> \in settled
<1>1. delivery[c] # Idle
  BY DEF CommitOffset, Idle
<1>2. /\ delivery[c].offset = committed[delivery[c].partition]
      /\ delivery[c].offset < Len(log[delivery[c].partition])
      /\ \E v \in Verdicts :
            <<delivery[c].partition, delivery[c].offset, v>> \in settled
  BY <1>1 DEF DeliveryInv, CommitOffset, IsStale
<1>3. QED
  BY <1>1, <1>2, BusyDelivery DEF CommitOffset

(* No other step touches the committed offsets.                            *)
LEMMA OnlyCommitMoves ==
  ASSUME TypeOK, [Next]_vars
  PROVE  (\E c \in Consumers : CommitOffset(c)) \/ committed' = committed
  BY DEF Next, ConsumerStep, ListenerReturns, PossibleResults, Results,
         Produce, Deliver, StartAttempt, HeartbeatThrows, EndAttempt, Settle,
         CommitRejected, Rebalance, Crash, kafka, vars

(* Verdicts are never withdrawn.                                           *)
LEMMA SettledGrows ==
  ASSUME [Next]_vars
  PROVE  settled \subseteq settled'
  BY DEF Next, ConsumerStep, ListenerReturns, PossibleResults, Results,
         Produce, Deliver, StartAttempt, HeartbeatThrows, EndAttempt, Settle,
         CommitOffset, CommitRejected, Rebalance, Crash, kafka, vars

(* No step makes a committed offset pass an event without a verdict.       *)
LEMMA CommittedStep ==
  TypeOK /\ DeliveryInv /\ CommittedIsSettled /\ [Next]_vars
     => CommittedIsSettled'
<1> SUFFICES ASSUME TypeOK, DeliveryInv, CommittedIsSettled, [Next]_vars
             PROVE  CommittedIsSettled'
  OBVIOUS
<1>1. CASE committed' = committed
  BY <1>1, SettledGrows DEF CommittedIsSettled
<1>2. ASSUME NEW c \in Consumers, CommitOffset(c)
      PROVE  CommittedIsSettled'
  <2> DEFINE q == delivery[c].partition
  <2>1. /\ q \in Partitions
        /\ committed' = [committed EXCEPT ![q] = committed[q] + 1]
        /\ \E v \in Verdicts : <<q, committed[q], v>> \in settled
    BY <1>2, CommitMovesByOne
  <2> HIDE DEF q
  <2> SUFFICES ASSUME NEW p \in Partitions, NEW o \in 0..(committed'[p] - 1)
               PROVE  \E v \in Verdicts : <<p, o, v>> \in settled'
    BY DEF CommittedIsSettled
  <2>2. CASE p # q
    <3>1. o \in 0..(committed[p] - 1)
      BY <2>1, <2>2 DEF TypeOK
    <3>2. QED
      BY <3>1, SettledGrows DEF CommittedIsSettled
  <2>3. CASE p = q
    <3>1. o = committed[q] \/ o \in 0..(committed[q] - 1)
      BY <2>1, <2>3 DEF TypeOK
    <3>2. QED
      BY <2>1, <2>3, <3>1, SettledGrows DEF CommittedIsSettled
  <2>4. QED
    BY <2>2, <2>3
<1>3. QED
  BY <1>1, <1>2, OnlyCommitMoves
-----------------------------------------------------------------------------
(* The inductive invariant holds of every behaviour.                       *)
THEOREM InductiveInvariant == Spec => []IInv
<1>1. IInv /\ [Next]_vars => IInv'
  BY TypeStep, DeliveryStep, CommittedStep DEF IInv
<1>2. QED
  BY InitIInv, <1>1, PTL DEF Spec

(* No event is skipped: see CommittedIsSettled.                            *)
THEOREM NothingSkipped == Spec => []CommittedIsSettled
<1>1. IInv => CommittedIsSettled
  BY DEF IInv
<1>2. QED
  BY InductiveInvariant, <1>1, PTL

(* Current deliveries are at the committed offset, stale ones not ahead.   *)
THEOREM DeliveriesAnchored == Spec => []DeliveryInv
<1>1. IInv => DeliveryInv
  BY DEF IInv
<1>2. QED
  BY InductiveInvariant, <1>1, PTL

(* Committed offsets never go back: see CommittedNeverRegresses.           *)
THEOREM NoRegress == Spec => CommittedNeverRegresses
<1>1. IInv /\ [Next]_vars =>
        [\A p \in Partitions : committed'[p] >= committed[p]]_vars
  <2> SUFFICES ASSUME IInv, [Next]_vars, NEW p \in Partitions
               PROVE  committed'[p] >= committed[p]
    OBVIOUS
  <2>1. committed[p] \in Nat
    BY DEF IInv, TypeOK
  <2>2. CASE committed' = committed
    BY <2>1, <2>2
  <2>3. ASSUME NEW c \in Consumers, CommitOffset(c)
        PROVE  committed'[p] >= committed[p]
    <3> DEFINE q == delivery[c].partition
    <3>1. /\ q \in Partitions
          /\ committed' = [committed EXCEPT ![q] = committed[q] + 1]
      BY <2>3, CommitMovesByOne DEF IInv
    <3> HIDE DEF q
    <3>2. QED
      BY <2>1, <3>1 DEF IInv, TypeOK
  <2>4. QED
    BY <2>2, <2>3, OnlyCommitMoves DEF IInv
<1>2. QED
  BY InductiveInvariant, <1>1, PTL DEF Spec, CommittedNeverRegresses
-----------------------------------------------------------------------------
(* Every step of the daemon is a step of AtLeastOnceDelivery or leaves its *)
(* variables alone.                                                        *)
LEMMA StepRefines == IInv /\ [Next]_vars => [ALO!ANext]_(ALO!avars)
<1> SUFFICES ASSUME IInv, [Next]_vars PROVE [ALO!ANext]_(ALO!avars)
  OBVIOUS
<1> USE DEF ALO!avars, kafka
<1>1. ASSUME NEW p \in Partitions, NEW m \in Messages, Produce(p, m)
      PROVE  ALO!ANext
  BY <1>1 DEF Produce, ALO!ANext, ALO!AAppend
<1>2. ASSUME NEW c \in Consumers, NEW p \in Partitions, Deliver(c, p)
      PROVE  UNCHANGED ALO!avars
  BY <1>2 DEF Deliver
<1>3. ASSUME NEW c \in Consumers,
             StartAttempt(c) \/ HeartbeatThrows(c) \/ CommitRejected(c)
      PROVE  UNCHANGED ALO!avars
  BY <1>3 DEF StartAttempt, HeartbeatThrows, CommitRejected
<1>4. ASSUME NEW c \in Consumers, NEW r \in Results, EndAttempt(c, r)
      PROVE  [ALO!ANext]_(ALO!avars)
  <2>1. ASSUME NEW v \in Verdicts, Settle(c, v)
        PROVE  ALO!ANext
    <3> DEFINE p == delivery[c].partition
               o == delivery[c].offset
    <3>1. delivery[c] # Idle
      BY <1>4 DEF EndAttempt, Idle
    <3>2. /\ p \in Partitions
          /\ o \in 0..(Len(log[p]) - 1)
          /\ o <= committed[p]
      BY <3>1, BusyDelivery DEF IInv, DeliveryInv, TypeOK
    <3>3. v \in ALO!Verdicts
      BY <2>1 DEF Verdicts, ALO!Verdicts
    <3>4. ALO!ASettle(p, o, v)
      BY <1>4, <2>1, <3>2 DEF EndAttempt, Settle, ALO!ASettle
    <3>5. QED
      BY <3>2, <3>3, <3>4 DEF ALO!ANext
  <2>2. QED
    BY <1>4, <2>1 DEF EndAttempt, Verdicts
<1>5. ASSUME NEW c \in Consumers, CommitOffset(c)
      PROVE  ALO!ANext
  <2> DEFINE q == delivery[c].partition
  <2>1. /\ q \in Partitions
        /\ committed[q] < Len(log[q])
        /\ committed' = [committed EXCEPT ![q] = committed[q] + 1]
        /\ \E v \in Verdicts : <<q, committed[q], v>> \in settled
    BY <1>5, CommitMovesByOne DEF IInv
  <2>2. ALO!APass(q)
    BY <1>5, <2>1 DEF CommitOffset, ALO!APass, Verdicts, ALO!Verdicts
  <2>3. QED
    BY <2>1, <2>2 DEF ALO!ANext
<1>6. CASE Rebalance
  BY <1>6 DEF Rebalance
<1>7. ASSUME NEW c \in Consumers, Crash(c)
      PROVE  UNCHANGED ALO!avars
  BY <1>7 DEF Crash
<1>8. CASE UNCHANGED vars
  BY <1>8 DEF vars
<1>9. QED
  BY <1>1, <1>2, <1>3, <1>4, <1>5, <1>6, <1>7, <1>8
     DEF Next, ConsumerStep, ListenerReturns, PossibleResults, Results

(* The daemon implements in-order at-least-once delivery of every          *)
(* partition: see ImplementsAtLeastOnce.                                   *)
THEOREM AtLeastOnce == Spec => ImplementsAtLeastOnce
<1>1. Init => ALO!AInit
  BY DEF Init, ALO!AInit
<1>2. QED
  BY InductiveInvariant, <1>1, StepRefines, PTL
     DEF Spec, ImplementsAtLeastOnce, ALO!ASpec
=============================================================================
