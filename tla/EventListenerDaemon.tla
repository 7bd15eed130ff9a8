------------------------ MODULE EventListenerDaemon ------------------------
(***************************************************************************)
(* The Kafka side of the event listener process: KafkaJS hands a record to *)
(* EventListenerDaemon.onEvent, which runs EventProcessor.process up to    *)
(* MAX_RETRIES times and then commits offset + 1 whatever the outcome.     *)
(* The broker's part (partition ownership, generations, committed offsets) *)
(* is external and modelled from how the daemon uses it: autoCommit is     *)
(* off, a consumer that (re)joins resumes from the committed offset, and   *)
(* a commit or a heartbeat of an earlier generation is refused, which      *)
(* makes onEvent throw and the record be delivered again.                  *)
(***************************************************************************)
EXTENDS Integers, Sequences

CONSTANTS Consumers,       \* event listener processes of the consumer group
          Partitions,      \* partitions of the two subscribed topics
          Messages,        \* records a producer may append
          Poison,          \* records that do not parse or are no valid event
          MaxRetries,      \* MAX_RETRIES of the daemon
          MaxLog,          \* bound: records appended to one partition
          MaxGenerations   \* bound: crashes and rebalances of the group

ASSUME ConsumersAssumption == Consumers # {}
ASSUME PoisonAssumption == Poison \subseteq Messages
ASSUME RetriesAssumption == MaxRetries \in Nat \ {0}
ASSUME BoundsAssumption == MaxLog \in Nat /\ MaxGenerations \in Nat

VARIABLES log,         \* partition -> records appended to it
          committed,   \* partition -> the group's committed offset
          owner,       \* partition -> the consumer it is assigned to
          generation,  \* generation of the consumer group
          delivery,    \* consumer -> the onEvent call it is in, or Idle
          settled      \* history: <<partition, offset, verdict>> reached

kafka == <<log, committed, owner, generation>>
vars == <<log, committed, owner, generation, delivery, settled>>
-----------------------------------------------------------------------------
Verdicts == {"handled", "rejected", "exhausted"}

(* What one EventProcessor.process call can return: handled, or not        *)
(* handled and worth another attempt, or not handled and final.            *)
Results == {"handled", "retryable", "fatal"}

(* stage heartbeat: at the top of the retry loop; listening: inside        *)
(* process; settled: the loop has returned and the commit is due.          *)
Delivery == [stage: {"heartbeat", "listening", "settled"},
             partition: Partitions,
             offset: Nat,
             attempt: 1..MaxRetries,
             generation: Nat]

Idle == [stage |-> "idle"]

Event(c) == log[delivery[c].partition][delivery[c].offset + 1]

(* The delivery belongs to an assignment the group has since replaced.     *)
IsStale(c) == delivery[c].generation # generation

(* parseMessage and isValidEvent settle a poison record at once; any other *)
(* record gets what dispatch gives: a listener's outcome, a heartbeat that *)
(* throws (retryable), or no listener for it (final).                      *)
PossibleResults(m) == IF m \in Poison THEN {"fatal"} ELSE Results
-----------------------------------------------------------------------------
Init == /\ log = [p \in Partitions |-> << >>]
        /\ committed = [p \in Partitions |-> 0]
        /\ owner \in [Partitions -> Consumers]
        /\ generation = 0
        /\ delivery = [c \in Consumers |-> Idle]
        /\ settled = {}

(* A producer's send reaches the partition's leader.                       *)
Produce(p, m) ==
    /\ Len(log[p]) < MaxLog
    /\ log' = [log EXCEPT ![p] = Append(@, m)]
    /\ UNCHANGED <<committed, owner, generation, delivery, settled>>

(* KafkaJS calls eachMessage with the next record of an owned partition.   *)
Deliver(c, p) ==
    /\ delivery[c] = Idle
    /\ owner[p] = c
    /\ committed[p] < Len(log[p])
    /\ delivery' = [delivery EXCEPT ![c] =
                      [stage |-> "heartbeat", partition |-> p,
                       offset |-> committed[p], attempt |-> 1,
                       generation |-> generation]]
    /\ UNCHANGED <<kafka, settled>>

(* Mutant: the offset is committed before the event is processed.          *)
CommitFirst(c) ==
    /\ delivery[c].stage = "heartbeat"
    /\ delivery' = [delivery EXCEPT ![c].stage = "settled"]
    /\ UNCHANGED <<kafka, settled>>

(* The heartbeat at the top of the loop succeeds, or is skipped because    *)
(* heartbeatInterval has not elapsed, and process is called.               *)
StartAttempt(c) ==
    /\ delivery[c].stage = "heartbeat"
    /\ delivery' = [delivery EXCEPT ![c].stage = "listening"]
    /\ UNCHANGED <<kafka, settled>>

(* The heartbeat is refused: onEvent throws and nothing is committed.      *)
HeartbeatThrows(c) ==
    /\ delivery[c].stage = "heartbeat"
    /\ IsStale(c)
    /\ delivery' = [delivery EXCEPT ![c] = Idle]
    /\ UNCHANGED <<kafka, settled>>

Settle(c, verdict) ==
    /\ delivery' = [delivery EXCEPT ![c].stage = "settled"]
    /\ settled' = settled \cup
                    {<<delivery[c].partition, delivery[c].offset, verdict>>}

(* Mutant: a retryable failure is retried until it goes away.              *)
RetryForever(c, result) ==
    /\ delivery[c].stage = "listening"
    /\ \/ result = "handled" /\ Settle(c, "handled")
       \/ result = "fatal" /\ Settle(c, "rejected")
       \/ /\ result = "retryable"
          /\ delivery' = [delivery EXCEPT ![c].stage = "heartbeat"]
          /\ UNCHANGED settled
    /\ UNCHANGED kafka

(* process returns: a handled or a final result leaves the retry loop, a   *)
(* retryable one sleeps (backoff) and goes round until MaxRetries.         *)
EndAttempt(c, result) ==
    /\ delivery[c].stage = "listening"
    /\ \/ result = "handled" /\ Settle(c, "handled")
       \/ result = "fatal" /\ Settle(c, "rejected")
       \/ /\ result = "retryable"
          /\ delivery[c].attempt = MaxRetries
          /\ Settle(c, "exhausted")
       \/ /\ result = "retryable"
          /\ delivery[c].attempt < MaxRetries
          /\ delivery' = [delivery EXCEPT ![c].stage = "heartbeat",
                                          ![c].attempt = @ + 1]
          /\ UNCHANGED settled
    /\ UNCHANGED kafka

(* Mutant: a commit that is not tied to the current assignment.            *)
CommitUnfenced(c) ==
    /\ delivery[c].stage = "settled"
    /\ committed' = [committed EXCEPT ![delivery[c].partition] =
                                                  delivery[c].offset + 1]
    /\ delivery' = [delivery EXCEPT ![c] = Idle]
    /\ UNCHANGED <<log, owner, generation, settled>>

(* commitOffsets([offset + 1]), then onEvent returns.                      *)
CommitOffset(c) ==
    /\ delivery[c].stage = "settled"
    /\ ~IsStale(c)
    /\ committed' = [committed EXCEPT ![delivery[c].partition] =
                                                  delivery[c].offset + 1]
    /\ delivery' = [delivery EXCEPT ![c] = Idle]
    /\ UNCHANGED <<log, owner, generation, settled>>

(* The broker refuses a commit of an earlier generation: onEvent throws.   *)
CommitRejected(c) ==
    /\ delivery[c].stage = "settled"
    /\ IsStale(c)
    /\ delivery' = [delivery EXCEPT ![c] = Idle]
    /\ UNCHANGED <<kafka, settled>>

(* The group assigns the partitions anew, e.g. because a session timed out *)
(* while onEvent was waiting: deliveries in flight go on as stale ones.    *)
Rebalance ==
    /\ generation < MaxGenerations
    /\ generation' = generation + 1
    /\ owner' \in [Partitions -> Consumers]
    /\ UNCHANGED <<log, committed, delivery, settled>>

(* A listener process dies inside onEvent; it or another one rejoins.      *)
Crash(c) ==
    /\ delivery[c] # Idle
    /\ generation < MaxGenerations
    /\ generation' = generation + 1
    /\ owner' \in [Partitions -> Consumers]
    /\ delivery' = [delivery EXCEPT ![c] = Idle]
    /\ UNCHANGED <<log, committed, settled>>

ListenerReturns(c) ==
    /\ delivery[c].stage = "listening"
    /\ \E result \in PossibleResults(Event(c)) : EndAttempt(c, result)

ConsumerStep(c) == \/ \E p \in Partitions : Deliver(c, p)
                   \/ StartAttempt(c)
                   \/ HeartbeatThrows(c)
                   \/ ListenerReturns(c)
                   \/ CommitOffset(c)
                   \/ CommitRejected(c)

Next == \/ \E p \in Partitions, m \in Messages : Produce(p, m)
        \/ \E c \in Consumers : ConsumerStep(c)
        \/ Rebalance
        \/ \E c \in Consumers : Crash(c)

Spec == Init /\ [][Next]_vars

(* Every process keeps running its event loop; nothing is assumed of the   *)
(* producers, of crashes or of rebalances.                                 *)
FairSpec == Spec /\ \A c \in Consumers : WF_vars(ConsumerStep(c))
-----------------------------------------------------------------------------
(* Types of the state.                                                     *)
TypeOK == /\ log \in [Partitions -> Seq(Messages)]
          /\ committed \in [Partitions -> Nat]
          /\ owner \in [Partitions -> Consumers]
          /\ generation \in Nat
          /\ delivery \in [Consumers -> Delivery \cup {Idle}]
          /\ settled \subseteq Partitions \X Nat \X Verdicts

(* The group never moves past an event nobody has given a verdict on,      *)
(* whatever crashes and reassignments happen between processing an event   *)
(* and committing its offset (onEvent commits after processWithRetry).     *)
CommittedIsSettled ==
    \A p \in Partitions : \A o \in 0..(committed[p] - 1) :
        \E v \in Verdicts : <<p, o, v>> \in settled

(* No step takes the committed offset back, although a process that has    *)
(* lost its partition still finishes its event and tries to commit it.     *)
CommittedNeverRegresses ==
    [][\A p \in Partitions : committed'[p] >= committed[p]]_vars

(* A record no listener handles, or whose listener keeps failing, does not *)
(* block its partition: every appended record is eventually passed.        *)
EveryEventPassed ==
    \A p \in Partitions, o \in 0..(MaxLog - 1) :
        (Len(log[p]) > o) ~> (committed[p] > o)

(* The daemon implements in-order, at-least-once delivery per partition.   *)
ALO == INSTANCE AtLeastOnceDelivery WITH passed <- committed
ImplementsAtLeastOnce == ALO!ASpec
-----------------------------------------------------------------------------
(* A delivery that the group still considers current is at the committed   *)
(* offset of a partition its consumer owns; a stale one is not ahead of    *)
(* it, so neither can make the offset skip an event.                       *)
DeliveryInv ==
    \A c \in Consumers : delivery[c] # Idle =>
        /\ delivery[c].generation <= generation
        /\ delivery[c].offset <= committed[delivery[c].partition]
        /\ delivery[c].offset < Len(log[delivery[c].partition])
        /\ delivery[c].generation = generation =>
              /\ owner[delivery[c].partition] = c
              /\ delivery[c].offset = committed[delivery[c].partition]
        /\ delivery[c].stage = "settled" =>
              \E v \in Verdicts :
                 <<delivery[c].partition, delivery[c].offset, v>> \in settled

(* The inductive invariant of the proofs.                                  *)
IInv == TypeOK /\ DeliveryInv /\ CommittedIsSettled
=============================================================================
