------------------------ MODULE AtLeastOnceDelivery ------------------------
(***************************************************************************)
(* What the event listener process promises about each Kafka partition,    *)
(* without consumers, generations or retries: events are settled in log    *)
(* order, possibly several times, and the committed offset moves one event *)
(* at a time and never past an event that has not been settled.            *)
(***************************************************************************)
EXTENDS Integers, Sequences

CONSTANTS Partitions,   \* partitions of the topics the service subscribes to
          Messages      \* records a producer may append

VARIABLES log,       \* partition -> the records appended to it
          passed,    \* partition -> number of records the group has moved past
          settled    \* <<partition, offset, verdict>> for each verdict given

avars == <<log, passed, settled>>

Verdicts == {"handled", "rejected", "exhausted"}

AInit == /\ log = [p \in Partitions |-> << >>]
         /\ passed = [p \in Partitions |-> 0]
         /\ settled = {}

AAppend(p, m) == /\ log' = [log EXCEPT ![p] = Append(@, m)]
                 /\ UNCHANGED <<passed, settled>>

(* A verdict on a record whose predecessors have all been passed; records  *)
(* already passed may be settled again (a redelivery).                     *)
ASettle(p, o, v) == /\ o <= passed[p]
                    /\ settled' = settled \cup {<<p, o, v>>}
                    /\ UNCHANGED <<log, passed>>

APass(p) == /\ passed[p] < Len(log[p])
            /\ \E v \in Verdicts : <<p, passed[p], v>> \in settled
            /\ passed' = [passed EXCEPT ![p] = @ + 1]
            /\ UNCHANGED <<log, settled>>

ANext == \E p \in Partitions :
            \/ \E m \in Messages : AAppend(p, m)
            \/ \E o \in 0..(Len(log[p]) - 1), v \in Verdicts : ASettle(p, o, v)
            \/ APass(p)

ASpec == AInit /\ [][ANext]_avars
=============================================================================
