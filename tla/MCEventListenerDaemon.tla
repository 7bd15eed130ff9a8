----------------------- MODULE MCEventListenerDaemon -----------------------
(***************************************************************************)
(* EventListenerDaemon for TLC: two listener processes on one partition,   *)
(* with a good and a poison record.                                        *)
(***************************************************************************)
EXTENDS EventListenerDaemon, TLC

CONSTANTS c1, c2, updateTopic, good, bad

MCConsumers == {c1, c2}
MCPartition == {updateTopic}
MCMessages == {good, bad}
MCPoison == {bad}
=============================================================================
