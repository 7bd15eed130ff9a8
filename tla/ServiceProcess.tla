---------------------------- MODULE ServiceProcess ----------------------------
(***************************************************************************)
(* One process of the service from its command line to its end: the        *)
(* modules it scans, the order in which it boots its daemons and connects, *)
(* the Kafka producer its requests share, and how it stops.                *)
(* Init, Next and Spec have names of their own, apart from those of        *)
(* ApiRequest, which has the requests of an API process step by step.      *)
(***************************************************************************)
EXTENDS Sequences

CONSTANTS Publishers, \* requests that publish an event
          Arguments   \* command lines: process.argv[2]

VARIABLES argument,
          scanned,   \* directories whose modules the scan has imported
          stages,    \* stages of the start that are left
          pending,   \* promises the current stage awaits
          failed,    \* one was rejected: logged, and the start goes no further
          database,  \* the data source is initialized
          producer,  \* the module's variable, and what became of connect()
          listening, \* the HTTP server accepts connections
          consumer,  \* the Kafka consumer
          publication, \* of each request: how far it is
          exit

start == <<stages, pending, failed>>
services == <<database, listening, consumer>>
processVars == <<argument, scanned, start, services, producer, publication, exit>>
-----------------------------------------------------------------------------
Directories == {"__tests__", "api-server", "configs", "database",
                "event-listener", "modules", "shared"}

(* !(*__tests__*)/**/*.js, relative to the directory of the entry point.   *)
Pattern == Directories \ {"__tests__"}

(* Mutant: the server listens before its producer is connected.            *)
ListenFirst == <<{"boot"}, {"database"}, {"listen"}, {"producer"}>>
ApiServer == <<{"boot"}, {"database"}, {"producer"}, {"listen"}>>

(* Mutant: events are consumed before the database is connected.           *)
ConsumeFirst == <<{"subscribe"}, {"listen", "consume"}, {"database"}>>
(* The daemons boot and start together; the health server boots at once.   *)
EventListener == <<{"subscribe"}, {"database"}, {"listen", "consume"}>>

Runnable(a) == CASE a = "api" -> ApiServer
                 [] a = "event" -> EventListener
                 [] OTHER -> <<>>

ProcessInit ==
    /\ argument \in Arguments
    /\ scanned = {}
    /\ stages = Runnable(argument)
    /\ pending = {}
    /\ failed = FALSE
    /\ database = FALSE
    /\ producer = "none"
    /\ listening = FALSE
    /\ consumer = "none"
    /\ publication = [r \in Publishers |-> "none"]
    /\ exit = "no"

(* The scan is not awaited: its imports go on while the process starts.    *)
Scan(directory) ==
    /\ directory \notin scanned
    /\ scanned' = scanned \cup {directory}
    /\ UNCHANGED <<argument, start, services, producer, publication, exit>>

-----------------------------------------------------------------------------
(* initializeKafkaProducerClient assigns the variable, then awaits.        *)
Begin ==
    /\ pending = {} /\ ~failed /\ stages # <<>>
    /\ pending' = Head(stages)
    /\ stages' = Tail(stages)
    /\ producer' = IF "producer" \in Head(stages) THEN "connecting" ELSE producer
    /\ UNCHANGED <<argument, scanned, failed, services, publication, exit>>

Resolve(promise) ==
    /\ promise \in pending \ {"producer"}
    /\ pending' = pending \ {promise}
    /\ database' = (database \/ promise = "database")
    /\ listening' = (listening \/ promise = "listen")
    /\ consumer' = CASE promise = "subscribe" -> "subscribed"
                     [] promise = "consume" -> "running"
                     [] OTHER -> consumer
    /\ UNCHANGED <<argument, scanned, stages, failed, producer, publication, exit>>

(* The rejection of the whole start is unhandled: the process logs it and  *)
(* goes on with what runs already.  The other promises stay under way.     *)
Reject(promise) ==
    /\ promise \in pending \ {"boot", "producer"}
    /\ pending' = pending \ {promise}
    /\ stages' = <<>>
    /\ failed' = TRUE
    /\ UNCHANGED <<argument, scanned, services, producer, publication, exit>>

(* connect() of the shared producer, by the start or by a request.         *)
ProducerConnected ==
    /\ producer = "connecting"
    /\ producer' = "connected"
    /\ pending' = pending \ {"producer"}
    /\ publication' = [r \in Publishers |->
                          IF publication[r] = "connecting"
                          THEN "publishing" ELSE publication[r]]
    /\ UNCHANGED <<argument, scanned, stages, failed, services, exit>>

ProducerFailed ==
    /\ producer = "connecting"
    /\ producer' = "disconnected"
    /\ pending' = pending \ {"producer"}
    /\ IF "producer" \in pending THEN stages' = <<>> /\ failed' = TRUE
                                 ELSE UNCHANGED <<stages, failed>>
    /\ publication' = [r \in Publishers |->
                          IF publication[r] = "connecting"
                          THEN "refused" ELSE publication[r]]
    /\ UNCHANGED <<argument, scanned, services, exit>>

-----------------------------------------------------------------------------
Receive(r) ==
    /\ argument = "api" /\ listening
    /\ publication[r] = "none"
    /\ publication' = [publication EXCEPT ![r] = "received"]
    /\ UNCHANGED <<argument, scanned, start, services, producer, exit>>

(* getKafkaProducerClient: whoever finds no producer makes one and waits   *)
(* until it is connected; everybody else takes the one there is.           *)
GetProducer(r) ==
    /\ publication[r] = "received"
    /\ IF producer = "none"
       THEN /\ producer' = "connecting"
            /\ publication' = [publication EXCEPT ![r] = "connecting"]
       ELSE /\ publication' = [publication EXCEPT ![r] = "publishing"]
            /\ UNCHANGED producer
    /\ UNCHANGED <<argument, scanned, start, services, exit>>

(* send() of a producer that is not connected throws.                      *)
Publish(r) ==
    /\ publication[r] = "publishing"
    /\ publication' = [publication EXCEPT ![r] =
                      IF producer = "connected" THEN "published" ELSE "refused"]
    /\ UNCHANGED <<argument, scanned, start, services, producer, exit>>

(* SIGINT, SIGTERM or an uncaught exception: server.close() is not awaited *)
(* and process.exit cuts whatever is under way, the consumer included.     *)
Stop ==
    /\ exit' = "stopped"
    /\ listening' = FALSE
    /\ consumer' = "none"
    /\ publication' = [r \in Publishers |->
                          IF publication[r] \in {"none", "published", "refused"}
                          THEN publication[r] ELSE "cut"]
    /\ UNCHANGED <<argument, scanned, start, database, producer>>

(* Nothing is left that keeps the event loop alive, as a server, a consumer*)
(* and a connected producer do.                                            *)
Drain ==
    /\ scanned = Pattern
    /\ stages = <<>> /\ pending = {}
    /\ ~listening /\ consumer = "none" /\ producer # "connected"
    /\ exit' = "drained"
    /\ UNCHANGED <<argument, scanned, start, services, producer, publication>>

ProcessNext ==
    /\ exit = "no"
    /\ \/ \E directory \in Pattern : Scan(directory)
       \/ Begin
       \/ \E promise \in pending : Resolve(promise) \/ Reject(promise)
       \/ ProducerConnected \/ ProducerFailed
       \/ \E r \in Publishers : Receive(r) \/ GetProducer(r) \/ Publish(r)
       \/ Stop \/ Drain

ProcessSpec == ProcessInit /\ [][ProcessNext]_processVars
-----------------------------------------------------------------------------
(* Types of the state.                                                     *)
ProcessTypeOK ==
    /\ argument \in Arguments
    /\ scanned \subseteq Directories
    /\ stages \in Seq(SUBSET {"boot", "subscribe", "database", "producer",
                            "listen", "consume"})
    /\ pending \subseteq {"boot", "subscribe", "database", "producer",
                          "listen", "consume"}
    /\ failed \in BOOLEAN /\ database \in BOOLEAN /\ listening \in BOOLEAN
    /\ producer \in {"none", "connecting", "connected", "disconnected"}
    /\ consumer \in {"none", "subscribed", "running"}
    /\ publication \in [Publishers -> {"none", "received", "connecting",
                                       "publishing", "published", "refused", "cut"}]
    /\ exit \in {"no", "stopped", "drained"}

(* No request gets hold of a producer that is not connected, although it   *)
(* is in its variable before connect() has returned and stays there when   *)
(* connect() fails (producer.client.ts:20-24).                             *)
PublishersConnected ==
    \A r \in Publishers :
        /\ publication[r] = "publishing" => producer = "connected"
        /\ publication[r] # "refused"

(* Requests and events are taken on only once the database is connected,   *)
(* whichever stage of the start failed or the daemon was faster.           *)
WorkNeedsDatabase ==
    (argument = "api" /\ listening) \/ consumer = "running" => database
=============================================================================
