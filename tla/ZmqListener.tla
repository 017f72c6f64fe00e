---------------------------- MODULE ZmqListener ----------------------------
(***************************************************************************)
(* The transaction feed of zmq/zmq.go: Start connects to the ZMQ socket of *)
(* bitcoind, reconnects after a delay when the connection is lost, and     *)
(* returns when the exporter is told to stop.  The rate it computes from   *)
(* the messages is left out: what a received message does is to go on      *)
(* listening.  The connection is a thing apart from the socket it was made *)
(* to: once lost it stays lost, also when bitcoind is back, and only       *)
(* another Dial makes a new one.                                           *)
(***************************************************************************)
VARIABLES
    shutdown,   \* the exporter's context is canceled
    configured, \* ZMQ_ADDRESS is set
    feed,       \* the socket of bitcoind is "up" or "down" (external)
    connected,  \* the connection that was dialed last is alive (external)
    zmq         \* Start's goroutine: "starting", "dialing", "receiving",
                \* "backoff" or "returned"

zmqVars == <<shutdown, configured, feed, connected, zmq>>

ZmqTypeOK ==
    /\ configured \in BOOLEAN
    /\ feed \in {"up", "down"}
    /\ connected \in BOOLEAN
    /\ zmq \in {"starting", "dialing", "receiving", "backoff", "returned"}

ZmqInit ==
    /\ configured \in BOOLEAN
    /\ feed \in {"up", "down"}
    /\ connected = FALSE
    /\ zmq = "starting"

-----------------------------------------------------------------------------
\* Without an address the goroutine ends at once.
ZmqStart ==
    /\ zmq = "starting"
    /\ zmq' = IF configured THEN "dialing" ELSE "returned"
    /\ UNCHANGED <<shutdown, configured, feed, connected>>

\* runListener: Dial and the subscription succeed.
ZmqConnects ==
    /\ zmq = "dialing"
    /\ feed = "up"
    /\ ~shutdown
    /\ zmq' = "receiving"
    /\ connected' = TRUE
    /\ UNCHANGED <<shutdown, configured, feed>>

\* What becomes of an error of Dial or Recv: runListener returns it, and Start
\* waits or returns.  Before it, the slips of giving up on it and of taking that
\* of Recv, like a malformed message, for a reason to receive the next one.
GiveUp == "returned"
ReceiveOn == IF zmq = "receiving" /\ ~shutdown THEN "receiving" ELSE "backoff"
AfterError == IF shutdown THEN "returned" ELSE "backoff"

\* runListener fails, and closes its socket: Dial finds nobody, Recv has lost its
\* connection, or the context the socket was made with is canceled.
ZmqFails ==
    /\ \/ zmq = "dialing" /\ (feed = "down" \/ shutdown)
       \/ zmq = "receiving" /\ (~connected \/ shutdown)
    /\ zmq' = AfterError
    /\ connected' = FALSE
    /\ UNCHANGED <<shutdown, configured, feed>>

\* The select of Start: zmqReconnectDelay has passed, or the exporter stops.
ZmqRetries ==
    /\ zmq = "backoff"
    /\ zmq' = "dialing"
    /\ UNCHANGED <<shutdown, configured, feed, connected>>
ZmqStops ==
    /\ zmq = "backoff"
    /\ shutdown
    /\ zmq' = "returned"
    /\ UNCHANGED <<shutdown, configured, feed, connected>>

\* bitcoind goes down or comes back, or the connection breaks between them: no
\* connection survives, and none is made (external).
FeedChanges ==
    /\ feed' \in {"up", "down"}
    /\ connected \/ feed' # feed
    /\ connected' = FALSE
    /\ UNCHANGED <<shutdown, configured, zmq>>

ZmqStep == ZmqStart \/ ZmqConnects \/ ZmqFails \/ ZmqRetries \/ ZmqStops
=============================================================================
