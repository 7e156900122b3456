---------------------------- MODULE TcpTransport ----------------------------
(***************************************************************************)
(* A face over TCP, from daemon/face/transport, stream-transport and       *)
(* tcp-transport, with the part of fw/face-table that removes and frees    *)
(* it. A permanent transport whose connection breaks goes DOWN and tries   *)
(* to connect again; every other one fails.                                *)
(*                                                                         *)
(* Everything runs on one thread. The socket completes an operation at any *)
(* time, its handler then waits behind the handlers that are ready: state  *)
(* is read and changed by handlers that were queued when it was another.   *)
(* The transport is a record t; an operator on it stands for a member      *)
(* function and returns the record after it:                               *)
(*   state, persistency, sendQueue, wait (m_nextReconnectWait, by its      *)
(*   number of doublings), timer (m_reconnectEvent is pending)             *)
(*   socket     connecting, connected, shut or closed                      *)
(*   ops        operations of the socket under way, and how many           *)
(*   ready      handlers of the io_service that are ready to run           *)
(*   freed      the face has been deallocated                              *)
(*   running    FALSE where the model ends: at an exception that nobody    *)
(*              catches or the front of an empty queue. The build is the   *)
(*              default one, without assertions: handlers go on in states  *)
(*              that startReceive and reconnect assert they are not in     *)
(***************************************************************************)
EXTENDS Naturals, Sequences

CONSTANTS
    MaxQueue,      \* packets in the send queue
    MaxFaults,     \* errors, ends of file and timeouts in a behaviour
    MaxWait        \* doublings from the initial to the longest reconnection wait

ASSUME TcpAssumption == {MaxQueue, MaxFaults, MaxWait} \subseteq Nat

VARIABLES t, faults

tcpVars == <<t, faults>>

IoOp == {"connect", "receive", "send"}

NoOps == [op \in IoOp |-> 0]

Persistency == {"on-demand", "persistent", "permanent"}

Handler(op, result) == [op |-> op, result |-> result]

TcpInit ==
    /\ \E p \in Persistency :
          t = [state |-> "UP", persistency |-> p, sendQueue |-> 0, wait |-> 0, timer |-> FALSE,
               socket |-> "connected", ops |-> [NoOps EXCEPT !["receive"] = 1], ready |-> <<>>,
               freed |-> FALSE, running |-> TRUE]
    /\ faults = 0

ShuttingDown(u) == u.state \in {"CLOSING", "FAILED", "CLOSED"}

Post(u, op) == [u EXCEPT !.ready = Append(@, Handler(op, "ok"))]

End(u) == [u EXCEPT !.running = FALSE]

(***************************************************************************)
(* The socket. cancel and close complete what is under way as aborted.     *)
(***************************************************************************)
Completed(u, result) ==
    LET all(op) == [i \in 1 .. u.ops[op] |-> Handler(op, result)]
    IN  [u EXCEPT !.ready = @ \o all("connect") \o all("receive") \o all("send"),
                  !.ops = NoOps]

cancel(u) == Completed(u, "aborted")

close(u) == [cancel(u) EXCEPT !.socket = "closed"]

\* An operation on a socket that was shut or closed fails at once, on one that is
\* connecting it waits for the connection.
Start(u, op) ==
    IF u.socket \in {"connecting", "connected"} THEN [u EXCEPT !.ops[op] = @ + 1]
    ELSE [u EXCEPT !.ready = Append(@, Handler(op, "error"))]

(***************************************************************************)
(* Transport                                                               *)
(***************************************************************************)
ValidTransition ==
    {"UP"} \X {"DOWN", "CLOSING", "FAILED"} \cup {"DOWN"} \X {"UP", "CLOSING", "FAILED"}
        \cup {"CLOSING", "FAILED"} \X {"CLOSED"}

\* In CLOSED the face table removes the face, and posts a handler to free it.
setState(u, new) ==
    IF u.state = new THEN u
    ELSE IF <<u.state, new>> \notin ValidTransition THEN End(u)
    ELSE LET v == [u EXCEPT !.state = new] IN IF new = "CLOSED" THEN Post(v, "free") ELSE v

\* Mutant: the socket is closed and the transport freed at once.
CloseAtOnce(u) == setState(close([u EXCEPT !.timer = FALSE, !.sendQueue = 0]), "CLOSED")

doClose(u) ==
    LET v == [u EXCEPT !.timer = FALSE]
    IN  Post(IF u.socket = "closed" THEN v ELSE [cancel(v) EXCEPT !.socket = "shut"],
             "deferredClose")

\* Mutant: a transport that failed is closed without being reported CLOSED.
ClosedUnlessFailed(u) ==
    IF u.state = "FAILED" THEN close([u EXCEPT !.sendQueue = 0])
    ELSE setState(close([u EXCEPT !.sendQueue = 0]), "CLOSED")

deferredClose(u) == setState(close([u EXCEPT !.sendQueue = 0]), "CLOSED")

(***************************************************************************)
(* Handlers                                                                *)
(***************************************************************************)
handleError(u, result) ==
    IF u.persistency = "permanent" THEN Post(cancel(setState(u, "DOWN")), "reconnect")
    ELSE doClose(setState(u, IF result = "eof" THEN "CLOSING" ELSE "FAILED"))

processErrorCode(u, result) ==
    IF ShuttingDown(u) \/ result = "aborted" THEN u ELSE handleError(u, result)

sendFromQueue(u) == Start(u, "send")

handleSend(u, result) ==
    IF result # "ok" THEN processErrorCode(u, result)
    ELSE IF u.sendQueue = 0 THEN End(u)
    ELSE LET v == [u EXCEPT !.sendQueue = @ - 1]
         IN  IF v.sendQueue > 0 THEN sendFromQueue(v) ELSE v

startReceive(u) == Start(u, "receive")

handleReceive(u, result) ==
    CASE result = "ok" -> startReceive(u)
      [] result = "too large" ->
            LET v == setState(u, "FAILED") IN IF v.running THEN doClose(v) ELSE v
      [] OTHER -> processErrorCode(u, result)

\* The old socket is closed by the assignment.
reconnect(u) ==
    IF ShuttingDown(u) THEN u
    ELSE [close(u) EXCEPT !.socket = "connecting", !.ops = [NoOps EXCEPT !["connect"] = 1],
                          !.sendQueue = 0, !.timer = TRUE]

\* Mutant: the receive loop is not started again.
ReconnectWithoutReceive(u, result) ==
    IF ShuttingDown(u) \/ result # "ok" THEN u
    ELSE setState([u EXCEPT !.timer = FALSE, !.wait = 0], "UP")

\* A socket that was closed meanwhile has no local endpoint.
handleReconnect(u, result) ==
    IF ShuttingDown(u) \/ result # "ok" THEN u
    ELSE IF u.socket = "closed" THEN End(u)
    ELSE startReceive(setState([u EXCEPT !.timer = FALSE, !.wait = 0], "UP"))

Run(u, h) ==
    CASE h.op = "send" -> handleSend(u, h.result)
      [] h.op = "receive" -> handleReceive(u, h.result)
      [] h.op = "connect" -> handleReconnect(u, h.result)
      [] h.op = "reconnect" -> reconnect(u)
      [] h.op = "deferredClose" -> deferredClose(u)
      [] h.op = "free" -> [u EXCEPT !.freed = TRUE]

RunHandler ==
    /\ t.ready # <<>>
    /\ t' = Run([t EXCEPT !.ready = Tail(@)], Head(t.ready))
    /\ UNCHANGED faults

\* The event is no longer pending when it runs.
handleReconnectTimeout ==
    /\ t.timer
    /\ faults < MaxFaults
    /\ faults' = faults + 1
    /\ t' = Post(close([t EXCEPT !.timer = FALSE,
                                 !.wait = IF @ < MaxWait THEN @ + 1 ELSE @]), "reconnect")

(***************************************************************************)
(* The socket and the users of the transport                               *)
(***************************************************************************)
Fault(op) == CASE op = "receive" -> {"eof", "error", "too large"}
               [] OTHER -> {"error"}

Finish(u, op, result) ==
    [u EXCEPT !.ops[op] = @ - 1, !.ready = Append(@, Handler(op, result))]

Complete(op) ==
    /\ t.ops[op] > 0
    /\ t.socket = IF op = "connect" THEN "connecting" ELSE "connected"
    /\ t' = [Finish(t, op, "ok") EXCEPT !.socket = "connected"]
    /\ UNCHANGED faults

\* With the attempt to connect fails everything that waits for the connection.
Break(op, result) ==
    /\ t.ops[op] > 0
    /\ t.socket = IF op = "connect" THEN "connecting" ELSE "connected"
    /\ faults < MaxFaults
    /\ faults' = faults + 1
    /\ t' = LET u == Finish(t, op, result)
            IN  IF op = "connect" THEN [Completed(u, "error") EXCEPT !.socket = "shut"] ELSE u

\* doSend, from send of the link service.
send ==
    /\ t.state = "UP"
    /\ t.sendQueue < MaxQueue
    /\ t' = IF t.sendQueue = 0 THEN sendFromQueue([t EXCEPT !.sendQueue = 1])
                               ELSE [t EXCEPT !.sendQueue = @ + 1]
    /\ UNCHANGED faults

\* Transport::close, by a face manager or channel.
Close ==
    /\ t.state \in {"UP", "DOWN"}
    /\ t' = doClose(setState(t, "CLOSING"))
    /\ UNCHANGED faults

\* A transport that is no longer permanent may not stay DOWN.
setPersistency(p) ==
    /\ ~t.freed
    /\ t.persistency # p
    /\ t' = LET u == [t EXCEPT !.persistency = p]
            IN  IF t.persistency = "permanent" /\ t.state = "DOWN"
                  THEN doClose(setState(u, "FAILED")) ELSE u
    /\ UNCHANGED faults

TcpNext ==
    /\ t.running
    /\ \/ RunHandler
       \/ handleReconnectTimeout
       \/ \E op \in IoOp : Complete(op) \/ \E r \in Fault(op) : Break(op, r)
       \/ send
       \/ Close
       \/ \E p \in Persistency : setPersistency(p)

\* The io_service runs what is ready.
TcpSpec == TcpInit /\ [][TcpNext]_tcpVars /\ WF_tcpVars(t.running /\ RunHandler)

-----------------------------------------------------------------------------
Awaited(op) ==
    \/ op \in IoOp /\ t.ops[op] > 0
    \/ \E i \in 1 .. Len(t.ready) : t.ready[i].op = op

(* deferredClose and the deferred deallocation of the face table come after every
   handler that still refers to the transport. *)
NoUseAfterFree == t.freed => t.ready = <<>> /\ t.ops = NoOps /\ ~t.timer

(* A transport does what its state says. While it is DOWN it keeps trying: an attempt
   to connect is posted, or its timeout is pending. While it is UP, also after it was
   connected again, it keeps receiving, and its send queue is not left without a
   write, unless another attempt to connect is under way, which empties the queue. *)
KeepsWorking ==
    /\ t.running /\ t.state = "DOWN" => t.timer \/ Awaited("reconnect")
    /\ t.running /\ t.state = "UP" /\ ~t.timer /\ ~Awaited("reconnect") =>
          /\ Awaited("receive")
          /\ t.sendQueue > 0 => Awaited("send")

\* A transport that is closed or fails ends up CLOSED and is freed.
CloseCompletes == ShuttingDown(t) ~> t.freed \/ ~t.running

=============================================================================
