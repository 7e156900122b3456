----------------------------- MODULE ClientFace -----------------------------
(***************************************************************************)
(* The Face of ndn-cxx that applications use (src/face.cpp, detail/), with *)
(* the commands of nfd::Controller and the transport over a local stream   *)
(* socket (transport/stream-transport-impl.hpp, unix-transport.cpp).       *)
(*                                                                         *)
(* Every call of the application posts a handler to the io_service, which  *)
(* runs it after the handlers that are ready. Completions of the socket    *)
(* wait in the same queue, those of a transport closed meanwhile too. The  *)
(* face is a record f; an operator on it stands for a member function:     *)
(*   posted   handlers that are ready                                      *)
(*   pit      pending Interests, numbered by the calls that made them; the *)
(*            forwarder's have negative numbers. left is m_nNotNacked, for *)
(*            what the application's are about                             *)
(*   filters  Interest filters: -n set alone by call n, or the prefix that *)
(*            was registered with it                                       *)
(*   prefixes registered prefixes                                          *)
(*   hasImpl, isConnecting, queue    of the transport's implementation     *)
(*   isConnected, isReceiving        of the transport                      *)
(*   ops      how many operations of the socket, and the connect timer,    *)
(*            are under way; a "rewrite" is of a packet that another write *)
(*            has removed from the queue                                   *)
(*   nRead    packets handled so far of the read that is first in posted   *)
(*   issued, told, dropped           history: Interests expressed, whose   *)
(*            callback ran, or that were removed on request, at shutdown   *)
(*            or by an exception                                           *)
(*   deaf     history: an exception left the handler of a read since the   *)
(*            transport was last paused or closed                          *)
(*   running  FALSE once an iterator or pointer was used that is invalid   *)
(*                                                                         *)
(* All Interests of the application and all filters are about one name; a  *)
(* command has a name of its own. An unregistration "unset" was asked for  *)
(* without callbacks. Callbacks of the application throw nothing.          *)
(***************************************************************************)
EXTENDS Integers, FiniteSets, Sequences

CONSTANTS
    MaxCalls,      \* calls of the application
    MaxErrors,     \* errors of the socket, connect timeouts, packets oversized or malformed
    MaxRecords,    \* Interests of the forwarder that are pending
    MaxPackets     \* packets of a read

ASSUME ClientAssumption == {MaxCalls, MaxErrors, MaxRecords, MaxPackets} \subseteq Nat

VARIABLES
    f,
    nCalls, nErrors

clientVars == <<f, nCalls, nErrors>>

\* What a handler is about: an Interest, a prefix or nothing. old marks a completion
\* of a transport that was closed after it.
Job(op, id, ok) == [op |-> op, id |-> id, for |-> "app", prefix |-> 0, ok |-> ok, old |-> FALSE]

SocketOp == {"connect", "timer", "receive", "write", "rewrite"}

NothingUnderWay == [op \in SocketOp |-> 0]

PostJob(g, job) == [g EXCEPT !.posted = Append(@, job)]

\* The handlers of these operations find their transport or queue item gone.
Outdate(posted, ops) ==
    [i \in DOMAIN posted |-> [posted[i] EXCEPT !.old = @ \/ posted[i].op \in ops]]

ClientInit ==
    /\ f = [posted |-> <<Job("construct", 0, TRUE)>>, pit |-> {}, filters |-> {},
            prefixes |-> {}, hasImpl |-> FALSE, isConnecting |-> FALSE, queue |-> 0,
            isConnected |-> FALSE, isReceiving |-> FALSE, ops |-> NothingUnderWay,
            nRead |-> 0, issued |-> {}, told |-> {}, dropped |-> {}, deaf |-> FALSE,
            running |-> TRUE]
    /\ nCalls = 0 /\ nErrors = 0

Invalid(g) == [g EXCEPT !.running = FALSE]

(***************************************************************************)
(* The transport                                                           *)
(***************************************************************************)
StartOp(g, op) == [g EXCEPT !.ops[op] = @ + 1]

\* What is under way is cancelled; only an attempt to connect does something then.
closeTransport(g) ==
    LET h == [g EXCEPT !.hasImpl = FALSE, !.isConnecting = FALSE, !.queue = 0,
                       !.ops = NothingUnderWay, !.isConnected = FALSE, !.isReceiving = FALSE,
                       !.deaf = FALSE, !.posted = Outdate(@, SocketOp)]
    IN  IF ~g.hasImpl THEN Invalid(g)
        ELSE IF g.ops["connect"] > 0
        THEN PostJob(h, [Job("connect", 0, FALSE) EXCEPT !.old = TRUE]) ELSE h

connect(g) ==
    IF g.hasImpl /\ g.isConnecting THEN g
    ELSE StartOp(StartOp([g EXCEPT !.hasImpl = TRUE, !.isConnecting = TRUE], "connect"), "timer")

\* All operations of the socket are cancelled, writes too.
pause(g) ==
    IF ~g.hasImpl \/ g.isConnecting \/ ~g.isReceiving THEN g
    ELSE [g EXCEPT !.isReceiving = FALSE, !.ops["receive"] = 0, !.ops["write"] = 0,
                     !.ops["rewrite"] = 0, !.deaf = FALSE]

resume(g) ==
    IF ~g.hasImpl THEN Invalid(g)
    ELSE IF g.isConnecting \/ g.isReceiving THEN g
    ELSE StartOp([g EXCEPT !.isReceiving = TRUE], "receive")

sendWire(g) ==
    LET h == [g EXCEPT !.queue = @ + 1]
    IN  IF ~g.running THEN g
        ELSE IF h.isConnected /\ h.queue = 1 THEN StartOp(h, "write") ELSE h

ensureConnected(g, wantResume) ==
    LET h == IF g.isConnected THEN g ELSE connect(g)
    IN  IF wantResume /\ ~h.isReceiving THEN resume(h) ELSE h

(***************************************************************************)
(* Tables of the face                                                      *)
(***************************************************************************)
AppIds(entries) == {e.id : e \in {x \in entries : x.id > 0}}

\* ContainerWithOnEmptySignal posts another handler when it is or becomes empty.
PostOnEmpty(g) == PostJob(g, Job("onEmpty", 0, TRUE))

SetPit(g, entries) ==
    IF entries = {} /\ g.pit # {} THEN PostOnEmpty([g EXCEPT !.pit = entries])
                                      ELSE [g EXCEPT !.pit = entries]

ClearPit(g) ==
    PostOnEmpty([g EXCEPT !.pit = {}, !.dropped = @ \cup AppIds(g.pit)])

ClearTables(g) == PostOnEmpty([ClearPit(g) EXCEPT !.prefixes = {}])

\* Mutant: the tables are cleared without their signals.
ThrowQuietly(g) ==
    IF g.running THEN [g EXCEPT !.pit = {}, !.prefixes = {}, !.dropped = @ \cup AppIds(g.pit)]
    ELSE g

\* processEvents clears the tables and passes the exception on; the application goes
\* on with a further processEvents.
Throw(g) == IF g.running THEN ClearTables(g) ELSE g

\* finishEncoding throws if the packet is too large.
SendPacket(g, fits) == IF fits THEN sendWire(g) ELSE Throw(g)

\* Mutant: an application that only serves a prefix is not taken to wait.
PauseOnEmptyPit(g) == IF g.pit = {} THEN pause(g) ELSE g

onEmptyPitOrNoRegisteredPrefixes(g) ==
    IF g.pit = {} /\ g.prefixes = {} THEN pause(g) ELSE g

(***************************************************************************)
(* Pending Interests. A packet about k = 0 has the name of the application,*)
(* else it is about the command k.                                         *)
(***************************************************************************)
MatchesPacket(e, k) == IF k = 0 THEN e.for = "app" ELSE e.id = k

afterPrefixRegistered(g, p) ==
    [g EXCEPT !.prefixes = @ \cup {p}, !.filters = @ \cup {p}]

finalizeUnregisterPrefix(g, p) ==
    LET h == [g EXCEPT !.prefixes = @ \ {p}]
    IN  IF p \notin g.prefixes THEN Invalid(g)
        ELSE IF h.prefixes = {} THEN PostOnEmpty(h) ELSE h

\* The failure of these is reported through an empty function, which throws.
EmptyCallback(entries) == \E e \in entries : e.for = "unset"

\* Controller::processCommandResponse
processCommandResponse(g, e, ok) ==
    CASE ok /\ e.for = "register" -> afterPrefixRegistered(g, e.prefix)
      [] ok /\ e.for \in {"unregister", "unset"} -> finalizeUnregisterPrefix(g, e.prefix)
      [] ~ok /\ EmptyCallback({e}) -> Throw(g)
      [] OTHER -> g

Hits(g, k) == {e \in g.pit : MatchesPacket(e, k)}

satisfyPendingInterests(g, k, ok) ==
    LET hits == Hits(g, k)
        h == SetPit([g EXCEPT !.told = @ \cup AppIds(hits)], g.pit \ hits)
    IN  IF k # 0 /\ hits # {} THEN processCommandResponse(h, CHOOSE e \in hits : TRUE, ok) ELSE h

\* Data of the application that only its own Interests asked for is not sent.
ShouldSendToForwarder(g) == AppIds(Hits(g, 0)) = {} \/ \E e \in Hits(g, 0) : e.id < 0

\* A record is Nacked when every destination has Nacked. Callbacks run before the
\* record is erased: what they post comes before the handler for an empty table.
NackedHits(g, k) == {e \in Hits(g, k) : e.left <= 1}

\* A callback may express the Interest again, as number n (0: it does not).
Retry(g, n) ==
    IF n = 0 THEN g ELSE PostJob([g EXCEPT !.issued = @ \cup {n}], Job("express", n, TRUE))

NackedOnce(e) == [e EXCEPT !.left = @ - 1]

\* Mutant: the callback is invoked at the first Nack.
NackAtOnce(g, k, n) ==
    LET hits == Hits(g, k)
        told == Retry([g EXCEPT !.told = @ \cup AppIds(hits)], n)
    IN  SetPit(told, (g.pit \ hits) \cup {NackedOnce(e) : e \in hits \ NackedHits(g, k)})

nackPendingInterests(g, k, n) ==
    LET hits == NackedHits(g, k)
        told == Retry([g EXCEPT !.told = @ \cup AppIds(hits)], n)
    IN  IF EmptyCallback(hits) THEN Throw([told EXCEPT !.pit = @ \ hits])
        ELSE SetPit(told, (g.pit \ Hits(g, k)) \cup {NackedOnce(e) : e \in Hits(g, k) \ hits})

processIncomingInterest(g, id) ==
    [g EXCEPT !.pit = @ \cup {[id |-> id, for |-> "app", prefix |-> 0,
                               left |-> Cardinality(g.filters)]}]

asyncExpressInterest(g, job) ==
    LET h == ensureConnected(g, TRUE)
        entry == [id |-> job.id, for |-> job.for, prefix |-> job.prefix,
                  left |-> 1 + (IF job.for = "app" THEN Cardinality(g.filters) ELSE 0)]
        i == [h EXCEPT !.pit = @ \cup {entry}]
    IN  IF h.running THEN SendPacket(i, job.ok) ELSE h

asyncRemovePendingInterest(g, id) ==
    LET gone == {e \in g.pit : e.id = id}
        h == [g EXCEPT !.pit = @ \ gone, !.dropped = @ \cup AppIds(gone)]
    IN  IF h.pit = {} THEN PostOnEmpty(h) ELSE h

asyncPutData(g, fits) ==
    LET h == satisfyPendingInterests(g, 0, TRUE)
    IN  IF ShouldSendToForwarder(g) THEN SendPacket(ensureConnected(h, TRUE), fits) ELSE h

asyncPutNack(g, fits) ==
    LET h == nackPendingInterests(g, 0, 0)
    IN  IF \E e \in NackedHits(g, 0) : e.id < 0
        THEN SendPacket(ensureConnected(h, TRUE), fits) ELSE h

\* The command takes the number that was set aside for it by the call.
asyncUnregisterPrefix(g, job) ==
    IF job.prefix \notin g.prefixes THEN [g EXCEPT !.dropped = @ \cup {job.id}]
    ELSE PostJob([g EXCEPT !.filters = @ \ {job.prefix}],
                 [job EXCEPT !.op = "express"])

asyncShutdown(g) ==
    LET h == ClearTables(g) IN IF h.isConnected THEN closeTransport(h) ELSE h

(***************************************************************************)
(* Completions of the socket                                               *)
(***************************************************************************)
\* Of a transport that was closed meanwhile only the flag is left to set.
connectHandler(g, job) ==
    LET h == [g EXCEPT !.isConnecting = FALSE, !.isConnected = TRUE, !.ops["timer"] = 0]
    IN  IF ~job.ok THEN Throw(closeTransport(g))
        ELSE IF job.old THEN [g EXCEPT !.isConnected = TRUE]
        ELSE IF h.queue > 0 THEN StartOp(resume(h), "write") ELSE h

handleAsyncWrite(g, job) ==
    LET h == [g EXCEPT !.queue = @ - 1, !.posted = Outdate(@, {"write"}), !.ops["write"] = 0,
                       !.ops["rewrite"] = @ + g.ops["write"]]
    IN  IF ~job.ok THEN Throw(closeTransport(g))
        ELSE IF ~g.isConnected THEN g
        ELSE IF job.old THEN Invalid(g)
        ELSE IF h.queue > 0 THEN StartOp(h, "write") ELSE h

\* After the packets of a read the next read starts, paused or not.
ReadAgain(g, job) ==
    IF ~g.running THEN g
    ELSE IF job.old THEN PostJob(g, [job EXCEPT !.ok = FALSE]) ELSE StartOp(g, "receive")

\* An exception leaves the handler before that, and isReceiving as it is.
LeaveRead(g, job) == [g EXCEPT !.deaf = @ \/ (~job.old /\ g.isReceiving)]

RunJob(g, job) ==
    CASE job.op = "construct" -> ensureConnected(g, FALSE)
      [] job.op = "express" -> asyncExpressInterest(g, job)
      [] job.op = "removePending" -> asyncRemovePendingInterest(g, job.id)
      [] job.op = "removeAll" -> ClearPit(g)
      [] job.op = "putData" -> asyncPutData(g, job.ok)
      [] job.op = "putNack" -> asyncPutNack(g, job.ok)
      [] job.op = "setFilter" -> [g EXCEPT !.filters = @ \cup {-job.id}]
      [] job.op = "unsetFilter" -> [g EXCEPT !.filters = @ \ {-job.id}]
      [] job.op = "unregister" -> asyncUnregisterPrefix(g, job)
      [] job.op = "onEmpty" -> onEmptyPitOrNoRegisteredPrefixes(g)
      [] job.op = "shutdown" -> asyncShutdown(g)
      [] job.op = "connect" -> connectHandler(g, job)
      [] job.op = "timer" -> Throw(closeTransport(g))
      [] job.op = "write" -> handleAsyncWrite(g, job)
      [] job.op = "receive" /\ ~job.ok -> Throw(closeTransport(g))

IsRead(job) == job.op = "receive" /\ job.ok

RunPosted ==
    /\ f.posted # <<>>
    /\ ~IsRead(Head(f.posted))
    /\ f' = RunJob([f EXCEPT !.posted = Tail(@)], Head(f.posted))
    /\ UNCHANGED <<nCalls, nErrors>>

Retries == {0} \cup (IF nCalls = MaxCalls THEN {} ELSE {nCalls + 1})

\* Whether the callbacks of these run code of the application.
AppCallbacks(entries) == AppIds(entries) # {} /\ ~EmptyCallback(entries)

Commands(g) == {e.id : e \in {x \in g.pit : x.for # "app"}}

(***************************************************************************)
(* The packets of a read are handled one after the other before any other  *)
(* handler runs; the read stays first in posted until its last packet.     *)
(***************************************************************************)
CountError(ok) ==
    /\ nErrors' = IF ok THEN nErrors ELSE nErrors + 1
    /\ nErrors' <= MaxErrors

ReadReady(more) ==
    /\ f.posted # <<>>
    /\ IsRead(Head(f.posted))
    /\ more => f.nRead + 1 < MaxPackets

TakePacket(g, more) ==
    IF more THEN [g EXCEPT !.nRead = @ + 1] ELSE [g EXCEPT !.posted = Tail(@), !.nRead = 0]

\* g is the face after the packet, which threw an exception or not.
AfterPacket(g, job, more, threw) ==
    CASE threw -> LeaveRead(g, job)
      [] ~threw /\ more -> g
      [] ~threw /\ ~more -> ReadAgain(g, job)

ReceiveData(more) ==
    /\ ReadReady(more)
    /\ \E k \in {0} \cup Commands(f), ok \in BOOLEAN :
          LET threw == ~ok /\ EmptyCallback(Hits(f, k))
          IN  /\ threw => ~more
              /\ f' = AfterPacket(satisfyPendingInterests(TakePacket(f, more), k, ok),
                                  Head(f.posted), more, threw)
    /\ UNCHANGED <<nCalls, nErrors>>

ReceiveNack(more) ==
    /\ ReadReady(more)
    /\ \E k \in {0} \cup Commands(f) :
          LET threw == EmptyCallback(NackedHits(f, k))
          IN  /\ threw => ~more
              /\ \E n \in IF AppCallbacks(NackedHits(f, k)) THEN Retries ELSE {0} :
                    /\ f' = AfterPacket(nackPendingInterests(TakePacket(f, more), k, n),
                                        Head(f.posted), more, threw)
                    /\ nCalls' = IF n = 0 THEN nCalls ELSE n
    /\ UNCHANGED nErrors

ReceiveInterest(more) ==
    /\ ReadReady(more)
    /\ \E id \in {i \in -MaxRecords .. -1 : \A e \in f.pit : e.id # i} :
          f' = AfterPacket(processIncomingInterest(TakePacket(f, more), id),
                           Head(f.posted), more, FALSE)
    /\ UNCHANGED <<nCalls, nErrors>>

\* Decoding throws tlv::Error.
ReceiveMalformed ==
    /\ ReadReady(FALSE)
    /\ f' = AfterPacket(Throw(TakePacket(f, FALSE)), Head(f.posted), FALSE, TRUE)
    /\ CountError(FALSE)
    /\ UNCHANGED nCalls

Receive ==
    \/ \E more \in BOOLEAN : ReceiveData(more) \/ ReceiveNack(more) \/ ReceiveInterest(more)
    \/ ReceiveMalformed

\* Mutant: an Interest that is not yet sent does not time out.
TimeoutIfConnected(e) ==
    /\ f.isConnected
    /\ f.nRead = 0
    /\ f' = SetPit([f EXCEPT !.told = @ \cup AppIds({e})], f.pit \ {e})
    /\ UNCHANGED <<nCalls, nErrors>>

\* PendingInterest::invokeTimeoutCallback, between two handlers
Timeout(e) ==
    /\ f.nRead = 0
    /\ \E n \in IF AppCallbacks({e}) THEN Retries ELSE {0} :
        /\ \E g \in {Retry([f EXCEPT !.told = @ \cup AppIds({e})], n)} :
              f' = IF EmptyCallback({e}) THEN Throw([g EXCEPT !.pit = @ \ {e}])
                                         ELSE SetPit(g, f.pit \ {e})
        /\ nCalls' = IF n = 0 THEN nCalls ELSE n
    /\ UNCHANGED nErrors

\* The socket reads and writes once it is connected.
FinishOp(op, ok) ==
    /\ f.ops[op] > 0
    /\ ok /\ op \in {"receive", "write", "rewrite"} => f.ops["connect"] = 0
    /\ f' = PostJob([f EXCEPT !.ops[op] = @ - 1],
                    IF op = "rewrite" THEN [Job("write", 0, ok) EXCEPT !.old = TRUE]
                                      ELSE Job(op, 0, ok))
    /\ CountError(ok /\ op # "timer")
    /\ UNCHANGED nCalls

(***************************************************************************)
(* Calls of the application. The number of a call identifies the Interest, *)
(* command or prefix that it makes.                                        *)
(***************************************************************************)
Call(job) ==
    /\ nCalls < MaxCalls
    /\ nCalls' = nCalls + 1
    /\ f' = PostJob([f EXCEPT !.issued = IF job.op \in {"express", "unregister"}
                                           THEN @ \cup {nCalls'} ELSE @], job)

expressInterest(fits) == Call(Job("express", nCalls + 1, fits)) /\ CountError(fits)

\* setInterestFilter with registration, the combined operation
registerPrefix ==
    /\ Call([Job("express", nCalls + 1, TRUE) EXCEPT !.for = "register", !.prefix = nCalls + 1])
    /\ UNCHANGED nErrors

\* unregisterPrefix, or unsetInterestFilter of a registered prefix
Unregister(for, p) ==
    /\ Call([Job("unregister", nCalls + 1, TRUE) EXCEPT !.for = for, !.prefix = p])
    /\ UNCHANGED nErrors

unregisterPrefix(p) == Unregister("unregister", p)

unsetRegisteredFilter(p) == Unregister("unset", p)

removePendingInterest(id) == Call(Job("removePending", id, TRUE)) /\ UNCHANGED nErrors

removeAllPendingInterests == Call(Job("removeAll", 0, TRUE)) /\ UNCHANGED nErrors

put(op, fits) == Call(Job(op, 0, fits)) /\ CountError(fits)

\* Without registration.
setInterestFilter == Call(Job("setFilter", nCalls + 1, TRUE)) /\ UNCHANGED nErrors

unsetInterestFilter(n) == Call(Job("unsetFilter", n, TRUE)) /\ UNCHANGED nErrors

shutdown == Call(Job("shutdown", 0, TRUE)) /\ UNCHANGED nErrors

ClientNext ==
    /\ f.running
    /\ \/ RunPosted
       \/ Receive
       \/ \E e \in f.pit : Timeout(e)
       \/ \E op \in SocketOp, ok \in BOOLEAN : FinishOp(op, ok)
       \/ \E fits \in BOOLEAN : expressInterest(fits)
       \/ registerPrefix
       \/ \E n \in f.issued :
             unregisterPrefix(n) \/ unsetRegisteredFilter(n) \/ removePendingInterest(n)
       \/ removeAllPendingInterests
       \/ \E op \in {"putData", "putNack"}, fits \in BOOLEAN : put(op, fits)
       \/ setInterestFilter
       \/ \E n \in 1 .. nCalls : unsetInterestFilter(n)
       \/ shutdown

\* The io_service runs what is ready, and timers some time after they are due: a timer
\* waits for the handlers before it, however many reads there are.
ClientSpec ==
    /\ ClientInit /\ [][ClientNext]_clientVars
    /\ WF_clientVars(f.running /\ (RunPosted \/ Receive))
    /\ \A n \in 1 .. MaxCalls :
          SF_clientVars(f.running /\ \E e \in f.pit : e.id = n /\ Timeout(e))

-----------------------------------------------------------------------------
AwaitedOp(op) == f.ops[op] > 0 \/ \E i \in DOMAIN f.posted : f.posted[i].op = op

\* An application that waits for packets listens for them: while the transport is
\* connected, a pending Interest or a registered prefix keeps a read under way, through
\* every order of pause, resume and the handlers that were posted before them. What can
\* end the reads is an exception that leaves the handler of one, until the transport is
\* paused or closed.
KeepsListening ==
    f.running /\ f.isConnected /\ ~f.isConnecting /\ (f.pit # {} \/ f.prefixes # {}) =>
        AwaitedOp("receive") \/ f.deaf

Posted(n) ==
    \E i \in DOMAIN f.posted : f.posted[i].op \in {"express", "unregister"} /\ f.posted[i].id = n

Pending(n) == {e \in f.pit : e.id = n}

\* An Interest has one outcome: it waits to be sent, is pending once, its callback was
\* invoked, or it was dropped on request, at shutdown or by an exception; never two of
\* these, and no Interest is lost on the way.
OneOutcome ==
    f.running => \A n \in f.issued :
        /\ Cardinality(Pending(n)) <= 1
        /\ Cardinality({w \in {"posted", "pending", "told", "dropped"} :
                CASE w = "posted" -> Posted(n)
                  [] w = "pending" -> Pending(n) # {}
                  [] w = "told" -> n \in f.told
                  [] w = "dropped" -> n \in f.dropped}) = 1

\* A face whose reads were ended by an exception starts to read again, once the calls that
\* the application makes have had their outcomes.
HearsAgain == f.deaf ~> ~f.deaf \/ AwaitedOp("receive") \/ ~f.running

\* Every Interest gets its outcome in the end, whatever happens to the connection.
OutcomeComes ==
    \A n \in 1 .. MaxCalls : n \in f.issued ~> n \in f.told \cup f.dropped \/ ~f.running

(* "if not connected or there is transmission in progress (m_transmissionQueue.size() > 1),
   next write will be scheduled either in connectHandler or in asyncWriteHandler"
   (stream-transport-impl.hpp:170): a queue that is not empty has a write under way. *)
NextWriteScheduled == f.running /\ f.isConnected /\ f.queue > 0 => AwaitedOp("write")

=============================================================================
