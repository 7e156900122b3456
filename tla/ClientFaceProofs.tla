------------------------- MODULE ClientFaceProofs ---------------------------
(***************************************************************************)
(* Theorems about ClientFace, for any number of calls and errors: every    *)
(* Interest has one outcome, and an application that waits for packets     *)
(* listens for them.                                                       *)
(*                                                                         *)
(* The invariants are predicates of a face, so that they can be said of    *)
(* the record before and after each member function. Functions that work   *)
(* on the tables leave the transport alone, and the other way round: each  *)
(* kind keeps the invariant of the other part (TableStep, TransportStep).  *)
(***************************************************************************)
EXTENDS ClientFace, SequenceTheorems, FiniteSetTheorems, TLAPS

-----------------------------------------------------------------------------
(* Types *)

IssueOp == {"express", "unregister"}

JobOp ==
    {"construct", "removePending", "removeAll", "putData", "putNack", "setFilter",
     "unsetFilter", "onEmpty", "shutdown"} \cup IssueOp \cup (SocketOp \ {"rewrite"})

About == {"app", "register", "unregister", "unset"}

AnyJob == [op : JobOp, id : Int, for : About, prefix : Int, ok : BOOLEAN, old : BOOLEAN]

Entry == [id : Int, for : About, prefix : Int, left : Int]

FilterSet == {S \in SUBSET Int : IsFiniteSet(S)}

AnyFace ==
    [posted : Seq(AnyJob), pit : SUBSET Entry, filters : FilterSet, prefixes : SUBSET Int,
     hasImpl : BOOLEAN, isConnecting : BOOLEAN, queue : Int, isConnected : BOOLEAN,
     isReceiving : BOOLEAN, ops : [SocketOp -> Nat], nRead : Nat, issued : SUBSET Int,
     told : SUBSET Int, dropped : SUBSET Int, deaf : BOOLEAN, running : BOOLEAN]

SameTables(g, h) ==
    /\ h.pit = g.pit /\ h.filters = g.filters /\ h.prefixes = g.prefixes
    /\ h.issued = g.issued /\ h.told = g.told /\ h.dropped = g.dropped

SameTransport(g, h) ==
    /\ h.hasImpl = g.hasImpl /\ h.isConnecting = g.isConnecting /\ h.queue = g.queue
    /\ h.isConnected = g.isConnected /\ h.isReceiving = g.isReceiving /\ h.ops = g.ops
    /\ h.deaf = g.deaf

-----------------------------------------------------------------------------
(* Handlers that are ready *)

LEMMA AppendJob ==
    ASSUME NEW s \in Seq(AnyJob), NEW job \in AnyJob
    PROVE  /\ Append(s, job) \in Seq(AnyJob)
           /\ Len(s) \in Nat
           /\ Len(Append(s, job)) = Len(s) + 1
           /\ \A i \in 1 .. Len(s) : Append(s, job)[i] = s[i]
           /\ Append(s, job)[Len(s) + 1] = job
<1> DEFINE J == AnyJob
<1> HIDE DEF J
<1>1. s \in Seq(J) /\ job \in J BY DEF J
<1>2. /\ Append(s, job) \in Seq(J)
      /\ Len(s) \in Nat
      /\ Len(Append(s, job)) = Len(s) + 1
      /\ \A i \in 1 .. Len(s) : Append(s, job)[i] = s[i]
      /\ Append(s, job)[Len(s) + 1] = job
  BY <1>1
<1> QED BY <1>2 DEF J

LEMMA PopJob ==
    ASSUME NEW s \in Seq(AnyJob), s # <<>>
    PROVE  /\ Head(s) \in AnyJob /\ Head(s) = s[1]
           /\ Tail(s) \in Seq(AnyJob)
           /\ Len(s) \in Nat \ {0}
           /\ Len(Tail(s)) = Len(s) - 1
           /\ \A i \in 1 .. Len(s) - 1 : Tail(s)[i] = s[i + 1]
<1> DEFINE J == AnyJob
<1> HIDE DEF J
<1>1. s \in Seq(J) BY DEF J
<1>2. /\ Head(s) \in J /\ Head(s) = s[1]
      /\ Tail(s) \in Seq(J)
      /\ Len(s) \in Nat \ {0}
      /\ Len(Tail(s)) = Len(s) - 1
      /\ \A i \in 1 .. Len(s) - 1 : Tail(s)[i] = s[i + 1]
  BY <1>1, HeadTailProperties, EmptySeq, LenProperties
<1> QED BY <1>2 DEF J

LEMMA JobTypes ==
    ASSUME NEW op \in JobOp, NEW id \in Int, NEW ok \in BOOLEAN
    PROVE  /\ Job(op, id, ok) \in AnyJob
           /\ Job(op, id, ok).op = op /\ Job(op, id, ok).id = id /\ Job(op, id, ok).ok = ok
           /\ Job(op, id, ok).old = FALSE
BY DEF Job, AnyJob, About

LEMMA OutdateFacts ==
    ASSUME NEW s \in Seq(AnyJob), NEW S
    PROVE  /\ Outdate(s, S) \in Seq(AnyJob)
           /\ Len(Outdate(s, S)) = Len(s)
           /\ \A i \in 1 .. Len(s) :
                 /\ Outdate(s, S)[i].op = s[i].op /\ Outdate(s, S)[i].id = s[i].id
                 /\ Outdate(s, S)[i].old = (s[i].old \/ s[i].op \in S)
<1> DEFINE n == Len(s)
           e(i) == [s[i] EXCEPT !.old = @ \/ s[i].op \in S]
<1>1. n \in Nat /\ DOMAIN s = 1 .. n BY LenProperties
<1>2. ASSUME NEW i \in 1 .. n
      PROVE  /\ e(i) \in AnyJob
             /\ e(i).op = s[i].op /\ e(i).id = s[i].id
             /\ e(i).old = (s[i].old \/ s[i].op \in S)
  <2>1. s[i] \in AnyJob BY ElementOfSeq
  <2> QED BY <2>1 DEF AnyJob
<1>3. Outdate(s, S) = [i \in 1 .. n |-> e(i)] BY <1>1 DEF Outdate
<1> HIDE DEF e, n
<1>4. Outdate(s, S) \in Seq(AnyJob) /\ Len(Outdate(s, S)) = n
  <2> DEFINE J == AnyJob
             q == Outdate(s, S)
  <2>1. q \in [1 .. n -> J] BY <1>2, <1>3
  <2> HIDE DEF J, q
  <2>2. q \in Seq(J) /\ Len(q) = n BY <1>1, <2>1, LenProperties
  <2> QED BY <2>2 DEF J, q
<1>5. ASSUME NEW i \in 1 .. n
      PROVE  /\ Outdate(s, S)[i].op = s[i].op /\ Outdate(s, S)[i].id = s[i].id
             /\ Outdate(s, S)[i].old = (s[i].old \/ s[i].op \in S)
  <2>1. Outdate(s, S)[i] = e(i) BY <1>3
  <2> QED BY <2>1, <1>2
<1> QED BY <1>4, <1>5 DEF n
-----------------------------------------------------------------------------
(* The outcome of an Interest *)

\* The Interests whose handlers have not run yet.
Waiting(s) == {s[i].id : i \in {j \in 1 .. Len(s) : s[j].op \in IssueOp}}

WaitOnce(s) ==
    \A i, j \in 1 .. Len(s) :
        s[i].op \in IssueOp /\ s[j].op \in IssueOp /\ s[i].id = s[j].id => i = j

PendingOnce(entries) == \A d, e \in entries : d.id = e.id => d = e

\* The Interests expressed are those that wait, are pending, have been told of or are
\* dropped, or are in the hand of the handler that runs, without overlap.
Divided(issued, waiting, pending, told, dropped, X) ==
    /\ issued = waiting \cup pending \cup told \cup dropped \cup X
    /\ waiting \cap (pending \cup told \cup dropped \cup X) = {}
    /\ pending \cap (told \cup dropped \cup X) = {}
    /\ told \cap (dropped \cup X) = {}
    /\ dropped \cap X = {}

OutcomeInv(g, X, N) ==
    /\ g.issued \subseteq 1 .. N
    /\ WaitOnce(g.posted)
    /\ PendingOnce(g.pit)
    /\ Divided(g.issued, Waiting(g.posted), AppIds(g.pit), g.told, g.dropped, X)

-----------------------------------------------------------------------------
(* The transport *)

Fresh(s, op) == \E i \in 1 .. Len(s) : s[i].op = op /\ ~s[i].old

\* Without an implementation nothing is under way, and what is ready is of a former one.
ImplInv(g) ==
    /\ g.queue >= 0
    /\ g.hasImpl => g.isConnecting \/ g.isConnected
    /\ ~g.hasImpl =>
          /\ ~g.isConnecting /\ ~g.isReceiving /\ g.queue = 0
          /\ \A op \in SocketOp : g.ops[op] = 0
          /\ \A i \in 1 .. Len(g.posted) : g.posted[i].op \in SocketOp => g.posted[i].old

\* A write is of a packet in the queue.
WriteInv(g) == g.ops["write"] > 0 \/ Fresh(g.posted, "write") => g.queue > 0

\* While the transport is connecting, the end of it comes before that of any write.
ConnectFirst(s, connecting) ==
    \A i \in 1 .. Len(s) : s[i].op = "write" /\ ~s[i].old /\ s[i].ok =>
        connecting = 0 /\ \E c \in 1 .. i - 1 : s[c].op = "connect" /\ ~s[c].old

ConnectInv(g) ==
    g.isConnecting =>
        /\ g.ops["connect"] > 0 \/ Fresh(g.posted, "connect")
        /\ ConnectFirst(g.posted, g.ops["connect"])

TransportInv(g) == ImplInv(g) /\ WriteInv(g) /\ ConnectInv(g)

\* A read is under way or the end of one is ready, of the transport that the face has,
\* or an exception has left the handler of one.
Reads(g) == g.ops["receive"] > 0 \/ Fresh(g.posted, "receive") \/ g.deaf

\* The same, the end of a read of a former transport counted as well.
Awaits(g) ==
    \/ g.ops["receive"] > 0
    \/ \E i \in 1 .. Len(g.posted) : g.posted[i].op = "receive"
    \/ g.deaf

StillReads(g, h) == (Reads(g) => Reads(h)) /\ (Awaits(g) => Awaits(h))

Waits(g) == g.pit # {} \/ g.prefixes # {}

\* An application that waits for packets has a read under way, or one starts together
\* with the first write once the transport is connected. The end of a read of a former
\* transport is not enough for isReceiving: no other read follows if its handler throws.
ListenInv(g) ==
    /\ g.isReceiving => Reads(g)
    /\ Waits(g) => Awaits(g) \/ (g.isConnecting /\ g.queue > 0)

ClientInv ==
    /\ f \in AnyFace /\ nCalls \in Nat
    /\ f.running => OutcomeInv(f, {}, nCalls) /\ TransportInv(f) /\ ListenInv(f)
-----------------------------------------------------------------------------
(* Steps on the tables and steps of the transport *)

\* More handlers are ready, none of them of the socket.
MoreJobs(s, t) ==
    /\ Len(s) <= Len(t)
    /\ \A i \in 1 .. Len(s) : t[i] = s[i]
    /\ \A i \in 1 .. Len(t) : i > Len(s) => t[i].op \notin SocketOp

\* The Interests that wait are the same.
SameWaiting(s, t) ==
    /\ Len(s) <= Len(t)
    /\ \A i \in 1 .. Len(s) : t[i].op = s[i].op /\ t[i].id = s[i].id
    /\ \A i \in 1 .. Len(t) : i > Len(s) => t[i].op \notin IssueOp

TableStep(g, h) ==
    /\ h \in AnyFace
    /\ h.running => g.running
    /\ SameTransport(g, h)
    /\ MoreJobs(g.posted, h.posted)

TransportStep(g, h) ==
    /\ h \in AnyFace
    /\ h.running => g.running
    /\ SameTables(g, h)
    /\ SameWaiting(g.posted, h.posted)

LEMMA SameWaitingFacts ==
    ASSUME NEW s \in Seq(AnyJob), NEW t \in Seq(AnyJob), SameWaiting(s, t)
    PROVE  Waiting(t) = Waiting(s) /\ (WaitOnce(s) => WaitOnce(t))
<1>1. Len(s) \in Nat /\ Len(t) \in Nat BY LenProperties
<1>2. \A i \in 1 .. Len(t) : t[i].op \in IssueOp => i \in 1 .. Len(s)
  BY <1>1 DEF SameWaiting
<1>3. \A i \in 1 .. Len(s) : i \in 1 .. Len(t) BY <1>1 DEF SameWaiting
<1>4. Waiting(t) = Waiting(s)
  <2>1. ASSUME NEW n \in Waiting(t) PROVE n \in Waiting(s)
    BY <2>1, <1>2 DEF Waiting, SameWaiting
  <2>2. ASSUME NEW n \in Waiting(s) PROVE n \in Waiting(t)
    BY <2>2, <1>3 DEF Waiting, SameWaiting
  <2> QED BY <2>1, <2>2
<1>5. ASSUME WaitOnce(s) PROVE WaitOnce(t)
  BY <1>2, <1>5 DEF WaitOnce, SameWaiting
<1> QED BY <1>4, <1>5

LEMMA TransportStepKeeps ==
    ASSUME NEW g \in AnyFace, NEW h, TransportStep(g, h), NEW X, NEW N, OutcomeInv(g, X, N)
    PROVE  OutcomeInv(h, X, N)
<1>1. g.posted \in Seq(AnyJob) /\ h.posted \in Seq(AnyJob) BY DEF TransportStep, AnyFace
<1>2. Waiting(h.posted) = Waiting(g.posted) /\ (WaitOnce(g.posted) => WaitOnce(h.posted))
  BY <1>1, SameWaitingFacts DEF TransportStep
<1> QED BY <1>2 DEF TransportStep, SameTables, OutcomeInv

LEMMA TableStepKeeps ==
    ASSUME NEW g \in AnyFace, NEW h, TableStep(g, h)
    PROVE  /\ TransportInv(g) => TransportInv(h)
           /\ StillReads(g, h)
<1>1. g.posted \in Seq(AnyJob) /\ h.posted \in Seq(AnyJob) BY DEF TableStep, AnyFace
<1> DEFINE s == g.posted
           t == h.posted
<1>2. Len(s) \in Nat /\ Len(t) \in Nat BY <1>1, LenProperties
<1>3. /\ \A i \in 1 .. Len(s) : i \in 1 .. Len(t) /\ t[i] = s[i]
      /\ \A i \in 1 .. Len(t) : t[i].op \in SocketOp => i \in 1 .. Len(s) /\ t[i] = s[i]
  BY <1>2 DEF TableStep, MoreJobs
<1>4. SameTransport(g, h) BY DEF TableStep
<1> HIDE DEF s, t
<1>5. \A op \in SocketOp : Fresh(t, op) <=> Fresh(s, op) BY <1>3 DEF Fresh
<1>6. ImplInv(g) => ImplInv(h) BY <1>3, <1>4 DEF ImplInv, SameTransport, s, t
<1>7. WriteInv(g) => WriteInv(h) BY <1>5, <1>4 DEF WriteInv, SameTransport, SocketOp, s, t
<1>8. ASSUME NEW n, ConnectFirst(s, n) PROVE ConnectFirst(t, n)
  <2> SUFFICES ASSUME NEW i \in 1 .. Len(t), t[i].op = "write", ~t[i].old, t[i].ok
               PROVE  n = 0 /\ \E c \in 1 .. i - 1 : t[c].op = "connect" /\ ~t[c].old
    BY DEF ConnectFirst
  <2>1. i \in 1 .. Len(s) /\ t[i] = s[i] BY <1>3 DEF SocketOp
  <2>2. n = 0 /\ \E c \in 1 .. i - 1 : s[c].op = "connect" /\ ~s[c].old
    BY <2>1, <1>8 DEF ConnectFirst
  <2>3. \A c \in 1 .. i - 1 : c \in 1 .. Len(s) BY <2>1, <1>2
  <2> QED BY <2>2, <2>3, <1>3
<1>9. ConnectInv(g) => ConnectInv(h)
  BY <1>5, <1>4, <1>8 DEF ConnectInv, SameTransport, SocketOp, s, t
<1>10. Awaits(g) => Awaits(h) BY <1>3, <1>4 DEF Awaits, SameTransport, s, t
<1>11. Reads(g) => Reads(h) BY <1>4, <1>5 DEF Reads, SameTransport, SocketOp, s, t
<1> QED BY <1>6, <1>7, <1>9, <1>10, <1>11 DEF TransportInv, StillReads

LEMMA ReadsAwaits ==
    ASSUME NEW g, Reads(g)
    PROVE  Awaits(g)
BY DEF Reads, Awaits, Fresh

LEMMA TableStepTrans ==
    ASSUME NEW g \in AnyFace, NEW h \in AnyFace, NEW k, TableStep(g, h), TableStep(h, k)
    PROVE  TableStep(g, k)
<1>1. Len(g.posted) \in Nat /\ Len(h.posted) \in Nat /\ Len(k.posted) \in Nat
  BY LenProperties DEF AnyFace, TableStep
<1>2. MoreJobs(g.posted, k.posted) BY <1>1 DEF TableStep, MoreJobs
<1> QED BY <1>2 DEF TableStep, SameTransport

LEMMA TransportStepTrans ==
    ASSUME NEW g \in AnyFace, NEW h \in AnyFace, NEW k, TransportStep(g, h), TransportStep(h, k)
    PROVE  TransportStep(g, k)
<1>1. Len(g.posted) \in Nat /\ Len(h.posted) \in Nat /\ Len(k.posted) \in Nat
  BY LenProperties DEF AnyFace, TransportStep
<1>2. SameWaiting(g.posted, k.posted) BY <1>1 DEF TransportStep, SameWaiting
<1> QED BY <1>2 DEF TransportStep, SameTables
-----------------------------------------------------------------------------
(* Operators on the transport *)

LEMMA PostJobStep ==
    ASSUME NEW g \in AnyFace, NEW job \in AnyJob
    PROVE  /\ PostJob(g, job) \in AnyFace
           /\ PostJob(g, job).posted = Append(g.posted, job)
           /\ PostJob(g, job).running = g.running
           /\ SameTables(g, PostJob(g, job)) /\ SameTransport(g, PostJob(g, job))
           /\ job.op \notin SocketOp => TableStep(g, PostJob(g, job))
           /\ job.op \notin IssueOp => TransportStep(g, PostJob(g, job))
<1> DEFINE h == PostJob(g, job)
           s == g.posted
           t == h.posted
<1>1. s \in Seq(AnyJob) BY DEF AnyFace
<1>2. /\ t = Append(s, job) /\ h.running = g.running
      /\ SameTables(g, h) /\ SameTransport(g, h)
  BY DEF PostJob, AnyFace, SameTables, SameTransport
<1>3. Append(s, job) \in Seq(AnyJob) BY <1>1, AppendJob
<1>4. h \in AnyFace BY <1>3 DEF PostJob, AnyFace
<1>5. /\ Len(s) \in Nat /\ Len(t) = Len(s) + 1
      /\ \A i \in 1 .. Len(s) : t[i] = s[i]
      /\ t[Len(s) + 1] = job
  BY <1>1, <1>2, AppendJob
<1> HIDE DEF h, s, t
<1>6. job.op \notin SocketOp => MoreJobs(s, t) BY <1>5 DEF MoreJobs
<1>7. job.op \notin IssueOp => SameWaiting(s, t) BY <1>5 DEF SameWaiting
<1> QED BY <1>2, <1>4, <1>6, <1>7 DEF TableStep, TransportStep, h, s, t

\* A handler that is neither of the socket nor about an Interest.
LEMMA PostOnEmptyStep ==
    ASSUME NEW g \in AnyFace
    PROVE  /\ PostOnEmpty(g) \in AnyFace
           /\ SameTables(g, PostOnEmpty(g)) /\ SameTransport(g, PostOnEmpty(g))
           /\ PostOnEmpty(g).running = g.running
           /\ TableStep(g, PostOnEmpty(g)) /\ TransportStep(g, PostOnEmpty(g))
<1> DEFINE job == Job("onEmpty", 0, TRUE)
<1>1. job \in AnyJob /\ job.op = "onEmpty" BY DEF Job, AnyJob, About, JobOp
<1>2. PostOnEmpty(g) = PostJob(g, job) BY DEF PostOnEmpty
<1> HIDE DEF job
<1> QED BY <1>1, <1>2, PostJobStep DEF SocketOp, IssueOp

LEMMA SameWaitingSelf ==
    ASSUME NEW s \in Seq(AnyJob)
    PROVE  SameWaiting(s, s) /\ MoreJobs(s, s)
<1>1. Len(s) \in Nat BY LenProperties
<1> QED BY <1>1 DEF SameWaiting, MoreJobs

LEMMA StepSelf ==
    ASSUME NEW g \in AnyFace
    PROVE  TableStep(g, g) /\ TransportStep(g, g)
BY SameWaitingSelf DEF AnyFace, TableStep, TransportStep, SameTables, SameTransport

LEMMA InvalidStep ==
    ASSUME NEW g \in AnyFace
    PROVE  /\ TransportStep(g, Invalid(g)) /\ TableStep(g, Invalid(g))
           /\ Invalid(g) \in AnyFace /\ ~Invalid(g).running
<1>1. SameWaiting(g.posted, g.posted) /\ MoreJobs(g.posted, g.posted)
  BY SameWaitingSelf DEF AnyFace
<1> QED BY <1>1 DEF AnyFace, TransportStep, TableStep, SameTables, SameTransport, Invalid

LEMMA StartOpStep ==
    ASSUME NEW g \in AnyFace, NEW op \in SocketOp
    PROVE  /\ StartOp(g, op) \in AnyFace /\ TransportStep(g, StartOp(g, op))
           /\ StartOp(g, op).ops = [g.ops EXCEPT ![op] = @ + 1]
           /\ StartOp(g, op).posted = g.posted
           /\ StartOp(g, op).hasImpl = g.hasImpl
           /\ StartOp(g, op).isConnecting = g.isConnecting
           /\ StartOp(g, op).queue = g.queue
           /\ StartOp(g, op).isConnected = g.isConnected
           /\ StartOp(g, op).isReceiving = g.isReceiving
           /\ StartOp(g, op).deaf = g.deaf
           /\ StartOp(g, op).running = g.running
           /\ StartOp(g, op).ops[op] > 0
           /\ \A o \in SocketOp : StartOp(g, op).ops[o] >= g.ops[o]
           /\ \A o \in SocketOp \ {op} : StartOp(g, op).ops[o] = g.ops[o]
<1>1. SameWaiting(g.posted, g.posted) BY SameWaitingSelf DEF AnyFace
<1>2. StartOp(g, op).ops = [g.ops EXCEPT ![op] = @ + 1] /\ g.ops \in [SocketOp -> Nat]
  BY DEF AnyFace, StartOp
<1>3. [g.ops EXCEPT ![op] = @ + 1] \in [SocketOp -> Nat] BY <1>2
<1>4. StartOp(g, op) \in AnyFace BY <1>3 DEF AnyFace, StartOp
<1>5. /\ SameTables(g, StartOp(g, op))
      /\ StartOp(g, op).posted = g.posted
      /\ StartOp(g, op).hasImpl = g.hasImpl
      /\ StartOp(g, op).isConnecting = g.isConnecting
      /\ StartOp(g, op).queue = g.queue
      /\ StartOp(g, op).isConnected = g.isConnected
      /\ StartOp(g, op).isReceiving = g.isReceiving
      /\ StartOp(g, op).deaf = g.deaf
      /\ StartOp(g, op).running = g.running
  BY DEF AnyFace, StartOp, SameTables
<1>6. TransportStep(g, StartOp(g, op)) BY <1>1, <1>4, <1>5 DEF TransportStep
<1>7. /\ StartOp(g, op).ops[op] > 0
      /\ \A o \in SocketOp : StartOp(g, op).ops[o] >= g.ops[o]
      /\ \A o \in SocketOp \ {op} : StartOp(g, op).ops[o] = g.ops[o]
  BY <1>2
<1> QED BY <1>2, <1>4, <1>5, <1>6, <1>7
\* A transport that was closed has nothing under way.
LEMMA closeTransportStep ==
    ASSUME NEW g \in AnyFace
    PROVE  /\ closeTransport(g) \in AnyFace /\ TransportStep(g, closeTransport(g))
           /\ closeTransport(g).running =>
                 TransportInv(closeTransport(g)) /\ ~closeTransport(g).isReceiving
<1>0. g.posted \in Seq(AnyJob) /\ g.ops \in [SocketOp -> Nat] BY DEF AnyFace
<1> DEFINE s == Outdate(g.posted, SocketOp)
           h == [g EXCEPT !.hasImpl = FALSE, !.isConnecting = FALSE, !.queue = 0,
                          !.ops = NothingUnderWay, !.isConnected = FALSE, !.isReceiving = FALSE,
                          !.deaf = FALSE, !.posted = s]
           job == [Job("connect", 0, FALSE) EXCEPT !.old = TRUE]
<1>1. closeTransport(g) = IF ~g.hasImpl THEN Invalid(g)
                          ELSE IF g.ops["connect"] > 0 THEN PostJob(h, job) ELSE h
  BY DEF closeTransport
<1>2. /\ s \in Seq(AnyJob) /\ Len(s) = Len(g.posted)
      /\ \A i \in 1 .. Len(s) : s[i].op = g.posted[i].op /\ s[i].id = g.posted[i].id
      /\ \A i \in 1 .. Len(s) : s[i].op \in SocketOp => s[i].old
  <2> DEFINE S == SocketOp
             q == g.posted
  <2> HIDE DEF S, q
  <2>1. q \in Seq(AnyJob) BY <1>0 DEF q
  <2>2. /\ Outdate(q, S) \in Seq(AnyJob)
        /\ Len(Outdate(q, S)) = Len(q)
        /\ \A i \in 1 .. Len(q) :
              /\ Outdate(q, S)[i].op = q[i].op /\ Outdate(q, S)[i].id = q[i].id
              /\ Outdate(q, S)[i].old = (q[i].old \/ q[i].op \in S)
    BY <2>1, OutdateFacts
  <2> QED BY <2>2 DEF S, q
<1>3. NothingUnderWay \in [SocketOp -> Nat] BY DEF NothingUnderWay
<1> HIDE DEF s
<1>4. h \in AnyFace
  <2> DEFINE o == NothingUnderWay
  <2>1. o \in [SocketOp -> Nat] BY <1>3
  <2> HIDE DEF o
  <2>2. ASSUME NEW b \in BOOLEAN, NEW n \in Int
        PROVE  [g EXCEPT !.hasImpl = b, !.isConnecting = b, !.queue = n, !.ops = o,
                         !.isConnected = b, !.isReceiving = b, !.deaf = b, !.posted = s] \in AnyFace
    BY <1>2, <2>1 DEF AnyFace
  <2>3. FALSE \in BOOLEAN /\ 0 \in Int OBVIOUS
  <2> QED BY <2>2, <2>3, Zenon DEF o
<1>5. SameWaiting(g.posted, s)
  <2>1. Len(s) \in Nat BY <1>2, LenProperties
  <2> QED BY <1>2, <2>1 DEF SameWaiting
<1>6. TransportStep(g, h) BY <1>4, <1>5 DEF TransportStep, SameTables, AnyFace
<1>7. /\ ~h.hasImpl /\ ~h.isConnecting /\ h.queue = 0 /\ ~h.isReceiving /\ h.posted = s
      /\ h.ops = NothingUnderWay
  BY DEF AnyFace
<1>8. job \in AnyJob /\ job.op = "connect" /\ job.old
  <2>1. "connect" \in JobOp BY DEF JobOp, SocketOp
  <2> DEFINE j == Job("connect", 0, FALSE)
  <2>2. j \in AnyJob /\ j.op = "connect" BY <2>1 DEF Job, AnyJob, About
  <2> HIDE DEF j
  <2>3. [j EXCEPT !.old = TRUE] \in AnyJob /\ [j EXCEPT !.old = TRUE].op = "connect"
    BY <2>2 DEF AnyJob
  <2>4. [j EXCEPT !.old = TRUE].old BY <2>2 DEF AnyJob
  <2> QED BY <2>3, <2>4 DEF j
<1> HIDE DEF h, job
\* Everything that is ready is of the former transport.
<1>9. ASSUME NEW k \in AnyFace, ~k.hasImpl, ~k.isConnecting, k.queue = 0, ~k.isReceiving,
             k.ops = NothingUnderWay,
             \A i \in 1 .. Len(k.posted) : k.posted[i].op \in SocketOp => k.posted[i].old
      PROVE  TransportInv(k)
  <2>1. \A op \in SocketOp : k.ops[op] = 0 BY <1>9 DEF NothingUnderWay
  <2>2. ImplInv(k) BY <2>1, <1>9 DEF ImplInv
  <2>3. WriteInv(k) BY <2>1, <1>9 DEF WriteInv, Fresh, SocketOp
  <2>4. ConnectInv(k) BY <1>9 DEF ConnectInv
  <2> QED BY <2>2, <2>3, <2>4 DEF TransportInv
<1>10. TransportInv(h) BY <1>2, <1>4, <1>7, <1>9
<1>11. /\ PostJob(h, job) \in AnyFace /\ TransportStep(h, PostJob(h, job))
       /\ SameTransport(h, PostJob(h, job))
       /\ PostJob(h, job).posted = Append(s, job)
  BY <1>4, <1>7, <1>8, PostJobStep DEF IssueOp
<1>12. TransportInv(PostJob(h, job))
  <2> DEFINE k == PostJob(h, job)
  <2>1. \A i \in 1 .. Len(k.posted) : k.posted[i].op \in SocketOp => k.posted[i].old
    BY <1>2, <1>8, <1>11, AppendJob
  <2>2. /\ ~k.hasImpl /\ ~k.isConnecting /\ k.queue = 0 /\ ~k.isReceiving
        /\ k.ops = NothingUnderWay
    BY <1>7, <1>11 DEF SameTransport
  <2> HIDE DEF k
  <2>3. k \in AnyFace BY <1>11 DEF k
  <2> QED BY <2>1, <2>2, <2>3, <1>9 DEF k
<1>13. TransportStep(g, PostJob(h, job)) BY <1>4, <1>6, <1>11, TransportStepTrans
<1>14. ~PostJob(h, job).isReceiving BY <1>7, <1>11 DEF SameTransport
<1> QED BY <1>1, <1>4, <1>6, <1>7, <1>10, <1>11, <1>12, <1>13, <1>14, InvalidStep

\* Operations of the socket start only on a transport that has an implementation. What
\* starts does not end a read.
LEMMA Started ==
    ASSUME NEW g \in AnyFace, NEW op \in SocketOp \ {"connect"},
           TransportInv(g), g.hasImpl, op = "write" => g.queue > 0
    PROVE  TransportInv(StartOp(g, op))
<1> DEFINE h == StartOp(g, op)
<1>1. /\ h \in AnyFace /\ h.posted = g.posted /\ h.hasImpl = g.hasImpl
      /\ h.isConnecting = g.isConnecting /\ h.queue = g.queue
      /\ h.isConnected = g.isConnected /\ h.isReceiving = g.isReceiving
      /\ \A o \in SocketOp \ {op} : h.ops[o] = g.ops[o]
  BY StartOpStep
<1> HIDE DEF h
<1>2. ImplInv(h) BY <1>1 DEF ImplInv, TransportInv
<1>3. WriteInv(h) BY <1>1 DEF WriteInv, TransportInv, SocketOp
<1>4. h.ops["connect"] = g.ops["connect"] BY <1>1 DEF SocketOp
<1>5. ConnectInv(h) BY <1>1, <1>4 DEF ConnectInv, TransportInv
<1> QED BY <1>2, <1>3, <1>5 DEF TransportInv, h

LEMMA StartedAwaits ==
    ASSUME NEW g \in AnyFace, NEW op \in SocketOp
    PROVE  /\ StillReads(g, StartOp(g, op))
           /\ op = "receive" => Reads(StartOp(g, op)) /\ Awaits(StartOp(g, op))
<1>1. /\ StartOp(g, op).posted = g.posted /\ StartOp(g, op).deaf = g.deaf
      /\ StartOp(g, op).ops[op] > 0
      /\ StartOp(g, op).ops["receive"] >= g.ops["receive"]
      /\ g.ops \in [SocketOp -> Nat] /\ StartOp(g, op).ops \in [SocketOp -> Nat]
  <2>1. StartOp(g, op).ops["receive"] >= g.ops["receive"]
    BY StartOpStep DEF SocketOp
  <2> QED BY <2>1, StartOpStep DEF AnyFace
<1>2. g.ops["receive"] \in Nat /\ StartOp(g, op).ops["receive"] \in Nat
  BY <1>1 DEF SocketOp
<1> QED BY <1>1, <1>2 DEF Awaits, Reads, StillReads

LEMMA connectStep ==
    ASSUME NEW g \in AnyFace
    PROVE  /\ connect(g) \in AnyFace /\ TransportStep(g, connect(g))
           /\ connect(g).running = g.running /\ connect(g).isConnected = g.isConnected
           /\ connect(g).isReceiving = g.isReceiving /\ connect(g).queue = g.queue
           /\ StillReads(g, connect(g))
           /\ TransportInv(g) /\ ~g.isConnected =>
                 TransportInv(connect(g)) /\ connect(g).hasImpl /\ connect(g).isConnecting
<1> DEFINE h == [g EXCEPT !.hasImpl = TRUE, !.isConnecting = TRUE]
           i == StartOp(h, "connect")
           k == StartOp(i, "timer")
<1>1. CASE g.hasImpl /\ g.isConnecting
  <2>1. connect(g) = g BY <1>1 DEF connect
  <2> QED BY <2>1, <1>1, StepSelf DEF StillReads
<1>2. CASE ~(g.hasImpl /\ g.isConnecting)
  <2>1. connect(g) = k BY <1>2 DEF connect
  <2>2. h \in AnyFace
    <3>1. ASSUME NEW b \in BOOLEAN
          PROVE  [g EXCEPT !.hasImpl = b, !.isConnecting = b] \in AnyFace
      BY DEF AnyFace
    <3>2. TRUE \in BOOLEAN OBVIOUS
    <3> QED BY <3>1, <3>2, Zenon
  <2>3. /\ h.hasImpl /\ h.isConnecting /\ h.running = g.running /\ h.posted = g.posted
        /\ h.queue = g.queue /\ h.isConnected = g.isConnected
        /\ h.isReceiving = g.isReceiving /\ h.ops = g.ops /\ h.deaf = g.deaf
        /\ SameTables(g, h)
    BY DEF AnyFace, SameTables
  <2>4. SameWaiting(g.posted, g.posted) BY SameWaitingSelf DEF AnyFace
  <2>5. TransportStep(g, h) BY <2>2, <2>3, <2>4 DEF TransportStep
  <2>6. StillReads(g, h) BY <2>3 DEF Awaits, Reads, StillReads
  <2> HIDE DEF h
  <2>7. "connect" \in SocketOp /\ "timer" \in SocketOp /\ "write" \in SocketOp
    BY DEF SocketOp
  <2>8. /\ i \in AnyFace /\ TransportStep(h, i) /\ i.hasImpl /\ i.isConnecting
        /\ i.running = g.running /\ i.isConnected = g.isConnected
        /\ i.isReceiving = g.isReceiving /\ i.queue = g.queue /\ i.posted = g.posted
        /\ i.ops["connect"] > 0 /\ i.ops["write"] = g.ops["write"]
    <3> DEFINE c == "connect"
               w == "write"
    <3>1. c \in SocketOp /\ w \in SocketOp \ {c} BY <2>7
    <3> HIDE DEF c, w
    <3>2. /\ StartOp(h, c) \in AnyFace /\ TransportStep(h, StartOp(h, c))
          /\ StartOp(h, c).hasImpl = h.hasImpl /\ StartOp(h, c).isConnecting = h.isConnecting
          /\ StartOp(h, c).running = h.running /\ StartOp(h, c).isConnected = h.isConnected
          /\ StartOp(h, c).isReceiving = h.isReceiving /\ StartOp(h, c).queue = h.queue
          /\ StartOp(h, c).posted = h.posted /\ StartOp(h, c).ops[c] > 0
          /\ \A o \in SocketOp \ {c} : StartOp(h, c).ops[o] = h.ops[o]
      BY <3>1, <2>2, StartOpStep
    <3>3. StartOp(h, c).ops[w] = h.ops[w] BY <3>1, <3>2
    <3> QED BY <3>2, <3>3, <2>3 DEF c, w
  <2>9. StillReads(h, i) BY <2>2, <2>7, StartedAwaits
  <2> HIDE DEF i
  <2>10. /\ k \in AnyFace /\ TransportStep(i, k) /\ k.hasImpl /\ k.isConnecting
         /\ k.running = g.running /\ k.isConnected = g.isConnected
         /\ k.isReceiving = g.isReceiving /\ k.queue = g.queue
         /\ StillReads(i, k)
    BY <2>7, <2>8, StartOpStep, StartedAwaits
  <2>11. TransportStep(g, k)
    <3>1. TransportStep(g, i) BY <2>2, <2>5, <2>8, TransportStepTrans
    <3> QED BY <3>1, <2>8, <2>10, TransportStepTrans
  <2>12. ASSUME TransportInv(g), ~g.isConnected PROVE TransportInv(k)
    <3>1. ~g.hasImpl BY <1>2, <2>12 DEF TransportInv, ImplInv
    <3>2. /\ \A o \in SocketOp : g.ops[o] = 0
          /\ \A j \in 1 .. Len(g.posted) : g.posted[j].op \in SocketOp => g.posted[j].old
          /\ g.queue = 0
      BY <3>1, <2>12 DEF TransportInv, ImplInv
    <3>3. ImplInv(i) BY <2>8, <3>2 DEF ImplInv
    <3>4. WriteInv(i) BY <2>7, <2>8, <3>2 DEF WriteInv, Fresh
    <3>5. ConnectInv(i) BY <2>7, <2>8, <3>2 DEF ConnectInv, ConnectFirst
    <3>6. TransportInv(i) BY <3>3, <3>4, <3>5 DEF TransportInv
    <3> DEFINE o == "timer"
    <3>7. o \in SocketOp \ {"connect"} /\ o # "write" BY <2>7
    <3> HIDE DEF o
    <3>8. TransportInv(StartOp(i, o)) BY <3>6, <3>7, <2>8, Started
    <3> QED BY <3>8 DEF o
  <2> HIDE DEF k
  <2>13. StillReads(g, k) BY <2>6, <2>9, <2>10 DEF StillReads
  <2> QED BY <2>1, <2>10, <2>11, <2>12, <2>13
<1> QED BY <1>1, <1>2

LEMMA resumeStep ==
    ASSUME NEW g \in AnyFace
    PROVE  /\ resume(g) \in AnyFace /\ TransportStep(g, resume(g))
           /\ StillReads(g, resume(g))
           /\ resume(g).running =>
                 /\ resume(g).hasImpl /\ g.hasImpl
                 /\ resume(g).queue = g.queue
                 /\ resume(g).isConnecting = g.isConnecting
                 /\ resume(g).isConnected = g.isConnected
                 /\ g.isReceiving \/ g.isConnecting \/ Reads(resume(g))
                 /\ resume(g).isReceiving => g.isReceiving \/ Reads(resume(g))
                 /\ TransportInv(g) => TransportInv(resume(g))
<1> DEFINE h == [g EXCEPT !.isReceiving = TRUE]
           op == "receive"
<1>1. CASE ~g.hasImpl
  <2>1. resume(g) = Invalid(g) BY <1>1 DEF resume
  <2>2. StillReads(g, Invalid(g)) BY InvalidStep, TableStepKeeps
  <2> QED BY <2>1, <2>2, InvalidStep
<1>2. CASE g.hasImpl /\ (g.isConnecting \/ g.isReceiving)
  <2>1. resume(g) = g BY <1>2 DEF resume
  <2> QED BY <2>1, <1>2, StepSelf DEF StillReads
<1>3. CASE g.hasImpl /\ ~g.isConnecting /\ ~g.isReceiving
  <2>1. resume(g) = StartOp(h, op) BY <1>3 DEF resume
  <2>2. /\ h.hasImpl = g.hasImpl /\ h.queue = g.queue /\ h.isConnecting = g.isConnecting
        /\ h.isConnected = g.isConnected /\ h.posted = g.posted /\ h.ops = g.ops
        /\ h.running = g.running /\ SameTables(g, h)
    BY DEF AnyFace, SameTables
  <2>3. h \in AnyFace
    <3>1. ASSUME NEW b \in BOOLEAN PROVE [g EXCEPT !.isReceiving = b] \in AnyFace
      BY DEF AnyFace
    <3>2. TRUE \in BOOLEAN OBVIOUS
    <3> QED BY <3>1, <3>2, Zenon
  <2>4. SameWaiting(g.posted, g.posted) BY SameWaitingSelf DEF AnyFace
  <2>5. TransportStep(g, h) BY <2>2, <2>3, <2>4 DEF TransportStep
  <2>6. TransportInv(g) => TransportInv(h)
    BY <2>2, <1>3 DEF TransportInv, ImplInv, WriteInv, ConnectInv
  <2>7. op \in SocketOp \ {"connect"} /\ op # "write" BY DEF SocketOp
  <2>8. op = "receive" OBVIOUS
  <2> HIDE DEF h, op
  <2>9. /\ StartOp(h, op) \in AnyFace /\ TransportStep(h, StartOp(h, op))
        /\ StartOp(h, op).hasImpl = h.hasImpl /\ StartOp(h, op).queue = h.queue
        /\ StartOp(h, op).isConnecting = h.isConnecting
        /\ StartOp(h, op).isConnected = h.isConnected
        /\ Reads(StartOp(h, op)) /\ Awaits(StartOp(h, op))
    BY <2>3, <2>7, <2>8, StartOpStep, StartedAwaits
  <2>10. TransportStep(g, StartOp(h, op)) BY <2>3, <2>5, <2>9, TransportStepTrans
  <2>11. TransportInv(g) => TransportInv(StartOp(h, op))
    BY <1>3, <2>2, <2>3, <2>6, <2>7, Started
  <2>12. StillReads(g, StartOp(h, op)) BY <2>9 DEF StillReads
  <2> QED BY <1>3, <2>1, <2>2, <2>9, <2>10, <2>11, <2>12
<1> QED BY <1>1, <1>2, <1>3
\* What is written and read stops, of a transport that nobody waits for.
LEMMA pauseStep ==
    ASSUME NEW g \in AnyFace
    PROVE  /\ pause(g) \in AnyFace /\ TransportStep(g, pause(g))
           /\ pause(g).running = g.running
           /\ TransportInv(g) => TransportInv(pause(g))
           /\ (g.isReceiving => Reads(g)) => (pause(g).isReceiving => Reads(pause(g)))
<1>1. CASE ~g.hasImpl \/ g.isConnecting \/ ~g.isReceiving
  <2>1. pause(g) = g BY <1>1 DEF pause
  <2> QED BY <2>1, StepSelf
<1>2. CASE ~(~g.hasImpl \/ g.isConnecting \/ ~g.isReceiving)
  <2> DEFINE h == pause(g)
             o == [g.ops EXCEPT !["receive"] = 0, !["write"] = 0, !["rewrite"] = 0]
  <2>1. h = [g EXCEPT !.isReceiving = FALSE, !.ops["receive"] = 0, !.ops["write"] = 0,
                      !.ops["rewrite"] = 0, !.deaf = FALSE]
    BY <1>2 DEF pause
  <2>2. g.ops \in [SocketOp -> Nat] BY DEF AnyFace
  <2>3. o \in [SocketOp -> Nat] /\ o["write"] = 0 /\ o["connect"] = g.ops["connect"]
    BY <2>2 DEF SocketOp
  <2>4. h.ops = o BY <2>1 DEF AnyFace
  <2>5. /\ h.hasImpl = g.hasImpl /\ h.queue = g.queue /\ h.isConnecting = g.isConnecting
        /\ h.isConnected = g.isConnected /\ h.posted = g.posted /\ ~h.isReceiving
        /\ h.running = g.running /\ SameTables(g, h)
    BY <2>1 DEF AnyFace, SameTables
  <2>6. h \in AnyFace
    <3>1. ASSUME NEW b \in BOOLEAN, NEW q \in [SocketOp -> Nat]
          PROVE  [g EXCEPT !.isReceiving = b, !.ops = q, !.deaf = b] \in AnyFace
      BY DEF AnyFace
    <3>2. h = [g EXCEPT !.isReceiving = FALSE, !.ops = o, !.deaf = FALSE]
      BY <2>1 DEF AnyFace
    <3>3. FALSE \in BOOLEAN OBVIOUS
    <3> HIDE DEF o
    <3>4. [g EXCEPT !.isReceiving = FALSE, !.ops = o, !.deaf = FALSE] \in AnyFace
      BY <3>1, <3>3, <2>3, Zenon
    <3> QED BY <3>2, <3>4
  <2> HIDE DEF h, o
  <2>7. SameWaiting(g.posted, g.posted) BY SameWaitingSelf DEF AnyFace
  <2>8. TransportStep(g, h) BY <2>5, <2>6, <2>7 DEF TransportStep
  <2>9. TransportInv(g) => TransportInv(h)
    BY <1>2, <2>3, <2>4, <2>5 DEF TransportInv, ImplInv, WriteInv, ConnectInv
  <2> QED BY <2>5, <2>6, <2>8, <2>9 DEF h
<1> QED BY <1>1, <1>2

LEMMA sendWireStep ==
    ASSUME NEW g \in AnyFace
    PROVE  /\ sendWire(g) \in AnyFace /\ TransportStep(g, sendWire(g))
           /\ sendWire(g).running = g.running
           /\ StillReads(g, sendWire(g))
           /\ sendWire(g).isReceiving = g.isReceiving
           /\ sendWire(g).isConnecting = g.isConnecting
           /\ g.running => sendWire(g).queue = g.queue + 1
           /\ TransportInv(g) /\ g.hasImpl => TransportInv(sendWire(g))
<1> DEFINE h == [g EXCEPT !.queue = @ + 1]
           op == "write"
<1>1. CASE ~g.running
  <2>1. sendWire(g) = g BY <1>1 DEF sendWire
  <2> QED BY <1>1, <2>1, StepSelf DEF StillReads
<1>2. CASE g.running
  <2>1. sendWire(g) = IF h.isConnected /\ h.queue = 1 THEN StartOp(h, op) ELSE h
    BY <1>2 DEF sendWire
  <2>2. h \in AnyFace /\ g.queue \in Int
    <3> DEFINE v == g.queue + 1
    <3>1. g.queue \in Int BY DEF AnyFace
    <3>2. v \in Int BY <3>1
    <3>3. h = [g EXCEPT !.queue = v] OBVIOUS
    <3> HIDE DEF v
    <3>4. [g EXCEPT !.queue = v] \in AnyFace BY <3>2 DEF AnyFace
    <3> QED BY <3>1, <3>3, <3>4
  <2>3. /\ h.hasImpl = g.hasImpl /\ h.queue = g.queue + 1 /\ h.isConnecting = g.isConnecting
        /\ h.isConnected = g.isConnected /\ h.posted = g.posted /\ h.ops = g.ops
        /\ h.running = g.running /\ h.isReceiving = g.isReceiving /\ h.deaf = g.deaf
        /\ SameTables(g, h)
    BY DEF AnyFace, SameTables
  <2> HIDE DEF h
  <2>4. SameWaiting(g.posted, g.posted) BY SameWaitingSelf DEF AnyFace
  <2>5. TransportStep(g, h) BY <2>2, <2>3, <2>4 DEF TransportStep
  <2>6. StillReads(g, h) BY <2>3 DEF Awaits, Reads, StillReads
  <2>7. TransportInv(g) /\ g.hasImpl => TransportInv(h)
    BY <2>2, <2>3 DEF TransportInv, ImplInv, WriteInv, ConnectInv
  <2>8. op \in SocketOp \ {"connect"} BY DEF SocketOp
  <2> HIDE DEF op
  <2>9. /\ StartOp(h, op) \in AnyFace /\ TransportStep(h, StartOp(h, op))
        /\ StartOp(h, op).running = h.running
        /\ StartOp(h, op).isReceiving = h.isReceiving
        /\ StartOp(h, op).isConnecting = h.isConnecting /\ StartOp(h, op).queue = h.queue
        /\ StillReads(h, StartOp(h, op))
    BY <2>2, <2>8, StartOpStep, StartedAwaits
  <2>10. TransportStep(g, StartOp(h, op)) BY <2>2, <2>5, <2>9, TransportStepTrans
  <2>11. ASSUME h.queue = 1, TransportInv(g), g.hasImpl PROVE TransportInv(StartOp(h, op))
    <3>1. TransportInv(h) /\ h.hasImpl /\ h.queue > 0 BY <2>3, <2>7, <2>11
    <3> QED BY <3>1, <2>2, <2>8, Started
  <2>12. StillReads(g, StartOp(h, op)) BY <2>6, <2>9 DEF StillReads
  <2> QED BY <1>2, <2>1, <2>2, <2>3, <2>5, <2>6, <2>7, <2>9, <2>10, <2>11, <2>12
<1> QED BY <1>1, <1>2

\* Once a packet can be sent, a read is under way or starts with the first write.
LEMMA ensureConnectedStep ==
    ASSUME NEW g \in AnyFace
    PROVE  LET h == ensureConnected(g, TRUE)
           IN  /\ h \in AnyFace /\ TransportStep(g, h)
               /\ StillReads(g, h)
               /\ h.running /\ TransportInv(g) /\ (g.isReceiving => Reads(g)) =>
                     /\ TransportInv(h) /\ h.hasImpl
                     /\ h.isConnecting \/ Reads(h)
                     /\ h.isReceiving => Reads(h)
<1> DEFINE c == IF g.isConnected THEN g ELSE connect(g)
           h == ensureConnected(g, TRUE)
<1>1. h = IF ~c.isReceiving THEN resume(c) ELSE c BY DEF ensureConnected
<1>2. /\ c \in AnyFace /\ TransportStep(g, c) /\ c.running = g.running
      /\ c.isReceiving = g.isReceiving
      /\ StillReads(g, c)
      /\ TransportInv(g) => TransportInv(c)
      /\ TransportInv(g) /\ ~g.isConnected => c.isConnecting /\ c.hasImpl
  BY connectStep, StepSelf DEF StillReads
<1>3. SUFFICES /\ h \in AnyFace /\ TransportStep(g, h)
               /\ StillReads(g, h)
               /\ h.running /\ TransportInv(g) /\ (g.isReceiving => Reads(g)) =>
                     /\ TransportInv(h) /\ h.hasImpl
                     /\ h.isConnecting \/ Reads(h)
                     /\ h.isReceiving => Reads(h)
  OBVIOUS
<1> HIDE DEF c, h
<1>4. CASE ~c.isReceiving
  <2>1. h = resume(c) BY <1>1, <1>4
  <2>2. TransportStep(g, h) BY <1>2, <2>1, resumeStep, TransportStepTrans
  <2>3. /\ h \in AnyFace
        /\ StillReads(c, h)
        /\ h.running => /\ h.hasImpl
                        /\ h.isConnecting = c.isConnecting
                        /\ c.isReceiving \/ c.isConnecting \/ Reads(h)
                        /\ h.isReceiving => c.isReceiving \/ Reads(h)
                        /\ TransportInv(c) => TransportInv(h)
    BY <1>2, <2>1, resumeStep
  <2>4. StillReads(g, h) BY <1>2, <2>3 DEF StillReads
  <2> QED BY <1>2, <1>4, <2>2, <2>3, <2>4
<1>5. CASE c.isReceiving
  <2>1. h = c BY <1>1, <1>5
  <2>2. TransportInv(c) => c.hasImpl BY <1>5 DEF TransportInv, ImplInv
  <2> QED BY <1>2, <1>5, <2>1, <2>2 DEF StillReads
<1> QED BY <1>4, <1>5
-----------------------------------------------------------------------------
(* Operators on the tables *)

LEMMA AppIdsFacts ==
    ASSUME NEW P \in SUBSET Entry, NEW S \in SUBSET P, PendingOnce(P)
    PROVE  /\ AppIds(P \ S) = AppIds(P) \ AppIds(S)
           /\ AppIds(S) \subseteq AppIds(P)
           /\ PendingOnce(P \ S)
<1>1. AppIds(S) \subseteq AppIds(P) /\ AppIds(P \ S) \subseteq AppIds(P) BY DEF AppIds
<1>2. ASSUME NEW n \in AppIds(P), n \notin AppIds(S) PROVE n \in AppIds(P \ S)
  BY <1>2 DEF AppIds
<1>3. ASSUME NEW n \in AppIds(P \ S) PROVE n \notin AppIds(S)
  BY <1>3 DEF AppIds, PendingOnce
<1>4. PendingOnce(P \ S) BY DEF PendingOnce
<1> QED BY <1>1, <1>2, <1>3, <1>4

LEMMA AppIdsNone ==
    AppIds({}) = {} /\ PendingOnce({})
BY DEF AppIds, PendingOnce

\* The outcomes of a face whose handlers are about the same Interests.
LEMMA Moved ==
    ASSUME NEW g \in AnyFace, NEW h \in AnyFace, NEW X, NEW Y, NEW N,
           OutcomeInv(g, X, N),
           SameWaiting(g.posted, h.posted), h.issued = g.issued, PendingOnce(h.pit),
           Divided(g.issued, Waiting(g.posted), AppIds(h.pit), h.told, h.dropped, Y)
    PROVE  OutcomeInv(h, Y, N)
<1>1. g.posted \in Seq(AnyJob) /\ h.posted \in Seq(AnyJob) BY DEF AnyFace
<1>2. Waiting(h.posted) = Waiting(g.posted) /\ (WaitOnce(g.posted) => WaitOnce(h.posted))
  BY <1>1, SameWaitingFacts
<1> QED BY <1>2 DEF OutcomeInv

\* The table is set, and a handler for an empty table may be posted.
PitSet(g, h, entries) ==
    /\ h \in AnyFace /\ TableStep(g, h) /\ SameWaiting(g.posted, h.posted)
    /\ h.pit = entries /\ h.filters = g.filters /\ h.prefixes = g.prefixes
    /\ h.issued = g.issued /\ h.told = g.told /\ h.dropped = g.dropped
    /\ h.running = g.running

LEMMA SetPitStep ==
    ASSUME NEW g \in AnyFace, NEW entries \in SUBSET Entry
    PROVE  /\ PitSet(g, SetPit(g, entries), entries)
           /\ PitSet(g, [g EXCEPT !.pit = entries], entries)
<1> DEFINE h == [g EXCEPT !.pit = entries]
<1>1. h \in AnyFace BY DEF AnyFace
<1>2. /\ h.pit = entries /\ h.filters = g.filters /\ h.prefixes = g.prefixes
      /\ h.issued = g.issued /\ h.told = g.told /\ h.dropped = g.dropped
      /\ h.running = g.running /\ h.posted = g.posted /\ SameTransport(g, h)
  BY DEF AnyFace, SameTransport
<1>3. SetPit(g, entries) = IF entries = {} /\ g.pit # {} THEN PostOnEmpty(h) ELSE h
  BY DEF SetPit
<1> HIDE DEF h
<1>4. SameWaiting(g.posted, g.posted) /\ MoreJobs(g.posted, g.posted)
  BY SameWaitingSelf DEF AnyFace
<1>5. TableStep(g, h) BY <1>1, <1>2, <1>4 DEF TableStep
<1>6. /\ PostOnEmpty(h) \in AnyFace /\ SameTables(h, PostOnEmpty(h))
      /\ TableStep(h, PostOnEmpty(h)) /\ SameWaiting(h.posted, PostOnEmpty(h).posted)
      /\ PostOnEmpty(h).running = h.running
  BY <1>1, PostOnEmptyStep DEF TransportStep
<1>7. TableStep(g, PostOnEmpty(h)) BY <1>1, <1>5, <1>6, TableStepTrans
<1>8. PitSet(g, h, entries) BY <1>1, <1>2, <1>4, <1>5 DEF PitSet
<1>9. PitSet(g, PostOnEmpty(h), entries) BY <1>2, <1>6, <1>7 DEF PitSet, SameTables
<1>10. PitSet(g, SetPit(g, entries), entries) BY <1>3, <1>8, <1>9
<1> QED BY <1>8, <1>10 DEF h

\* What is pending is dropped.
LEMMA ClearPitStep ==
    ASSUME NEW g \in AnyFace
    PROVE  /\ ClearPit(g) \in AnyFace /\ TableStep(g, ClearPit(g))
           /\ ClearPit(g).running = g.running
           /\ ClearPit(g).pit = {} /\ ClearPit(g).prefixes = g.prefixes
           /\ \A X, N : OutcomeInv(g, X, N) => OutcomeInv(ClearPit(g), X, N)
<1> DEFINE h == [g EXCEPT !.pit = {}, !.dropped = @ \cup AppIds(g.pit)]
           k == PostOnEmpty(h)
<1>1. AppIds(g.pit) \subseteq Int BY DEF AppIds, AnyFace, Entry
<1>2. h \in AnyFace BY <1>1 DEF AnyFace
<1>3. /\ h.pit = {} /\ h.prefixes = g.prefixes
      /\ h.issued = g.issued /\ h.told = g.told /\ h.dropped = g.dropped \cup AppIds(g.pit)
      /\ h.running = g.running /\ h.posted = g.posted /\ SameTransport(g, h)
  BY DEF AnyFace, SameTransport
<1>4. ClearPit(g) = k BY DEF ClearPit
<1> HIDE DEF h
<1>5. SameWaiting(g.posted, g.posted) /\ MoreJobs(g.posted, g.posted)
  BY SameWaitingSelf DEF AnyFace
<1>6. TableStep(g, h) BY <1>2, <1>3, <1>5 DEF TableStep
<1>7. /\ k \in AnyFace /\ SameTables(h, k) /\ TableStep(h, k) /\ k.running = h.running
      /\ TransportStep(h, k)
  BY <1>2, PostOnEmptyStep
<1> HIDE DEF k
<1>8. TableStep(g, k) BY <1>2, <1>6, <1>7, TableStepTrans
<1>9. ASSUME NEW X, NEW N, OutcomeInv(g, X, N) PROVE OutcomeInv(k, X, N)
  <2>1. AppIds(h.pit) = {} /\ PendingOnce(h.pit) BY <1>3, AppIdsNone
  <2>2. Divided(g.issued, Waiting(g.posted), AppIds(g.pit), g.told, g.dropped, X)
    BY <1>9 DEF OutcomeInv
  <2>3. Divided(g.issued, Waiting(g.posted), AppIds(h.pit), h.told, h.dropped, X)
    BY <1>3, <2>1, <2>2 DEF Divided
  <2>4. OutcomeInv(h, X, N) BY <1>2, <1>3, <1>5, <1>9, <2>1, <2>3, Moved
  <2> QED BY <2>4, <1>2, <1>7, TransportStepKeeps
<1> QED BY <1>3, <1>4, <1>7, <1>8, <1>9 DEF SameTables

LEMMA ClearTablesStep ==
    ASSUME NEW g \in AnyFace
    PROVE  /\ ClearTables(g) \in AnyFace /\ TableStep(g, ClearTables(g))
           /\ ClearTables(g).running = g.running
           /\ ~Waits(ClearTables(g))
           /\ \A X, N : OutcomeInv(g, X, N) => OutcomeInv(ClearTables(g), X, N)
<1> DEFINE c == ClearPit(g)
           h == [c EXCEPT !.prefixes = {}]
           k == PostOnEmpty(h)
<1>1. /\ c \in AnyFace /\ TableStep(g, c) /\ c.running = g.running /\ c.pit = {}
      /\ \A X, N : OutcomeInv(g, X, N) => OutcomeInv(c, X, N)
  BY ClearPitStep
<1>2. ClearTables(g) = k BY DEF ClearTables
<1> HIDE DEF c
<1>3. h \in AnyFace BY <1>1 DEF AnyFace
<1>4. /\ h.pit = {} /\ h.prefixes = {}
      /\ h.issued = c.issued /\ h.told = c.told /\ h.dropped = c.dropped
      /\ h.running = g.running /\ h.posted = c.posted /\ SameTransport(c, h)
  BY <1>1 DEF AnyFace, SameTransport
<1> HIDE DEF h
<1>5. MoreJobs(c.posted, c.posted) BY <1>1, SameWaitingSelf DEF AnyFace
<1>6. TableStep(c, h) BY <1>1, <1>3, <1>4, <1>5 DEF TableStep
<1>7. /\ k \in AnyFace /\ SameTables(h, k) /\ TableStep(h, k) /\ k.running = h.running
      /\ TransportStep(h, k)
  BY <1>3, PostOnEmptyStep
<1> HIDE DEF k
<1>8. TableStep(g, k)
  <2>1. TableStep(g, h) BY <1>1, <1>6, TableStepTrans
  <2> QED BY <2>1, <1>3, <1>7, TableStepTrans
<1>9. ASSUME NEW X, NEW N, OutcomeInv(g, X, N) PROVE OutcomeInv(k, X, N)
  <2>1. OutcomeInv(c, X, N) BY <1>1, <1>9
  <2>2. OutcomeInv(h, X, N) BY <2>1, <1>1, <1>4 DEF OutcomeInv
  <2> QED BY <2>2, <1>3, <1>7, TransportStepKeeps
<1>10. ~Waits(k) BY <1>4, <1>7 DEF Waits, SameTables
<1> QED BY <1>2, <1>4, <1>7, <1>8, <1>9, <1>10

\* An exception leaves nothing that the application waits for.
LEMMA ThrowStep ==
    ASSUME NEW g \in AnyFace
    PROVE  /\ Throw(g) \in AnyFace /\ TableStep(g, Throw(g))
           /\ Throw(g).running = g.running
           /\ g.running => ~Waits(Throw(g))
           /\ Waits(Throw(g)) => Waits(g)
           /\ \A X, N : OutcomeInv(g, X, N) => OutcomeInv(Throw(g), X, N)
<1>1. CASE g.running
  <2>1. Throw(g) = ClearTables(g) BY <1>1 DEF Throw
  <2> QED BY <1>1, <2>1, ClearTablesStep
<1>2. CASE ~g.running
  <2>1. Throw(g) = g BY <1>2 DEF Throw
  <2> QED BY <1>2, <2>1, StepSelf
<1> QED BY <1>1, <1>2

\* A handler is posted for one more Interest.
LEMMA AppendWaiting ==
    ASSUME NEW s \in Seq(AnyJob), NEW job \in AnyJob, job.op \in IssueOp
    PROVE  /\ Waiting(Append(s, job)) = Waiting(s) \cup {job.id}
           /\ WaitOnce(s) /\ job.id \notin Waiting(s) => WaitOnce(Append(s, job))
<1> DEFINE t == Append(s, job)
<1>1. /\ Len(s) \in Nat /\ Len(t) = Len(s) + 1
      /\ \A i \in 1 .. Len(s) : t[i] = s[i]
      /\ t[Len(s) + 1] = job
  BY AppendJob
<1> HIDE DEF t
<1>2. /\ \A i \in 1 .. Len(t) : i \in 1 .. Len(s) \/ i = Len(s) + 1
      /\ \A i \in 1 .. Len(s) : i \in 1 .. Len(t)
      /\ Len(s) + 1 \in 1 .. Len(t)
  BY <1>1
<1>3. Waiting(t) = Waiting(s) \cup {job.id}
  <2>1. ASSUME NEW n \in Waiting(t) PROVE n \in Waiting(s) \cup {job.id}
    BY <1>1, <1>2, <2>1 DEF Waiting
  <2>2. ASSUME NEW n \in Waiting(s) PROVE n \in Waiting(t)
    BY <1>1, <1>2, <2>2 DEF Waiting
  <2>3. job.id \in Waiting(t) BY <1>1, <1>2 DEF Waiting
  <2> QED BY <2>1, <2>2, <2>3
<1>4. ASSUME WaitOnce(s), job.id \notin Waiting(s) PROVE WaitOnce(t)
  <2>1. \A i \in 1 .. Len(s) : s[i].op \in IssueOp => s[i].id # job.id
    BY <1>4 DEF Waiting
  <2> SUFFICES ASSUME NEW i \in 1 .. Len(t), NEW j \in 1 .. Len(t),
                      t[i].op \in IssueOp, t[j].op \in IssueOp, t[i].id = t[j].id
               PROVE  i = j
    BY DEF WaitOnce
  <2>2. CASE i \in 1 .. Len(s) /\ j \in 1 .. Len(s)
    BY <2>2, <1>1, <1>4 DEF WaitOnce
  <2>3. CASE i = Len(s) + 1 /\ j \in 1 .. Len(s) BY <2>3, <2>1, <1>1
  <2>4. CASE j = Len(s) + 1 /\ i \in 1 .. Len(s) BY <2>4, <2>1, <1>1
  <2>5. CASE i = Len(s) + 1 /\ j = Len(s) + 1 BY <2>5
  <2> QED BY <1>2, <2>2, <2>3, <2>4, <2>5
<1> QED BY <1>3, <1>4 DEF t

LEMMA RetryStep ==
    ASSUME NEW g \in AnyFace, NEW n \in Nat
    PROVE  /\ Retry(g, n) \in AnyFace /\ TableStep(g, Retry(g, n))
           /\ Retry(g, n).running = g.running
           /\ Retry(g, n).pit = g.pit /\ Retry(g, n).filters = g.filters
           /\ Retry(g, n).prefixes = g.prefixes
           /\ Retry(g, n).told = g.told /\ Retry(g, n).dropped = g.dropped
           /\ n = 0 => Retry(g, n) = g
           /\ n # 0 => /\ Retry(g, n).issued = g.issued \cup {n}
                       /\ Waiting(Retry(g, n).posted) = Waiting(g.posted) \cup {n}
                       /\ WaitOnce(g.posted) /\ n \notin Waiting(g.posted) =>
                             WaitOnce(Retry(g, n).posted)
<1>1. CASE n = 0
  <2>1. Retry(g, n) = g BY <1>1 DEF Retry
  <2> QED BY <1>1, <2>1, StepSelf
<1>2. CASE n # 0
  <2> DEFINE h == [g EXCEPT !.issued = @ \cup {n}]
             job == Job("express", n, TRUE)
             k == PostJob(h, job)
  <2>1. Retry(g, n) = k BY <1>2 DEF Retry
  <2>2. job \in AnyJob /\ job.op = "express" /\ job.id = n
    BY DEF Job, AnyJob, About, JobOp, IssueOp
  <2>3. h \in AnyFace
    <3> DEFINE v == g.issued \cup {n}
    <3>1. v \in SUBSET Int BY DEF AnyFace
    <3>2. h = [g EXCEPT !.issued = v] OBVIOUS
    <3> HIDE DEF v
    <3>3. [g EXCEPT !.issued = v] \in AnyFace BY <3>1 DEF AnyFace
    <3> QED BY <3>2, <3>3
  <2>4. /\ h.pit = g.pit /\ h.filters = g.filters /\ h.prefixes = g.prefixes
        /\ h.issued = g.issued \cup {n} /\ h.told = g.told /\ h.dropped = g.dropped
        /\ h.running = g.running /\ h.posted = g.posted /\ SameTransport(g, h)
    BY DEF AnyFace, SameTransport
  <2> HIDE DEF h, job
  <2>5. MoreJobs(g.posted, g.posted) BY SameWaitingSelf DEF AnyFace
  <2>6. TableStep(g, h) BY <2>3, <2>4, <2>5 DEF TableStep
  <2>7. /\ k \in AnyFace /\ SameTables(h, k) /\ TableStep(h, k) /\ k.running = h.running
        /\ k.posted = Append(h.posted, job)
    BY <2>2, <2>3, PostJobStep DEF SocketOp
  <2> HIDE DEF k
  <2>8. TableStep(g, k) BY <2>3, <2>6, <2>7, TableStepTrans
  <2>9. g.posted \in Seq(AnyJob) BY DEF AnyFace
  <2>10. /\ Waiting(Append(g.posted, job)) = Waiting(g.posted) \cup {n}
         /\ WaitOnce(g.posted) /\ n \notin Waiting(g.posted) => WaitOnce(Append(g.posted, job))
    BY <2>2, <2>9, AppendWaiting DEF IssueOp
  <2> QED BY <1>2, <2>1, <2>4, <2>7, <2>8, <2>10 DEF SameTables
<1> QED BY <1>1, <1>2

LEMMA DividedMoves ==
    ASSUME NEW I, NEW W, NEW A, NEW T, NEW D, NEW X, Divided(I, W, A, T, D, X),
           NEW S \in SUBSET A
    PROVE  /\ Divided(I, W, A \ S, T \cup S, D, X)
           /\ Divided(I, W, A \ S, T, D \cup S, X)
BY DEF Divided

LEMMA DividedAdds ==
    ASSUME NEW I, NEW W, NEW A, NEW T, NEW D, NEW X, Divided(I, W, A, T, D, X),
           NEW n, n \notin I
    PROVE  Divided(I \cup {n}, W \cup {n}, A, T, D, X)
BY DEF Divided

LEMMA DividedTakes ==
    ASSUME NEW I, NEW W, NEW A, NEW T, NEW D, NEW n, Divided(I, W, A, T, D, {n})
    PROVE  /\ Divided(I, W \cup {n}, A, T, D, {})
           /\ Divided(I, W, A \cup {n}, T, D, {})
           /\ Divided(I, W, A, T, D \cup {n}, {})
BY DEF Divided

\* The callbacks of some pending Interests run, of which one may express another Interest.
LEMMA ToldStep ==
    ASSUME NEW g \in AnyFace, NEW hits \in SUBSET g.pit, NEW n \in Nat,
           NEW entries \in SUBSET Entry, NEW h,
           PitSet(Retry([g EXCEPT !.told = @ \cup AppIds(hits)], n), h, entries)
    PROVE  /\ h \in AnyFace /\ TableStep(g, h)
           /\ h.running = g.running
           /\ h.pit = entries /\ h.prefixes = g.prefixes /\ h.filters = g.filters
           /\ \A X, N :
                 OutcomeInv(g, X, N) /\ N \in Nat /\ n \in {0, N + 1}
                    /\ PendingOnce(entries) /\ AppIds(entries) = AppIds(g.pit \ hits)
                 => OutcomeInv(h, X, IF n = 0 THEN N ELSE n)
<1> DEFINE t == [g EXCEPT !.told = @ \cup AppIds(hits)]
           r == Retry(t, n)
           M(N) == IF n = 0 THEN N ELSE n
<1>1. g.pit \in SUBSET Entry /\ hits \in SUBSET Entry BY DEF AnyFace
<1>2. AppIds(hits) \subseteq Int BY <1>1 DEF AppIds, Entry
<1>3. t \in AnyFace BY <1>2 DEF AnyFace
<1>4. /\ t.pit = g.pit /\ t.filters = g.filters /\ t.prefixes = g.prefixes
      /\ t.issued = g.issued /\ t.told = g.told \cup AppIds(hits) /\ t.dropped = g.dropped
      /\ t.running = g.running /\ t.posted = g.posted /\ SameTransport(g, t)
  BY DEF AnyFace, SameTransport
<1> SUFFICES /\ h \in AnyFace /\ TableStep(g, h)
             /\ h.running = g.running
             /\ h.pit = entries /\ h.prefixes = g.prefixes /\ h.filters = g.filters
             /\ \A X, N :
                   OutcomeInv(g, X, N) /\ N \in Nat /\ n \in {0, N + 1}
                      /\ PendingOnce(entries) /\ AppIds(entries) = AppIds(g.pit \ hits)
                   => OutcomeInv(h, X, M(N))
  OBVIOUS
<1> HIDE DEF t
<1>5. MoreJobs(g.posted, g.posted) BY SameWaitingSelf DEF AnyFace
<1>6. TableStep(g, t) BY <1>3, <1>4, <1>5 DEF TableStep
<1>7. /\ r \in AnyFace /\ TableStep(t, r) /\ r.running = t.running
      /\ r.filters = t.filters /\ r.prefixes = t.prefixes
      /\ r.told = t.told /\ r.dropped = t.dropped
      /\ n = 0 => r = t
      /\ n # 0 => /\ r.issued = t.issued \cup {n}
                  /\ Waiting(r.posted) = Waiting(t.posted) \cup {n}
                  /\ WaitOnce(t.posted) /\ n \notin Waiting(t.posted) => WaitOnce(r.posted)
  BY <1>3, RetryStep
<1>8. /\ h \in AnyFace /\ TableStep(r, h) /\ SameWaiting(r.posted, h.posted)
      /\ h.pit = entries /\ h.filters = r.filters /\ h.prefixes = r.prefixes
      /\ h.issued = r.issued /\ h.told = r.told /\ h.dropped = r.dropped
      /\ h.running = r.running
  BY DEF PitSet, t
<1> HIDE DEF r
<1>9. TableStep(g, h)
  <2>1. TableStep(g, r) BY <1>3, <1>6, <1>7, TableStepTrans
  <2> QED BY <2>1, <1>7, <1>8, TableStepTrans
<1>10. ASSUME NEW X, NEW N, OutcomeInv(g, X, N), N \in Nat, n \in {0, N + 1},
              PendingOnce(entries), AppIds(entries) = AppIds(g.pit \ hits)
       PROVE  OutcomeInv(h, X, M(N))
  <2>1. r.posted \in Seq(AnyJob) /\ h.posted \in Seq(AnyJob) BY <1>7, <1>8 DEF AnyFace
  <2>2. Waiting(h.posted) = Waiting(r.posted) /\ (WaitOnce(r.posted) => WaitOnce(h.posted))
    BY <1>8, <2>1, SameWaitingFacts
  <2>3. /\ AppIds(g.pit \ hits) = AppIds(g.pit) \ AppIds(hits)
        /\ AppIds(hits) \subseteq AppIds(g.pit)
    BY <1>1, <1>10, AppIdsFacts DEF OutcomeInv
  <2>4. /\ g.issued \subseteq 1 .. N /\ WaitOnce(g.posted)
        /\ Divided(g.issued, Waiting(g.posted), AppIds(g.pit), g.told, g.dropped, X)
    BY <1>10 DEF OutcomeInv
  <2>5. n # 0 => n \notin g.issued BY <1>10, <2>4
  <2>6. Waiting(g.posted) \subseteq g.issued BY <2>4 DEF Divided
  <2>7. h.issued \subseteq 1 .. M(N)
    BY <1>4, <1>7, <1>8, <1>10, <2>4
  <2>8. WaitOnce(h.posted) BY <1>4, <1>7, <2>2, <2>4, <2>5, <2>6
  <2>9. Divided(h.issued, Waiting(h.posted), AppIds(h.pit), h.told, h.dropped, X)
    <3>1. CASE n = 0
      <4>1. Divided(g.issued, Waiting(g.posted), AppIds(g.pit) \ AppIds(hits),
                    g.told \cup AppIds(hits), g.dropped, X)
        BY <2>3, <2>4, DividedMoves
      <4> QED BY <3>1, <4>1, <1>4, <1>7, <1>8, <1>10, <2>2, <2>3
    <3>2. CASE n # 0
      <4> DEFINE A == AppIds(g.pit) \ AppIds(hits)
                 T == g.told \cup AppIds(hits)
      <4>1. Divided(g.issued, Waiting(g.posted), A, T, g.dropped, X)
        BY <2>3, <2>4, DividedMoves
      <4> HIDE DEF A, T
      <4>2. Divided(g.issued \cup {n}, Waiting(g.posted) \cup {n}, A, T, g.dropped, X)
        BY <3>2, <4>1, <2>5, DividedAdds
      <4> QED BY <3>2, <4>2, <1>4, <1>7, <1>8, <1>10, <2>2, <2>3 DEF A, T
    <3> QED BY <3>1, <3>2
  <2> QED BY <1>8, <1>10, <2>7, <2>8, <2>9 DEF OutcomeInv
<1> QED BY <1>4, <1>7, <1>8, <1>9, <1>10

\* The face after these callbacks.
Told(g, hits, n) == Retry([g EXCEPT !.told = @ \cup AppIds(hits)], n)

LEMMA ToldPit ==
    ASSUME NEW g \in AnyFace, NEW hits \in SUBSET g.pit, NEW n \in Nat
    PROVE  Told(g, hits, n) \in AnyFace /\ Told(g, hits, n).pit = g.pit
<1> DEFINE t == [g EXCEPT !.told = @ \cup AppIds(hits)]
<1>1. AppIds(hits) \subseteq Int BY DEF AppIds, AnyFace, Entry
<1>2. t \in AnyFace /\ t.pit = g.pit BY <1>1 DEF AnyFace
<1> HIDE DEF t
<1>3. Retry(t, n) \in AnyFace /\ Retry(t, n).pit = g.pit BY <1>2, RetryStep
<1> QED BY <1>3 DEF Told, t

LEMMA ToldSetPit ==
    ASSUME NEW g \in AnyFace, NEW hits \in SUBSET g.pit, NEW n \in Nat,
           NEW entries \in SUBSET Entry
    PROVE  LET h == SetPit(Told(g, hits, n), entries)
           IN  /\ h \in AnyFace /\ TableStep(g, h)
               /\ h.running = g.running
               /\ h.pit = entries /\ h.prefixes = g.prefixes /\ h.filters = g.filters
               /\ \A X, N :
                     OutcomeInv(g, X, N) /\ N \in Nat /\ n \in {0, N + 1}
                        /\ PendingOnce(entries) /\ AppIds(entries) = AppIds(g.pit \ hits)
                     => OutcomeInv(h, X, IF n = 0 THEN N ELSE n)
<1> DEFINE h == SetPit(Told(g, hits, n), entries)
<1>1. PitSet(Told(g, hits, n), h, entries) BY ToldPit, SetPitStep
<1>2. PitSet(Retry([g EXCEPT !.told = @ \cup AppIds(hits)], n), h, entries) BY <1>1 DEF Told
<1> HIDE DEF h
<1>3. /\ h \in AnyFace /\ TableStep(g, h)
      /\ h.running = g.running
      /\ h.pit = entries /\ h.prefixes = g.prefixes /\ h.filters = g.filters
      /\ \A X, N :
            OutcomeInv(g, X, N) /\ N \in Nat /\ n \in {0, N + 1}
               /\ PendingOnce(entries) /\ AppIds(entries) = AppIds(g.pit \ hits)
            => OutcomeInv(h, X, IF n = 0 THEN N ELSE n)
  BY <1>2, ToldStep
<1> QED BY <1>3 DEF h

\* One of the callbacks is an empty function, which throws.
LEMMA ToldThrow ==
    ASSUME NEW g \in AnyFace, NEW hits \in SUBSET g.pit, NEW n \in Nat
    PROVE  LET h == Throw([Told(g, hits, n) EXCEPT !.pit = @ \ hits])
           IN  /\ h \in AnyFace /\ TableStep(g, h)
               /\ h.running = g.running
               /\ g.running => ~Waits(h)
               /\ Waits(h) => Waits(g)
               /\ \A X, N : OutcomeInv(g, X, N) /\ N \in Nat /\ n \in {0, N + 1}
                            => OutcomeInv(h, X, IF n = 0 THEN N ELSE n)
<1> DEFINE t == Told(g, hits, n)
           entries == g.pit \ hits
           c == [t EXCEPT !.pit = entries]
           h == Throw(c)
           M(N) == IF n = 0 THEN N ELSE n
<1>1. t \in AnyFace /\ t.pit = g.pit BY ToldPit
<1>2. [t EXCEPT !.pit = @ \ hits] = c BY <1>1
<1>3. g.pit \in SUBSET Entry /\ entries \in SUBSET Entry BY DEF AnyFace
<1>4. entries = g.pit \ hits OBVIOUS
<1> HIDE DEF entries
<1>5. PitSet(t, c, entries) BY <1>1, <1>3, SetPitStep
<1>6. PitSet(Retry([g EXCEPT !.told = @ \cup AppIds(hits)], n), c, entries) BY <1>5 DEF Told
<1> HIDE DEF c
<1>7. /\ c \in AnyFace /\ TableStep(g, c)
      /\ c.running = g.running
      /\ c.pit = entries /\ c.prefixes = g.prefixes /\ c.filters = g.filters
      /\ \A X, N :
            OutcomeInv(g, X, N) /\ N \in Nat /\ n \in {0, N + 1}
               /\ PendingOnce(entries) /\ AppIds(entries) = AppIds(g.pit \ hits)
            => OutcomeInv(c, X, IF n = 0 THEN N ELSE n)
  <2> HIDE DEF t, h, M
  <2> QED BY <1>3, <1>6, ToldStep
<1>8. /\ h \in AnyFace /\ TableStep(c, h) /\ h.running = c.running
      /\ c.running => ~Waits(h)
      /\ Waits(h) => Waits(c)
      /\ \A X, N : OutcomeInv(c, X, N) => OutcomeInv(h, X, N)
  BY <1>7, ThrowStep
<1> HIDE DEF h, M
<1>9. TableStep(g, h) BY <1>7, <1>8, TableStepTrans
<1>10. Waits(c) => Waits(g) BY <1>4, <1>7 DEF Waits
<1>11. ASSUME NEW X, NEW N, OutcomeInv(g, X, N), N \in Nat, n \in {0, N + 1}
       PROVE  OutcomeInv(h, X, M(N))
  <2>1. PendingOnce(g.pit) BY <1>11 DEF OutcomeInv
  <2>2. PendingOnce(g.pit \ hits) BY <1>3, <2>1, AppIdsFacts
  <2>3. PendingOnce(entries) /\ AppIds(entries) = AppIds(g.pit \ hits) BY <1>4, <2>2
  <2> QED BY <1>7, <1>8, <1>11, <2>3 DEF M
<1>12. /\ h \in AnyFace /\ TableStep(g, h)
       /\ h.running = g.running
       /\ g.running => ~Waits(h)
       /\ Waits(h) => Waits(g)
       /\ \A X, N : OutcomeInv(g, X, N) /\ N \in Nat /\ n \in {0, N + 1}
                    => OutcomeInv(h, X, M(N))
  BY <1>7, <1>8, <1>9, <1>10, <1>11
<1> QED BY <1>2, <1>12 DEF h, M, t

LEMMA FilterSets ==
    ASSUME NEW S \in FilterSet, NEW p \in Int
    PROVE  S \cup {p} \in FilterSet /\ S \ {p} \in FilterSet /\ Cardinality(S) \in Int
<1>1. IsFiniteSet(S) BY DEF FilterSet
<1>2. IsFiniteSet(S \cup {p}) /\ IsFiniteSet(S \ {p}) BY <1>1, FS_AddElement, FS_RemoveElement
<1>3. Cardinality(S) \in Nat BY <1>1, FS_CardinalityType
<1> QED BY <1>2, <1>3 DEF FilterSet

\* Nothing changes for an Interest of the application.
OutcomeSame(g, h) ==
    /\ h.pit = g.pit /\ h.issued = g.issued /\ h.told = g.told /\ h.dropped = g.dropped
    /\ SameWaiting(g.posted, h.posted)

LEMMA OutcomeSameKeeps ==
    ASSUME NEW g \in AnyFace, NEW h \in AnyFace, OutcomeSame(g, h),
           NEW X, NEW N, OutcomeInv(g, X, N)
    PROVE  OutcomeInv(h, X, N)
<1>1. g.posted \in Seq(AnyJob) /\ h.posted \in Seq(AnyJob) BY DEF AnyFace
<1>2. Waiting(h.posted) = Waiting(g.posted) /\ (WaitOnce(g.posted) => WaitOnce(h.posted))
  BY <1>1, SameWaitingFacts DEF OutcomeSame
<1> QED BY <1>2 DEF OutcomeSame, OutcomeInv

\* A step that changes prefixes and filters only.
LEMMA OtherTables ==
    ASSUME NEW g \in AnyFace, NEW q \in SUBSET Int, NEW s \in FilterSet
    PROVE  /\ [g EXCEPT !.prefixes = q, !.filters = s] \in AnyFace
           /\ TableStep(g, [g EXCEPT !.prefixes = q, !.filters = s])
           /\ OutcomeSame(g, [g EXCEPT !.prefixes = q, !.filters = s])
           /\ [g EXCEPT !.prefixes = q, !.filters = s].prefixes = q
           /\ [g EXCEPT !.prefixes = q, !.filters = s].running = g.running
<1> DEFINE h == [g EXCEPT !.prefixes = q, !.filters = s]
<1>1. h \in AnyFace BY DEF AnyFace
<1>2. /\ h.pit = g.pit /\ h.prefixes = q /\ h.filters = s
      /\ h.issued = g.issued /\ h.told = g.told /\ h.dropped = g.dropped
      /\ h.running = g.running /\ h.posted = g.posted /\ SameTransport(g, h)
  BY DEF AnyFace, SameTransport
<1>3. SameWaiting(g.posted, g.posted) /\ MoreJobs(g.posted, g.posted)
  BY SameWaitingSelf DEF AnyFace
<1> HIDE DEF h
<1>4. /\ h \in AnyFace /\ TableStep(g, h) /\ OutcomeSame(g, h)
      /\ h.prefixes = q /\ h.running = g.running
  BY <1>1, <1>2, <1>3 DEF TableStep, OutcomeSame
<1> QED BY <1>4, Zenon DEF h

LEMMA processCommandResponseStep ==
    ASSUME NEW g \in AnyFace, NEW e \in Entry, NEW ok \in BOOLEAN
    PROVE  /\ processCommandResponse(g, e, ok) \in AnyFace
           /\ TableStep(g, processCommandResponse(g, e, ok))
           /\ g.running /\ ~ok /\ EmptyCallback({e}) => ~Waits(processCommandResponse(g, e, ok))
           /\ \A X, N : OutcomeInv(g, X, N) => OutcomeInv(processCommandResponse(g, e, ok), X, N)
<1> DEFINE p == e.prefix
<1>1. p \in Int BY DEF Entry
<1>2. g.filters \in FilterSet /\ g.prefixes \in SUBSET Int BY DEF AnyFace
<1>0. EmptyCallback({e}) <=> e.for = "unset" BY DEF EmptyCallback
<1>3. CASE ok /\ e.for = "register"
  <2>1. processCommandResponse(g, e, ok) = afterPrefixRegistered(g, p)
    BY <1>3 DEF processCommandResponse
  <2> DEFINE q == g.prefixes \cup {p}
             s == g.filters \cup {p}
  <2>2. afterPrefixRegistered(g, p) = [g EXCEPT !.prefixes = q, !.filters = s]
    BY DEF afterPrefixRegistered
  <2>3. q \in SUBSET Int /\ s \in FilterSet BY <1>1, <1>2, FilterSets
  <2> DEFINE h == [g EXCEPT !.prefixes = q, !.filters = s]
  <2> HIDE DEF q, s
  <2>4. h \in AnyFace /\ TableStep(g, h) /\ OutcomeSame(g, h) BY <2>3, OtherTables, Zenon
  <2> HIDE DEF h
  <2>5. processCommandResponse(g, e, ok) = h BY <2>1, <2>2 DEF h
  <2> QED BY <1>3, <2>4, <2>5, OutcomeSameKeeps
<1>4. CASE ok /\ e.for \in {"unregister", "unset"}
  <2>1. processCommandResponse(g, e, ok) = finalizeUnregisterPrefix(g, p)
    BY <1>4 DEF processCommandResponse
  <2> DEFINE r == finalizeUnregisterPrefix(g, p)
             q == g.prefixes \ {p}
             h == [g EXCEPT !.prefixes = q]
  <2>2. finalizeUnregisterPrefix(g, p) =
           IF p \notin g.prefixes THEN Invalid(g)
           ELSE IF h.prefixes = {} THEN PostOnEmpty(h) ELSE h
    BY DEF finalizeUnregisterPrefix
  <2>3. q \in SUBSET Int BY <1>2
  <2> HIDE DEF q
  <2>4. h = [g EXCEPT !.prefixes = q, !.filters = g.filters] BY DEF AnyFace
  <2>5. h \in AnyFace /\ TableStep(g, h) /\ OutcomeSame(g, h)
    <3> DEFINE s == g.filters
               k == [g EXCEPT !.prefixes = q, !.filters = s]
    <3>1. s \in FilterSet /\ h = k BY <2>4, <1>2
    <3> HIDE DEF s, h
    <3>2. k \in AnyFace /\ TableStep(g, k) /\ OutcomeSame(g, k)
      BY <2>3, <3>1, OtherTables, Zenon
    <3> HIDE DEF k
    <3> QED BY <3>1, <3>2
  <2> HIDE DEF h
  <2>6. /\ PostOnEmpty(h) \in AnyFace /\ SameTables(h, PostOnEmpty(h))
        /\ TableStep(h, PostOnEmpty(h)) /\ TransportStep(h, PostOnEmpty(h))
    BY <2>5, PostOnEmptyStep
  <2>7. TableStep(g, PostOnEmpty(h)) BY <2>5, <2>6, TableStepTrans
  <2>8. OutcomeSame(g, PostOnEmpty(h))
    <3>1. /\ Len(g.posted) \in Nat /\ Len(h.posted) \in Nat
          /\ Len(PostOnEmpty(h).posted) \in Nat
      BY <2>5, <2>6, LenProperties DEF AnyFace
    <3>2. SameWaiting(g.posted, PostOnEmpty(h).posted)
      BY <3>1, <2>5, <2>6 DEF TransportStep, OutcomeSame, SameWaiting
    <3> QED BY <3>2, <2>5, <2>6 DEF OutcomeSame, SameTables
  <2>9. Invalid(g) \in AnyFace /\ TableStep(g, Invalid(g)) /\ OutcomeSame(g, Invalid(g))
    BY InvalidStep DEF TransportStep, SameTables, OutcomeSame
  <2>10. r \in AnyFace /\ TableStep(g, r) /\ OutcomeSame(g, r)
    BY <2>2, <2>5, <2>6, <2>7, <2>8, <2>9
  <2> HIDE DEF r
  <2>11. processCommandResponse(g, e, ok) = r BY <2>1 DEF r
  <2> QED BY <1>4, <2>10, <2>11, OutcomeSameKeeps
<1>5. CASE ~ok /\ e.for = "unset"
  <2>1. processCommandResponse(g, e, ok) = Throw(g) BY <1>0, <1>5 DEF processCommandResponse
  <2> QED BY <2>1, ThrowStep
<1>6. CASE ~(ok /\ e.for \in {"register", "unregister", "unset"}) /\ ~(~ok /\ e.for = "unset")
  <2>1. processCommandResponse(g, e, ok) = g BY <1>0, <1>6 DEF processCommandResponse
  <2> QED BY <1>0, <1>6, <2>1, StepSelf
<1> QED BY <1>3, <1>4, <1>5, <1>6


LEMMA satisfyStep ==
    ASSUME NEW g \in AnyFace, NEW k \in Int, NEW ok \in BOOLEAN
    PROVE  LET h == satisfyPendingInterests(g, k, ok)
           IN  /\ h \in AnyFace /\ TableStep(g, h)
               /\ k = 0 => (Waits(h) => Waits(g)) /\ h.running = g.running
               /\ g.running /\ PendingOnce(g.pit) /\ ~ok /\ EmptyCallback(Hits(g, k)) => ~Waits(h)
               /\ \A X, N : OutcomeInv(g, X, N) /\ N \in Nat => OutcomeInv(h, X, N)
<1> DEFINE hits == Hits(g, k)
           t == [g EXCEPT !.told = @ \cup AppIds(hits)]
           c == SetPit(t, g.pit \ hits)
           r == satisfyPendingInterests(g, k, ok)
<1> SUFFICES /\ r \in AnyFace /\ TableStep(g, r)
             /\ k = 0 => (Waits(r) => Waits(g)) /\ r.running = g.running
             /\ g.running /\ PendingOnce(g.pit) /\ ~ok /\ EmptyCallback(hits) => ~Waits(r)
             /\ \A X, N : OutcomeInv(g, X, N) /\ N \in Nat => OutcomeInv(r, X, N)
  OBVIOUS
<1>1. r = IF k # 0 /\ hits # {} THEN processCommandResponse(c, CHOOSE e \in hits : TRUE, ok) ELSE c
  BY DEF satisfyPendingInterests
<1>2. g.pit \in SUBSET Entry /\ hits \in SUBSET g.pit BY DEF AnyFace, Hits
\* A command is about one entry; the Interests of the application have callbacks.
<1>0. /\ k = 0 => ~EmptyCallback(hits)
      /\ k # 0 /\ PendingOnce(g.pit) => \A d, e \in hits : d = e
  BY DEF EmptyCallback, Hits, MatchesPacket, PendingOnce
<1> HIDE DEF hits
<1>3. t = Told(g, hits, 0) BY DEF Told, Retry
<1>4. g.pit \ hits \in SUBSET Entry BY <1>2
<1>5. LET h == SetPit(Told(g, hits, 0), g.pit \ hits)
      IN  /\ h \in AnyFace /\ TableStep(g, h)
          /\ h.running = g.running
          /\ h.pit = g.pit \ hits /\ h.prefixes = g.prefixes /\ h.filters = g.filters
          /\ \A X, N :
                OutcomeInv(g, X, N) /\ N \in Nat /\ 0 \in {0, N + 1}
                   /\ PendingOnce(g.pit \ hits) /\ AppIds(g.pit \ hits) = AppIds(g.pit \ hits)
                => OutcomeInv(h, X, IF 0 = 0 THEN N ELSE 0)
  <2> DEFINE n == 0
             entries == g.pit \ hits
  <2>1. n \in Nat /\ entries \in SUBSET Entry BY <1>4
  <2> HIDE DEF n, entries
  <2>2. LET h == SetPit(Told(g, hits, n), entries)
        IN  /\ h \in AnyFace /\ TableStep(g, h)
            /\ h.running = g.running
            /\ h.pit = entries /\ h.prefixes = g.prefixes /\ h.filters = g.filters
            /\ \A X, N :
                  OutcomeInv(g, X, N) /\ N \in Nat /\ n \in {0, N + 1}
                     /\ PendingOnce(entries) /\ AppIds(entries) = AppIds(g.pit \ hits)
                  => OutcomeInv(h, X, IF n = 0 THEN N ELSE n)
    BY <1>2, <2>1, ToldSetPit
  <2> QED BY <2>2 DEF n, entries
<1>6. /\ c \in AnyFace /\ TableStep(g, c) /\ c.running = g.running
      /\ c.pit = g.pit \ hits /\ c.prefixes = g.prefixes
      /\ \A X, N : OutcomeInv(g, X, N) /\ N \in Nat /\ PendingOnce(g.pit \ hits)
                   => OutcomeInv(c, X, N)
  BY <1>3, <1>5
<1> HIDE DEF t, c, r
<1>7. ASSUME NEW X, NEW N, OutcomeInv(g, X, N), N \in Nat PROVE OutcomeInv(c, X, N)
  <2>1. PendingOnce(g.pit) BY <1>7 DEF OutcomeInv
  <2>2. PendingOnce(g.pit \ hits) BY <1>2, <2>1, AppIdsFacts
  <2> QED BY <1>6, <1>7, <2>2
<1>8. CASE k # 0 /\ hits # {}
  <2> DEFINE e == CHOOSE x \in hits : TRUE
  <2>1. e \in Entry /\ e \in hits BY <1>2, <1>8
  <2>2. r = processCommandResponse(c, e, ok) BY <1>1, <1>8
  <2> HIDE DEF e
  <2>3. /\ r \in AnyFace /\ TableStep(c, r)
        /\ c.running /\ ~ok /\ EmptyCallback({e}) => ~Waits(r)
        /\ \A X, N : OutcomeInv(c, X, N) => OutcomeInv(r, X, N)
    BY <1>6, <2>1, <2>2, processCommandResponseStep
  <2>4. TableStep(g, r) BY <1>6, <2>3, TableStepTrans
  <2>5. ASSUME NEW X, NEW N, OutcomeInv(g, X, N), N \in Nat PROVE OutcomeInv(r, X, N)
    <3>1. OutcomeInv(c, X, N) BY <1>7, <2>5
    <3> QED BY <3>1, <2>3
  <2>6. PendingOnce(g.pit) /\ EmptyCallback(hits) => EmptyCallback({e})
    BY <1>0, <1>8, <2>1 DEF EmptyCallback
  <2> QED BY <1>6, <1>8, <2>3, <2>4, <2>5, <2>6
<1>9. CASE ~(k # 0 /\ hits # {})
  <2>1. r = c BY <1>1, <1>9
  <2>2. Waits(c) => Waits(g) BY <1>6 DEF Waits
  <2>3. ~EmptyCallback(hits) BY <1>0, <1>9 DEF EmptyCallback
  <2> QED BY <1>6, <1>7, <2>1, <2>2, <2>3
<1> QED BY <1>8, <1>9

LEMMA nackStep ==
    ASSUME NEW g \in AnyFace, NEW k \in Int, NEW n \in Nat
    PROVE  LET h == nackPendingInterests(g, k, n)
           IN  /\ h \in AnyFace /\ TableStep(g, h)
               /\ h.running = g.running
               /\ Waits(h) => Waits(g)
               /\ g.running /\ EmptyCallback(NackedHits(g, k)) => ~Waits(h)
               /\ \A X, N : OutcomeInv(g, X, N) /\ N \in Nat /\ n \in {0, N + 1}
                            => OutcomeInv(h, X, IF n = 0 THEN N ELSE n)
<1> DEFINE all == Hits(g, k)
           hits == NackedHits(g, k)
           kept == {NackedOnce(e) : e \in all \ hits}
           entries == (g.pit \ all) \cup kept
           r == nackPendingInterests(g, k, n)
           M(N) == IF n = 0 THEN N ELSE n
<1> SUFFICES /\ r \in AnyFace /\ TableStep(g, r)
             /\ r.running = g.running
             /\ Waits(r) => Waits(g)
             /\ g.running /\ EmptyCallback(hits) => ~Waits(r)
             /\ \A X, N : OutcomeInv(g, X, N) /\ N \in Nat /\ n \in {0, N + 1}
                          => OutcomeInv(r, X, M(N))
  OBVIOUS
<1>1. r = IF EmptyCallback(hits) THEN Throw([Told(g, hits, n) EXCEPT !.pit = @ \ hits])
          ELSE SetPit(Told(g, hits, n), entries)
  BY DEF nackPendingInterests, Told
<1>2. /\ g.pit \in SUBSET Entry /\ all \in SUBSET g.pit /\ hits \in SUBSET all
      /\ hits \in SUBSET g.pit
  BY DEF AnyFace, Hits, NackedHits
<1>3. \A e \in Entry : NackedOnce(e) \in Entry /\ NackedOnce(e).id = e.id
  BY DEF NackedOnce, Entry
<1> HIDE DEF all, hits
<1>3a. CASE EmptyCallback(hits)
  <2>1. r = Throw([Told(g, hits, n) EXCEPT !.pit = @ \ hits]) BY <1>1, <1>3a
  <2>2. LET h == Throw([Told(g, hits, n) EXCEPT !.pit = @ \ hits])
        IN  /\ h \in AnyFace /\ TableStep(g, h)
            /\ h.running = g.running
            /\ g.running => ~Waits(h)
            /\ Waits(h) => Waits(g)
            /\ \A X, N : OutcomeInv(g, X, N) /\ N \in Nat /\ n \in {0, N + 1}
                         => OutcomeInv(h, X, IF n = 0 THEN N ELSE n)
    BY <1>2, ToldThrow
  <2> HIDE DEF r
  <2> QED BY <2>1, <2>2
<1> SUFFICES ASSUME ~EmptyCallback(hits)
             PROVE  /\ r \in AnyFace /\ TableStep(g, r)
                    /\ r.running = g.running
                    /\ Waits(r) => Waits(g)
                    /\ \A X, N : OutcomeInv(g, X, N) /\ N \in Nat /\ n \in {0, N + 1}
                                 => OutcomeInv(r, X, M(N))
  BY <1>3a
<1>4. entries \in SUBSET Entry BY <1>2, <1>3
<1>5. ASSUME PendingOnce(g.pit)
      PROVE  PendingOnce(entries) /\ AppIds(entries) = AppIds(g.pit \ hits)
  \* An entry and the pending Interest that it was.
  <2>1. \A d \in entries : \E e \in g.pit \ hits : e.id = d.id /\
                              ((d = e /\ e \notin all) \/ (d = NackedOnce(e) /\ e \in all))
    BY <1>2, <1>3
  <2>2. \A e \in g.pit \ hits : \E d \in entries : d.id = e.id BY <1>2, <1>3
  <2>3. PendingOnce(entries) BY <1>5, <2>1 DEF PendingOnce
  <2> HIDE DEF entries
  <2>4. ASSUME NEW x \in AppIds(entries) PROVE x \in AppIds(g.pit \ hits)
    BY <2>1, <2>4 DEF AppIds
  <2>5. ASSUME NEW x \in AppIds(g.pit \ hits) PROVE x \in AppIds(entries)
    BY <2>2, <2>5 DEF AppIds
  <2> QED BY <2>3, <2>4, <2>5
<1>6. entries # {} => g.pit # {} BY <1>2
<1> HIDE DEF entries
<1>7. LET h == SetPit(Told(g, hits, n), entries)
      IN  /\ h \in AnyFace /\ TableStep(g, h)
          /\ h.running = g.running
          /\ h.pit = entries /\ h.prefixes = g.prefixes /\ h.filters = g.filters
          /\ \A X, N :
                OutcomeInv(g, X, N) /\ N \in Nat /\ n \in {0, N + 1}
                   /\ PendingOnce(entries) /\ AppIds(entries) = AppIds(g.pit \ hits)
                => OutcomeInv(h, X, IF n = 0 THEN N ELSE n)
  BY <1>2, <1>4, ToldSetPit
<1>8. /\ r \in AnyFace /\ TableStep(g, r)
      /\ r.running = g.running
      /\ r.pit = entries /\ r.prefixes = g.prefixes
      /\ \A X, N :
            OutcomeInv(g, X, N) /\ N \in Nat /\ n \in {0, N + 1}
               /\ PendingOnce(entries) /\ AppIds(entries) = AppIds(g.pit \ hits)
            => OutcomeInv(r, X, M(N))
  BY <1>1, <1>7
<1> HIDE DEF r, M
<1>9. ASSUME NEW X, NEW N, OutcomeInv(g, X, N), N \in Nat, n \in {0, N + 1}
      PROVE  OutcomeInv(r, X, M(N))
  <2>1. PendingOnce(entries) /\ AppIds(entries) = AppIds(g.pit \ hits)
    BY <1>5, <1>9 DEF OutcomeInv
  <2> QED BY <1>8, <1>9, <2>1
<1>10. Waits(r) => Waits(g) BY <1>6, <1>8 DEF Waits
<1> QED BY <1>8, <1>9, <1>10

\* An Interest of the forwarder.
LEMMA processIncomingInterestStep ==
    ASSUME NEW g \in AnyFace, NEW id \in Int, id < 0, \A e \in g.pit : e.id # id
    PROVE  /\ processIncomingInterest(g, id) \in AnyFace
           /\ TableStep(g, processIncomingInterest(g, id))
           /\ \A X, N : OutcomeInv(g, X, N) => OutcomeInv(processIncomingInterest(g, id), X, N)
<1> DEFINE e == [id |-> id, for |-> "app", prefix |-> 0, left |-> Cardinality(g.filters)]
           h == processIncomingInterest(g, id)
<1>1. h = [g EXCEPT !.pit = @ \cup {e}] BY DEF processIncomingInterest
<1>2. e \in Entry /\ e.id = id
  <2>1. g.filters \in FilterSet BY DEF AnyFace
  <2>2. Cardinality(g.filters) \in Int BY <2>1, FilterSets
  <2> QED BY <2>2 DEF Entry, About
<1> HIDE DEF e
<1>3. h \in AnyFace
  <2> DEFINE P == g.pit \cup {e}
  <2>1. P \in SUBSET Entry BY <1>2 DEF AnyFace
  <2>2. h = [g EXCEPT !.pit = P] BY <1>1
  <2> HIDE DEF P
  <2> QED BY <2>1, <2>2 DEF AnyFace
<1>4. /\ h.pit = g.pit \cup {e}
      /\ h.issued = g.issued /\ h.told = g.told /\ h.dropped = g.dropped
      /\ h.running = g.running /\ h.posted = g.posted /\ SameTransport(g, h)
  BY <1>1 DEF AnyFace, SameTransport
<1> HIDE DEF h
<1>5. SameWaiting(g.posted, g.posted) /\ MoreJobs(g.posted, g.posted)
  BY SameWaitingSelf DEF AnyFace
<1>6. TableStep(g, h) BY <1>3, <1>4, <1>5 DEF TableStep
<1>7. AppIds(h.pit) = AppIds(g.pit)
  <2>1. \A x \in h.pit : x.id > 0 => x \in g.pit BY <1>2, <1>4
  <2>2. g.pit \subseteq h.pit BY <1>4
  <2> QED BY <2>1, <2>2 DEF AppIds
<1>8. ASSUME NEW X, NEW N, OutcomeInv(g, X, N) PROVE OutcomeInv(h, X, N)
  <2>1. PendingOnce(h.pit) BY <1>2, <1>4, <1>8 DEF OutcomeInv, PendingOnce
  <2>2. Divided(g.issued, Waiting(g.posted), AppIds(h.pit), h.told, h.dropped, X)
    BY <1>4, <1>7, <1>8 DEF OutcomeInv
  <2> QED BY <1>3, <1>4, <1>5, <1>8, <2>1, <2>2, Moved
<1> QED BY <1>3, <1>6, <1>8 DEF h

-----------------------------------------------------------------------------
(* Handlers *)

JobIds(job) == IF job.op \in IssueOp THEN {job.id} ELSE {}

\* What a handler that is not of the socket has to do.
GoodRun(g, job, h) ==
    /\ h \in AnyFace
    /\ h.running => g.running
    /\ \A N \in Nat : h.running /\ OutcomeInv(g, JobIds(job), N) => OutcomeInv(h, {}, N)
    /\ h.running /\ TransportInv(g) /\ ListenInv(g) => TransportInv(h) /\ ListenInv(h)

LEMMA TableRun ==
    ASSUME NEW g \in AnyFace, NEW job, JobIds(job) = {}, NEW h, TableStep(g, h),
           Waits(h) => Waits(g),
           \A X, N : OutcomeInv(g, X, N) /\ N \in Nat => OutcomeInv(h, X, N)
    PROVE  GoodRun(g, job, h)
<1>1. h \in AnyFace /\ (h.running => g.running) /\ SameTransport(g, h) BY DEF TableStep
<1>2. (TransportInv(g) => TransportInv(h)) /\ StillReads(g, h) BY TableStepKeeps
<1>3. ListenInv(g) => ListenInv(h) BY <1>1, <1>2 DEF ListenInv, SameTransport, StillReads
<1> QED BY <1>1, <1>2, <1>3 DEF GoodRun

\* The transport is closed and an exception is thrown.
LEMMA CloseAndThrow ==
    ASSUME NEW g \in AnyFace
    PROVE  LET h == Throw(closeTransport(g))
           IN  /\ h \in AnyFace
               /\ h.running => g.running /\ TransportInv(h) /\ ListenInv(h)
               /\ \A X, N : OutcomeInv(g, X, N) => OutcomeInv(h, X, N)
<1> DEFINE c == closeTransport(g)
           h == Throw(c)
<1> SUFFICES /\ h \in AnyFace
             /\ h.running => g.running /\ TransportInv(h) /\ ListenInv(h)
             /\ \A X, N : OutcomeInv(g, X, N) => OutcomeInv(h, X, N)
  OBVIOUS
<1>1. /\ c \in AnyFace /\ TransportStep(g, c)
      /\ c.running => TransportInv(c) /\ ~c.isReceiving
  BY closeTransportStep
<1> HIDE DEF c
<1>2. ASSUME NEW X, NEW N, OutcomeInv(g, X, N) PROVE OutcomeInv(c, X, N)
  BY <1>1, <1>2, TransportStepKeeps
<1>3. CASE ~c.running
  <2>1. h = c BY <1>3 DEF Throw
  <2> QED BY <1>1, <1>2, <1>3, <2>1
<1>4. CASE c.running
  <2>1. h = ClearTables(c) BY <1>4 DEF Throw
  <2>2. /\ h \in AnyFace /\ TableStep(c, h) /\ ~Waits(h)
        /\ \A X, N : OutcomeInv(c, X, N) => OutcomeInv(h, X, N)
    BY <1>1, <2>1, ClearTablesStep
  <2> HIDE DEF h
  <2>3. TransportInv(h) BY <1>1, <1>4, <2>2, TableStepKeeps
  <2>4. ListenInv(h) BY <1>1, <1>4, <2>2 DEF ListenInv, TableStep, SameTransport
  <2>5. h.running => g.running BY <1>1, <2>2 DEF TableStep, TransportStep
  <2> QED BY <1>2, <2>2, <2>3, <2>4, <2>5
<1> QED BY <1>3, <1>4
\* After a packet was sent the face listens, whatever it waits for.
LEMMA SendListens ==
    ASSUME NEW g \in AnyFace, g.running, TransportInv(g), g.hasImpl,
           g.isConnecting \/ Reads(g), g.isReceiving => Reads(g)
    PROVE  TransportInv(sendWire(g)) /\ ListenInv(sendWire(g))
<1>1. /\ StillReads(g, sendWire(g))
      /\ sendWire(g).isReceiving = g.isReceiving
      /\ sendWire(g).isConnecting = g.isConnecting
      /\ sendWire(g).queue = g.queue + 1
      /\ TransportInv(sendWire(g))
  BY sendWireStep
<1>2. g.queue \in Int /\ g.queue >= 0 BY DEF AnyFace, TransportInv, ImplInv
<1>3. Reads(g) => Reads(sendWire(g)) /\ Awaits(sendWire(g))
  BY <1>1, ReadsAwaits DEF StillReads
<1> QED BY <1>1, <1>2, <1>3 DEF ListenInv

\* A packet that does not fit throws an exception.
LEMMA SendPacketStep ==
    ASSUME NEW g \in AnyFace, NEW fits \in BOOLEAN
    PROVE  /\ SendPacket(g, fits) \in AnyFace
           /\ SendPacket(g, fits).running = g.running
           /\ \A X, N : OutcomeInv(g, X, N) => OutcomeInv(SendPacket(g, fits), X, N)
           /\ /\ g.running /\ TransportInv(g) /\ g.hasImpl
              /\ g.isConnecting \/ Reads(g)
              /\ g.isReceiving => Reads(g)
              => TransportInv(SendPacket(g, fits)) /\ ListenInv(SendPacket(g, fits))
<1>1. CASE fits
  <2>1. SendPacket(g, fits) = sendWire(g) BY <1>1 DEF SendPacket
  <2>2. /\ sendWire(g) \in AnyFace /\ TransportStep(g, sendWire(g))
        /\ sendWire(g).running = g.running
    BY sendWireStep
  <2>3. \A X, N : OutcomeInv(g, X, N) => OutcomeInv(sendWire(g), X, N)
    BY <2>2, TransportStepKeeps
  <2> QED BY <2>1, <2>2, <2>3, SendListens
<1>2. CASE ~fits
  <2> DEFINE r == Throw(g)
  <2>1. SendPacket(g, fits) = r BY <1>2 DEF SendPacket
  <2>2. /\ r \in AnyFace /\ TableStep(g, r) /\ r.running = g.running
        /\ g.running => ~Waits(r)
        /\ \A X, N : OutcomeInv(g, X, N) => OutcomeInv(r, X, N)
    BY ThrowStep
  <2> HIDE DEF r
  <2>3. (TransportInv(g) => TransportInv(r)) /\ StillReads(g, r) BY <2>2, TableStepKeeps
  <2>4. r.isReceiving = g.isReceiving BY <2>2 DEF TableStep, SameTransport
  <2>5. g.running /\ (g.isReceiving => Reads(g)) => ListenInv(r)
    BY <2>2, <2>3, <2>4 DEF ListenInv, StillReads
  <2> QED BY <2>1, <2>2, <2>3, <2>5
<1> QED BY <1>1, <1>2

\* A handler on the tables that may end with a packet sent.
LEMMA SendRun ==
    ASSUME NEW g \in AnyFace, NEW job, JobIds(job) = {}, NEW h, TableStep(g, h),
           NEW fits \in BOOLEAN,
           \A X, N : OutcomeInv(g, X, N) /\ N \in Nat => OutcomeInv(h, X, N)
    PROVE  GoodRun(g, job, SendPacket(ensureConnected(h, TRUE), fits))
<1> DEFINE c == ensureConnected(h, TRUE)
           k == SendPacket(c, fits)
<1>1. h \in AnyFace /\ SameTransport(g, h) /\ (h.running => g.running) BY DEF TableStep
<1>2. LET i == ensureConnected(h, TRUE)
      IN  /\ i \in AnyFace /\ TransportStep(h, i)
          /\ StillReads(h, i)
          /\ i.running /\ TransportInv(h) /\ (h.isReceiving => Reads(h)) =>
                /\ TransportInv(i) /\ i.hasImpl
                /\ i.isConnecting \/ Reads(i)
                /\ i.isReceiving => Reads(i)
  BY <1>1, ensureConnectedStep
<1>3. /\ c \in AnyFace /\ TransportStep(h, c)
      /\ c.running /\ TransportInv(h) /\ (h.isReceiving => Reads(h)) =>
            /\ TransportInv(c) /\ c.hasImpl
            /\ c.isConnecting \/ Reads(c)
            /\ c.isReceiving => Reads(c)
  BY <1>2
<1> HIDE DEF c
<1>4. /\ k \in AnyFace /\ k.running = c.running
      /\ \A X, N : OutcomeInv(c, X, N) => OutcomeInv(k, X, N)
      /\ /\ c.running /\ TransportInv(c) /\ c.hasImpl
         /\ c.isConnecting \/ Reads(c)
         /\ c.isReceiving => Reads(c)
         => TransportInv(k) /\ ListenInv(k)
  BY <1>3, SendPacketStep
<1> HIDE DEF k
<1>5. (TransportInv(g) => TransportInv(h)) /\ StillReads(g, h) BY TableStepKeeps
<1>6. ListenInv(g) => (h.isReceiving => Reads(h))
  BY <1>1, <1>5 DEF ListenInv, SameTransport, StillReads
<1>7. k.running => g.running BY <1>1, <1>3, <1>4 DEF TransportStep
<1>8. ASSUME NEW N \in Nat, OutcomeInv(g, JobIds(job), N) PROVE OutcomeInv(k, {}, N)
  <2>1. OutcomeInv(h, {}, N) BY <1>8
  <2>2. OutcomeInv(c, {}, N) BY <2>1, <1>1, <1>3, TransportStepKeeps
  <2> QED BY <2>2, <1>4
<1> QED BY <1>3, <1>4, <1>5, <1>6, <1>7, <1>8 DEF GoodRun, k, c

LEMMA asyncPutDataRun ==
    ASSUME NEW g \in AnyFace, NEW job, JobIds(job) = {}, NEW fits \in BOOLEAN
    PROVE  GoodRun(g, job, asyncPutData(g, fits))
<1> DEFINE h == satisfyPendingInterests(g, 0, TRUE)
<1>1. LET i == satisfyPendingInterests(g, 0, TRUE)
      IN  /\ i \in AnyFace /\ TableStep(g, i)
          /\ 0 = 0 => (Waits(i) => Waits(g)) /\ i.running = g.running
          /\ g.running /\ PendingOnce(g.pit) /\ ~TRUE /\ EmptyCallback(Hits(g, 0)) => ~Waits(i)
          /\ \A X, N : OutcomeInv(g, X, N) /\ N \in Nat => OutcomeInv(i, X, N)
  <2>1. 0 \in Int /\ TRUE \in BOOLEAN OBVIOUS
  <2> QED BY <2>1, satisfyStep, Zenon
<1>2. /\ TableStep(g, h) /\ (Waits(h) => Waits(g))
      /\ \A X, N : OutcomeInv(g, X, N) /\ N \in Nat => OutcomeInv(h, X, N)
  BY <1>1
<1>3. asyncPutData(g, fits) = IF ShouldSendToForwarder(g)
                        THEN SendPacket(ensureConnected(h, TRUE), fits) ELSE h
  BY DEF asyncPutData
<1> HIDE DEF h
<1>4. GoodRun(g, job, h) BY <1>2, TableRun
<1>5. GoodRun(g, job, SendPacket(ensureConnected(h, TRUE), fits)) BY <1>2, SendRun
<1> QED BY <1>3, <1>4, <1>5

LEMMA asyncPutNackRun ==
    ASSUME NEW g \in AnyFace, NEW job, JobIds(job) = {}, NEW fits \in BOOLEAN
    PROVE  GoodRun(g, job, asyncPutNack(g, fits))
<1> DEFINE h == nackPendingInterests(g, 0, 0)
<1>1. LET i == nackPendingInterests(g, 0, 0)
      IN  /\ i \in AnyFace /\ TableStep(g, i)
          /\ i.running = g.running
          /\ Waits(i) => Waits(g)
          /\ g.running /\ EmptyCallback(NackedHits(g, 0)) => ~Waits(i)
          /\ \A X, N : OutcomeInv(g, X, N) /\ N \in Nat /\ 0 \in {0, N + 1}
                       => OutcomeInv(i, X, IF 0 = 0 THEN N ELSE 0)
  <2>1. 0 \in Int /\ 0 \in Nat OBVIOUS
  <2> QED BY <2>1, nackStep, Zenon
<1>2. /\ TableStep(g, h) /\ (Waits(h) => Waits(g))
      /\ \A X, N : OutcomeInv(g, X, N) /\ N \in Nat => OutcomeInv(h, X, N)
  BY <1>1
<1>3. asyncPutNack(g, fits) = IF \E e \in NackedHits(g, 0) : e.id < 0
                        THEN SendPacket(ensureConnected(h, TRUE), fits) ELSE h
  BY DEF asyncPutNack
<1> HIDE DEF h
<1>4. GoodRun(g, job, h) BY <1>2, TableRun
<1>5. GoodRun(g, job, SendPacket(ensureConnected(h, TRUE), fits)) BY <1>2, SendRun
<1> QED BY <1>3, <1>4, <1>5

\* The Interest that the handler has becomes pending, or is dropped by the exception that
\* an oversized one throws.
LEMMA asyncExpressInterestRun ==
    ASSUME NEW g \in AnyFace, NEW job \in AnyJob, job.op = "express"
    PROVE  GoodRun(g, job, asyncExpressInterest(g, job))
<1> DEFINE h == ensureConnected(g, TRUE)
           left == 1 + (IF job.for = "app" THEN Cardinality(g.filters) ELSE 0)
           e == [id |-> job.id, for |-> job.for, prefix |-> job.prefix, left |-> left]
           i == [h EXCEPT !.pit = @ \cup {e}]
           r == asyncExpressInterest(g, job)
<1>1. r = IF h.running THEN SendPacket(i, job.ok) ELSE h
  BY DEF asyncExpressInterest
<1>2. LET k == ensureConnected(g, TRUE)
      IN  /\ k \in AnyFace /\ TransportStep(g, k)
          /\ StillReads(g, k)
          /\ k.running /\ TransportInv(g) /\ (g.isReceiving => Reads(g)) =>
                /\ TransportInv(k) /\ k.hasImpl
                /\ k.isConnecting \/ Reads(k)
                /\ k.isReceiving => Reads(k)
  BY ensureConnectedStep
<1>3. /\ h \in AnyFace /\ TransportStep(g, h) /\ (h.running => g.running)
      /\ h.running /\ TransportInv(g) /\ (g.isReceiving => Reads(g)) =>
            /\ TransportInv(h) /\ h.hasImpl
            /\ h.isConnecting \/ Reads(h)
            /\ h.isReceiving => Reads(h)
  BY <1>2 DEF TransportStep
<1>4. JobIds(job) = {job.id} BY DEF JobIds, IssueOp
<1>5. e \in Entry /\ e.id = job.id
  <2>1. g.filters \in FilterSet BY DEF AnyFace
  <2>2. Cardinality(g.filters) \in Int BY <2>1, FS_CardinalityType DEF FilterSet
  <2>3. left \in Int BY <2>2
  <2> HIDE DEF left
  <2> QED BY <2>3 DEF Entry, AnyJob
<1> HIDE DEF h, e
<1>6. i \in AnyFace
  <2> DEFINE P == h.pit \cup {e}
  <2>1. P \in SUBSET Entry BY <1>3, <1>5 DEF AnyFace
  <2> HIDE DEF P
  <2>2. [h EXCEPT !.pit = P] \in AnyFace BY <1>3, <2>1 DEF AnyFace
  <2> QED BY <2>2 DEF P
<1>7. /\ i.pit = h.pit \cup {e}
      /\ i.issued = h.issued /\ i.told = h.told /\ i.dropped = h.dropped
      /\ i.running = h.running /\ i.posted = h.posted /\ SameTransport(h, i)
  BY <1>3 DEF AnyFace, SameTransport
<1> HIDE DEF i
<1>8. SameWaiting(h.posted, h.posted) /\ MoreJobs(h.posted, h.posted)
  BY <1>3, SameWaitingSelf DEF AnyFace
<1>9. TableStep(h, i) BY <1>6, <1>7, <1>8 DEF TableStep
<1>10. ASSUME NEW N \in Nat, OutcomeInv(g, JobIds(job), N) PROVE OutcomeInv(i, {}, N)
  <2> DEFINE id == job.id
  <2>1. OutcomeInv(h, {id}, N) BY <1>3, <1>4, <1>10, TransportStepKeeps
  <2>2. Divided(h.issued, Waiting(h.posted), AppIds(h.pit), h.told, h.dropped, {id})
    BY <2>1 DEF OutcomeInv
  <2>3. id \in h.issued /\ id \notin AppIds(h.pit) BY <2>2 DEF Divided
  <2>4. id \in Int /\ id > 0 BY <2>1, <2>3 DEF OutcomeInv, AnyJob
  <2>5. \A x \in h.pit : x.id # id BY <2>3, <2>4 DEF AppIds
  <2>6. AppIds(i.pit) = AppIds(h.pit) \cup {id}
    <3>1. ASSUME NEW n \in AppIds(i.pit) PROVE n \in AppIds(h.pit) \cup {id}
      BY <3>1, <1>5, <1>7 DEF AppIds
    <3>2. ASSUME NEW n \in AppIds(h.pit) PROVE n \in AppIds(i.pit)
      BY <3>2, <1>7 DEF AppIds
    <3>3. id \in AppIds(i.pit)
      <4>1. e \in i.pit /\ e.id = id BY <1>5, <1>7
      <4> QED BY <4>1, <2>4 DEF AppIds
    <3> QED BY <3>1, <3>2, <3>3
  <2>7. PendingOnce(i.pit) BY <2>1, <2>5, <1>5, <1>7 DEF OutcomeInv, PendingOnce
  <2> HIDE DEF id
  <2>8. Divided(h.issued, Waiting(h.posted), AppIds(i.pit), i.told, i.dropped, {})
    <3>1. Divided(h.issued, Waiting(h.posted), AppIds(h.pit) \cup {id}, h.told, h.dropped, {})
      BY <2>2, DividedTakes
    <3> QED BY <3>1, <2>6, <1>7
  <2> QED BY <1>3, <1>6, <1>7, <1>8, <2>1, <2>7, <2>8, Moved
<1>11. (TransportInv(h) => TransportInv(i)) /\ StillReads(h, i)
  BY <1>3, <1>9, TableStepKeeps
<1>12. CASE ~h.running
  <2>1. r = h BY <1>1, <1>12
  <2> QED BY <1>3, <1>12, <2>1 DEF GoodRun
<1>13. CASE h.running
  <2> DEFINE fits == job.ok
  <2>1. r = SendPacket(i, fits) /\ fits \in BOOLEAN BY <1>1, <1>13 DEF AnyJob
  <2> HIDE DEF fits, r
  <2>2. /\ r \in AnyFace /\ r.running = i.running
        /\ \A X, N : OutcomeInv(i, X, N) => OutcomeInv(r, X, N)
        /\ /\ i.running /\ TransportInv(i) /\ i.hasImpl
           /\ i.isConnecting \/ Reads(i)
           /\ i.isReceiving => Reads(i)
           => TransportInv(r) /\ ListenInv(r)
    BY <1>6, <2>1, SendPacketStep
  <2>3. ASSUME NEW N \in Nat, OutcomeInv(g, JobIds(job), N) PROVE OutcomeInv(r, {}, N)
    BY <1>10, <2>2, <2>3
  <2>4. ASSUME TransportInv(g), ListenInv(g) PROVE TransportInv(r) /\ ListenInv(r)
    <3>1. /\ TransportInv(h) /\ h.hasImpl
          /\ h.isConnecting \/ Reads(h)
          /\ h.isReceiving => Reads(h)
      BY <1>3, <1>13, <2>4 DEF ListenInv
    <3>2. /\ i.running /\ TransportInv(i) /\ i.hasImpl
          /\ i.isConnecting \/ Reads(i)
          /\ i.isReceiving => Reads(i)
      BY <3>1, <1>7, <1>11, <1>13 DEF SameTransport, StillReads
    <3> QED BY <3>2, <2>2
  <2>5. GoodRun(g, job, r) BY <1>3, <1>7, <2>2, <2>3, <2>4 DEF GoodRun
  <2> QED BY <2>5 DEF r
<1> QED BY <1>12, <1>13

LEMMA asyncRemovePendingInterestRun ==
    ASSUME NEW g \in AnyFace, NEW job, JobIds(job) = {}, NEW id \in Int
    PROVE  GoodRun(g, job, asyncRemovePendingInterest(g, id))
<1> DEFINE gone == {e \in g.pit : e.id = id}
           h == [g EXCEPT !.pit = @ \ gone, !.dropped = @ \cup AppIds(gone)]
           r == asyncRemovePendingInterest(g, id)
<1>1. r = IF h.pit = {} THEN PostOnEmpty(h) ELSE h BY DEF asyncRemovePendingInterest
<1>2. g.pit \in SUBSET Entry /\ gone \in SUBSET g.pit BY DEF AnyFace
<1> HIDE DEF gone
<1>3. AppIds(gone) \subseteq Int BY <1>2 DEF AppIds, Entry
<1>4. h \in AnyFace BY <1>2, <1>3 DEF AnyFace
<1>5. /\ h.pit = g.pit \ gone /\ h.prefixes = g.prefixes
      /\ h.issued = g.issued /\ h.told = g.told /\ h.dropped = g.dropped \cup AppIds(gone)
      /\ h.running = g.running /\ h.posted = g.posted /\ SameTransport(g, h)
  BY DEF AnyFace, SameTransport
<1> HIDE DEF h
<1>6. SameWaiting(g.posted, g.posted) /\ MoreJobs(g.posted, g.posted)
  BY SameWaitingSelf DEF AnyFace
<1>7. TableStep(g, h) BY <1>4, <1>5, <1>6 DEF TableStep
<1>8. ASSUME NEW X, NEW N, OutcomeInv(g, X, N) PROVE OutcomeInv(h, X, N)
  <2>1. PendingOnce(g.pit) BY <1>8 DEF OutcomeInv
  <2>2. /\ AppIds(h.pit) = AppIds(g.pit) \ AppIds(gone) /\ PendingOnce(h.pit)
        /\ AppIds(gone) \subseteq AppIds(g.pit)
    <3>1. /\ AppIds(g.pit \ gone) = AppIds(g.pit) \ AppIds(gone) /\ PendingOnce(g.pit \ gone)
          /\ AppIds(gone) \subseteq AppIds(g.pit)
      BY <1>2, <2>1, AppIdsFacts
    <3> QED BY <3>1, <1>5
  <2>3. Divided(g.issued, Waiting(g.posted), AppIds(g.pit), g.told, g.dropped, X)
    BY <1>8 DEF OutcomeInv
  <2>4. Divided(g.issued, Waiting(g.posted), AppIds(h.pit), h.told, h.dropped, X)
    <3>1. Divided(g.issued, Waiting(g.posted), AppIds(g.pit) \ AppIds(gone), g.told,
                  g.dropped \cup AppIds(gone), X)
      BY <2>2, <2>3, DividedMoves
    <3> QED BY <3>1, <2>2, <1>5
  <2> QED BY <1>4, <1>5, <1>6, <1>8, <2>2, <2>4, Moved
<1>9. Waits(h) => Waits(g) BY <1>5 DEF Waits
<1>10. GoodRun(g, job, h) BY <1>7, <1>8, <1>9, TableRun
<1>11. GoodRun(g, job, PostOnEmpty(h))
  <2> DEFINE k == PostOnEmpty(h)
  <2>1. k \in AnyFace /\ TableStep(h, k) /\ TransportStep(h, k) /\ SameTables(h, k)
    BY <1>4, PostOnEmptyStep
  <2> HIDE DEF k
  <2>2. TableStep(g, k) BY <1>4, <1>7, <2>1, TableStepTrans
  <2>3. Waits(k) => Waits(g) BY <1>9, <2>1 DEF Waits, SameTables
  <2>4. ASSUME NEW X, NEW N, OutcomeInv(g, X, N) PROVE OutcomeInv(k, X, N)
    BY <1>4, <1>8, <2>1, <2>4, TransportStepKeeps
  <2>5. GoodRun(g, job, k) BY <2>2, <2>3, <2>4, TableRun
  <2> QED BY <2>5 DEF k
<1> QED BY <1>1, <1>10, <1>11
\* The command gets a handler of its own, or there is nothing to unregister.
LEMMA asyncUnregisterPrefixRun ==
    ASSUME NEW g \in AnyFace, NEW job \in AnyJob, job.op = "unregister"
    PROVE  GoodRun(g, job, asyncUnregisterPrefix(g, job))
<1> DEFINE id == job.id
           r == asyncUnregisterPrefix(g, job)
<1>1. JobIds(job) = {id} /\ id \in Int BY DEF JobIds, IssueOp, AnyJob
<1>2. SameWaiting(g.posted, g.posted) /\ MoreJobs(g.posted, g.posted)
  BY SameWaitingSelf DEF AnyFace
<1>3. CASE job.prefix \notin g.prefixes
  <2>1. r = [g EXCEPT !.dropped = @ \cup {id}] BY <1>3 DEF asyncUnregisterPrefix
  <2>2. r \in AnyFace
    <3> DEFINE v == g.dropped \cup {id}
    <3>1. v \in SUBSET Int BY <1>1 DEF AnyFace
    <3>2. r = [g EXCEPT !.dropped = v] BY <2>1
    <3> HIDE DEF v, r, id
    <3>3. [g EXCEPT !.dropped = v] \in AnyFace BY <3>1 DEF AnyFace
    <3> QED BY <3>2, <3>3
  <2>3. /\ r.pit = g.pit /\ r.prefixes = g.prefixes
        /\ r.issued = g.issued /\ r.told = g.told /\ r.dropped = g.dropped \cup {id}
        /\ r.running = g.running /\ r.posted = g.posted /\ SameTransport(g, r)
    BY <2>1 DEF AnyFace, SameTransport
  <2> HIDE DEF r
  <2>4. TableStep(g, r) BY <1>2, <2>2, <2>3 DEF TableStep
  <2>5. ASSUME NEW N \in Nat, OutcomeInv(g, JobIds(job), N) PROVE OutcomeInv(r, {}, N)
    <3>1. Divided(g.issued, Waiting(g.posted), AppIds(g.pit), g.told, g.dropped, {id})
      BY <1>1, <2>5 DEF OutcomeInv
    <3>2. Divided(g.issued, Waiting(g.posted), AppIds(g.pit), g.told, g.dropped \cup {id}, {})
      BY <3>1, DividedTakes
    <3>3. PendingOnce(r.pit) BY <2>3, <2>5 DEF OutcomeInv
    <3> QED BY <3>2, <3>3, <1>2, <2>2, <2>3, <2>5, Moved
  <2>6. (TransportInv(g) => TransportInv(r)) /\ StillReads(g, r)
    BY <2>4, TableStepKeeps
  <2>7. ListenInv(g) => ListenInv(r)
    BY <2>3, <2>6 DEF ListenInv, SameTransport, Waits, StillReads
  <2>8. GoodRun(g, job, r) BY <2>2, <2>3, <2>5, <2>6, <2>7 DEF GoodRun
  <2> QED BY <2>8 DEF r
<1>4. CASE job.prefix \in g.prefixes
  <2> DEFINE s == g.filters \ {job.prefix}
             h == [g EXCEPT !.filters = s]
             next == [job EXCEPT !.op = "express"]
  <2>1. r = PostJob(h, next) BY <1>4 DEF asyncUnregisterPrefix
  <2>2. s \in FilterSet
    <3>1. g.filters \in FilterSet /\ job.prefix \in Int BY DEF AnyFace, AnyJob
    <3> QED BY <3>1, FilterSets
  <2> HIDE DEF s
  <2>3. h \in AnyFace BY <2>2 DEF AnyFace
  <2>4. /\ h.pit = g.pit /\ h.prefixes = g.prefixes
        /\ h.issued = g.issued /\ h.told = g.told /\ h.dropped = g.dropped
        /\ h.running = g.running /\ h.posted = g.posted /\ SameTransport(g, h)
    BY DEF AnyFace, SameTransport
  <2>5. next \in AnyJob /\ next.op = "express" /\ next.id = id
    <3>1. "express" \in JobOp BY DEF JobOp, IssueOp
    <3> QED BY <3>1 DEF AnyJob
  <2> HIDE DEF h, next
  <2>6. TableStep(g, h) BY <1>2, <2>3, <2>4 DEF TableStep
  <2>7. /\ r \in AnyFace /\ TableStep(h, r) /\ SameTables(h, r) /\ r.running = h.running
        /\ r.posted = Append(h.posted, next)
    BY <2>1, <2>3, <2>5, PostJobStep DEF SocketOp
  <2> HIDE DEF r
  <2>8. TableStep(g, r) BY <2>3, <2>6, <2>7, TableStepTrans
  <2>9. ASSUME NEW N \in Nat, OutcomeInv(g, JobIds(job), N) PROVE OutcomeInv(r, {}, N)
    <3>1. Divided(g.issued, Waiting(g.posted), AppIds(g.pit), g.told, g.dropped, {id})
      BY <1>1, <2>9 DEF OutcomeInv
    <3>2. Divided(g.issued, Waiting(g.posted) \cup {id}, AppIds(g.pit), g.told, g.dropped, {})
      BY <3>1, DividedTakes
    <3>3. id \notin Waiting(g.posted) BY <3>1 DEF Divided
    <3>4. g.posted \in Seq(AnyJob) BY DEF AnyFace
    <3>5. /\ Waiting(Append(g.posted, next)) = Waiting(g.posted) \cup {id}
          /\ WaitOnce(g.posted) => WaitOnce(Append(g.posted, next))
      BY <3>3, <3>4, <2>5, AppendWaiting DEF IssueOp
    <3> QED BY <3>2, <3>5, <2>4, <2>7, <2>9 DEF OutcomeInv, SameTables
  <2>10. (TransportInv(g) => TransportInv(r)) /\ StillReads(g, r)
    BY <2>8, TableStepKeeps
  <2>11. ListenInv(g) => ListenInv(r)
    BY <2>4, <2>7, <2>8, <2>10
       DEF ListenInv, TableStep, SameTransport, SameTables, Waits, StillReads
  <2>12. GoodRun(g, job, r) BY <2>4, <2>7, <2>9, <2>10, <2>11 DEF GoodRun
  <2> QED BY <2>12 DEF r
<1> QED BY <1>3, <1>4

\* Filters do not matter here.
LEMMA FilterRun ==
    ASSUME NEW g \in AnyFace, NEW job, JobIds(job) = {}, NEW s \in FilterSet
    PROVE  GoodRun(g, job, [g EXCEPT !.filters = s])
<1> DEFINE h == [g EXCEPT !.filters = s]
<1>1. h \in AnyFace BY DEF AnyFace
<1>2. /\ h.pit = g.pit /\ h.prefixes = g.prefixes
      /\ h.issued = g.issued /\ h.told = g.told /\ h.dropped = g.dropped
      /\ h.running = g.running /\ h.posted = g.posted /\ SameTransport(g, h)
  BY DEF AnyFace, SameTransport
<1> HIDE DEF h
<1>3. SameWaiting(g.posted, g.posted) /\ MoreJobs(g.posted, g.posted)
  BY SameWaitingSelf DEF AnyFace
<1>4. TableStep(g, h) BY <1>1, <1>2, <1>3 DEF TableStep
<1>5. ASSUME NEW X, NEW N, OutcomeInv(g, X, N) PROVE OutcomeInv(h, X, N)
  BY <1>2, <1>5 DEF OutcomeInv
<1>6. Waits(h) => Waits(g) BY <1>2 DEF Waits
<1>7. GoodRun(g, job, h) BY <1>4, <1>5, <1>6, TableRun
<1> QED BY <1>7, Zenon DEF h

\* Nobody waits when the transport is paused.
LEMMA onEmptyRun ==
    ASSUME NEW g \in AnyFace, NEW job, JobIds(job) = {}
    PROVE  GoodRun(g, job, onEmptyPitOrNoRegisteredPrefixes(g))
<1> DEFINE r == onEmptyPitOrNoRegisteredPrefixes(g)
<1>1. CASE g.pit = {} /\ g.prefixes = {}
  <2>1. r = pause(g) BY <1>1 DEF onEmptyPitOrNoRegisteredPrefixes
  <2>2. /\ r \in AnyFace /\ TransportStep(g, r) /\ r.running = g.running
        /\ TransportInv(g) => TransportInv(r)
        /\ (g.isReceiving => Reads(g)) => (r.isReceiving => Reads(r))
    BY <2>1, pauseStep
  <2> HIDE DEF r
  <2>3. ~Waits(r) BY <1>1, <2>2 DEF TransportStep, SameTables, Waits
  <2>4. ListenInv(g) => ListenInv(r) BY <2>2, <2>3 DEF ListenInv
  <2>5. ASSUME NEW N \in Nat, OutcomeInv(g, JobIds(job), N) PROVE OutcomeInv(r, {}, N)
    BY <2>2, <2>5, TransportStepKeeps
  <2>6. GoodRun(g, job, r) BY <2>2, <2>4, <2>5 DEF GoodRun
  <2> QED BY <2>6 DEF r
<1>2. CASE ~(g.pit = {} /\ g.prefixes = {})
  <2>1. r = g BY <1>2 DEF onEmptyPitOrNoRegisteredPrefixes
  <2> QED BY <2>1 DEF GoodRun
<1> QED BY <1>1, <1>2

LEMMA asyncShutdownRun ==
    ASSUME NEW g \in AnyFace, NEW job, JobIds(job) = {}
    PROVE  GoodRun(g, job, asyncShutdown(g))
<1> DEFINE h == ClearTables(g)
           c == closeTransport(h)
<1>1. /\ h \in AnyFace /\ TableStep(g, h) /\ h.running = g.running /\ ~Waits(h)
      /\ \A X, N : OutcomeInv(g, X, N) => OutcomeInv(h, X, N)
  BY ClearTablesStep
<1>2. asyncShutdown(g) = IF h.isConnected THEN c ELSE h BY DEF asyncShutdown
<1> HIDE DEF h
<1>3. GoodRun(g, job, h) BY <1>1, TableRun
<1>4. GoodRun(g, job, c)
  <2>1. /\ c \in AnyFace /\ TransportStep(h, c)
        /\ c.running => TransportInv(c) /\ ~c.isReceiving
    BY <1>1, closeTransportStep
  <2> HIDE DEF c
  <2>2. ~Waits(c) BY <1>1, <2>1 DEF TransportStep, SameTables, Waits
  <2>3. c.running => ListenInv(c) BY <2>1, <2>2 DEF ListenInv
  <2>4. ASSUME NEW N \in Nat, OutcomeInv(g, JobIds(job), N) PROVE OutcomeInv(c, {}, N)
    <3>1. OutcomeInv(h, {}, N) BY <1>1, <2>4
    <3> QED BY <3>1, <1>1, <2>1, TransportStepKeeps
  <2>5. c.running => g.running BY <1>1, <2>1 DEF TransportStep
  <2> QED BY <2>1, <2>3, <2>4, <2>5 DEF GoodRun
<1> QED BY <1>2, <1>3, <1>4

LEMMA constructRun ==
    ASSUME NEW g \in AnyFace, NEW job, JobIds(job) = {}
    PROVE  GoodRun(g, job, ensureConnected(g, FALSE))
<1> DEFINE r == ensureConnected(g, FALSE)
<1>1. r = IF g.isConnected THEN g ELSE connect(g) BY DEF ensureConnected
<1>2. CASE g.isConnected
  <2>1. r = g BY <1>1, <1>2
  <2> QED BY <2>1 DEF GoodRun
<1>3. CASE ~g.isConnected
  <2>1. r = connect(g) BY <1>1, <1>3
  <2>2. /\ r \in AnyFace /\ TransportStep(g, r)
        /\ r.running = g.running /\ r.isReceiving = g.isReceiving /\ r.queue = g.queue
        /\ StillReads(g, r)
        /\ TransportInv(g) => TransportInv(r) /\ r.isConnecting
    BY <1>3, <2>1, connectStep
  <2> HIDE DEF r
  <2>3. Waits(r) => Waits(g) BY <2>2 DEF TransportStep, SameTables, Waits
  <2>4. TransportInv(g) /\ ListenInv(g) => ListenInv(r)
    BY <2>2, <2>3 DEF ListenInv, StillReads
  <2>5. ASSUME NEW N \in Nat, OutcomeInv(g, JobIds(job), N) PROVE OutcomeInv(r, {}, N)
    BY <2>2, <2>5, TransportStepKeeps
  <2>6. GoodRun(g, job, r) BY <2>2, <2>4, <2>5 DEF GoodRun
  <2> QED BY <2>6 DEF r
<1> QED BY <1>2, <1>3
-----------------------------------------------------------------------------
(* Completions of the socket *)

Pop(g) == [g EXCEPT !.posted = Tail(@)]

LEMMA PopStep ==
    ASSUME NEW g \in AnyFace, g.posted # <<>>
    PROVE  /\ Pop(g) \in AnyFace /\ Head(g.posted) \in AnyJob
           /\ SameTables(g, Pop(g)) /\ SameTransport(g, Pop(g)) /\ Pop(g).running = g.running
           /\ \A N : OutcomeInv(g, {}, N) => OutcomeInv(Pop(g), JobIds(Head(g.posted)), N)
           /\ Head(g.posted).op # "receive" => StillReads(g, Pop(g))
           /\ Head(g.posted).old /\ Reads(g) => Reads(Pop(g))
           /\ TransportInv(g) => ImplInv(Pop(g)) /\ WriteInv(Pop(g))
           /\ TransportInv(g) /\ (Head(g.posted).op # "connect" \/ Head(g.posted).old) =>
                 TransportInv(Pop(g))
<1> DEFINE s == g.posted
           job == Head(s)
           t == Tail(s)
           p == Pop(g)
<1>1. s \in Seq(AnyJob) BY DEF AnyFace
<1>2. /\ job \in AnyJob /\ job = s[1] /\ t \in Seq(AnyJob)
      /\ Len(s) \in Nat \ {0} /\ Len(t) = Len(s) - 1
      /\ \A i \in 1 .. Len(s) - 1 : t[i] = s[i + 1]
  BY <1>1, PopJob
<1> HIDE DEF t, job
<1>3. p \in AnyFace BY <1>2 DEF Pop, AnyFace, t
<1>4. /\ SameTables(g, p) /\ SameTransport(g, p) /\ p.running = g.running /\ p.posted = t
  BY DEF Pop, AnyFace, SameTables, SameTransport, t
<1> HIDE DEF s, p
<1>5. /\ Len(s) \in Nat /\ 1 \in 1 .. Len(s)
      /\ \A i \in 1 .. Len(t) : i + 1 \in 1 .. Len(s) /\ t[i] = s[i + 1]
      /\ \A i \in 1 .. Len(s) : i # 1 => i - 1 \in 1 .. Len(t) /\ t[i - 1] = s[i]
  BY <1>2
<1>6. ASSUME NEW N, OutcomeInv(g, {}, N) PROVE OutcomeInv(p, JobIds(job), N)
  <2>1. WaitOnce(s) /\ Divided(g.issued, Waiting(s), AppIds(g.pit), g.told, g.dropped, {})
    BY <1>6 DEF OutcomeInv, s
  <2>2. WaitOnce(t)
    <3> SUFFICES ASSUME NEW i \in 1 .. Len(t), NEW j \in 1 .. Len(t),
                        t[i].op \in IssueOp, t[j].op \in IssueOp, t[i].id = t[j].id
                 PROVE  i = j
      BY DEF WaitOnce
    <3>1. i + 1 = j + 1 BY <1>5, <2>1 DEF WaitOnce
    <3>2. i \in Int /\ j \in Int OBVIOUS
    <3> QED BY <3>1, <3>2
  <2>3. Waiting(s) = Waiting(t) \cup JobIds(job)
    <3>1. ASSUME NEW n \in Waiting(s) PROVE n \in Waiting(t) \cup JobIds(job)
      <4>1. PICK i \in 1 .. Len(s) : s[i].op \in IssueOp /\ s[i].id = n BY <3>1 DEF Waiting
      <4>2. CASE i = 1 BY <4>1, <4>2, <1>2 DEF JobIds
      <4>3. CASE i # 1 BY <4>1, <4>3, <1>5 DEF Waiting
      <4> QED BY <4>2, <4>3
    <3>2. ASSUME NEW n \in Waiting(t) PROVE n \in Waiting(s)
      BY <3>2, <1>5 DEF Waiting
    <3>3. ASSUME NEW n \in JobIds(job) PROVE n \in Waiting(s)
      <4>1. s[1].op \in IssueOp /\ s[1].id = n BY <3>3, <1>2 DEF JobIds
      <4> QED BY <4>1, <1>5 DEF Waiting
    <3> QED BY <3>1, <3>2, <3>3
  <2>4. Waiting(t) \cap JobIds(job) = {}
    <3> SUFFICES ASSUME NEW n \in Waiting(t), n \in JobIds(job) PROVE FALSE OBVIOUS
    <3>1. PICK i \in 1 .. Len(t) : t[i].op \in IssueOp /\ t[i].id = n BY DEF Waiting
    <3>2. s[1].op \in IssueOp /\ s[1].id = n BY <1>2 DEF JobIds
    <3>3. i + 1 = 1 BY <3>1, <3>2, <1>5, <2>1 DEF WaitOnce
    <3> QED BY <3>1, <3>3
  <2>5. Divided(g.issued, Waiting(t), AppIds(g.pit), g.told, g.dropped, JobIds(job))
    BY <2>1, <2>3, <2>4 DEF Divided
  <2> QED BY <1>4, <1>6, <2>2, <2>5 DEF OutcomeInv, SameTables
<1>7. job.op # "receive" /\ Awaits(g) => Awaits(p)
  BY <1>2, <1>4, <1>5 DEF Awaits, SameTransport, s
<1>7a. (job.op # "receive" \/ job.old) /\ Reads(g) => Reads(p)
  <2>1. p.ops = g.ops /\ p.deaf = g.deaf BY <1>4 DEF SameTransport
  <2>2. ASSUME job.op # "receive" \/ job.old, Fresh(s, "receive") PROVE Fresh(t, "receive")
    <3>1. PICK i \in 1 .. Len(s) : s[i].op = "receive" /\ ~s[i].old BY <2>2 DEF Fresh
    <3>2. i # 1 BY <3>1, <2>2, <1>2
    <3> QED BY <3>1, <3>2, <1>5 DEF Fresh
  <2> QED BY <2>1, <2>2, <1>4 DEF Reads, s
<1>8. \A op : Fresh(t, op) => Fresh(s, op) BY <1>5 DEF Fresh
<1>9. ASSUME TransportInv(g) PROVE ImplInv(p) /\ WriteInv(p)
  <2>1. ImplInv(p) BY <1>4, <1>5, <1>9 DEF TransportInv, ImplInv, SameTransport, s
  <2>2. WriteInv(p) BY <1>4, <1>8, <1>9 DEF TransportInv, WriteInv, SameTransport, s
  <2> QED BY <2>1, <2>2
<1>10. ASSUME TransportInv(g), job.op # "connect" \/ job.old PROVE ConnectInv(p)
  <2> SUFFICES ASSUME p.isConnecting
               PROVE  /\ p.ops["connect"] > 0 \/ Fresh(t, "connect")
                      /\ ConnectFirst(t, p.ops["connect"])
    BY <1>4 DEF ConnectInv
  <2> DEFINE n == g.ops["connect"]
  <2>1. (n > 0 \/ Fresh(s, "connect")) /\ ConnectFirst(s, n) /\ p.ops["connect"] = n
    BY <1>4, <1>10 DEF TransportInv, ConnectInv, SameTransport, s
  <2>2. \A i \in 1 .. Len(s) : s[i].op = "connect" /\ ~s[i].old => i # 1
    BY <1>2, <1>10
  <2> HIDE DEF n
  <2>3. Fresh(s, "connect") => Fresh(t, "connect") BY <1>5, <2>2 DEF Fresh
  <2>4. ConnectFirst(t, n)
    <3> SUFFICES ASSUME NEW i \in 1 .. Len(t), t[i].op = "write", ~t[i].old, t[i].ok
                 PROVE  n = 0 /\ \E c \in 1 .. i - 1 : t[c].op = "connect" /\ ~t[c].old
      BY DEF ConnectFirst
    <3>1. i + 1 \in 1 .. Len(s) /\ t[i] = s[i + 1] BY <1>5
    <3>2. n = 0 /\ \E c \in 1 .. (i + 1) - 1 : s[c].op = "connect" /\ ~s[c].old
      BY <3>1, <2>1 DEF ConnectFirst
    <3>3. PICK c \in 1 .. (i + 1) - 1 : s[c].op = "connect" /\ ~s[c].old BY <3>2
    <3>4. c \in 1 .. Len(s) /\ c # 1 BY <3>1, <3>3, <1>5, <2>2
    <3>5. c - 1 \in 1 .. i - 1 /\ t[c - 1] = s[c] BY <3>4, <1>5
    <3> QED BY <3>2, <3>3, <3>5
  <2> QED BY <2>1, <2>3, <2>4
<1> QED BY <1>2, <1>3, <1>4, <1>6, <1>7, <1>7a, <1>9, <1>10 DEF TransportInv, StillReads, p, job, s
\* A step from a face that is right leads to one that is.
Keeps(g, h) ==
    /\ h \in AnyFace /\ (h.running => g.running)
    /\ \A N \in Nat : h.running /\ OutcomeInv(g, {}, N) => OutcomeInv(h, {}, N)
    /\ h.running /\ TransportInv(g) /\ ListenInv(g) => TransportInv(h) /\ ListenInv(h)

\* What the handler of a completion has to do, that was taken from a face that is right.
GoodEnd(g, h) ==
    /\ h \in AnyFace
    /\ h.running => g.running
    /\ \A N \in Nat : h.running /\ OutcomeInv(Pop(g), {}, N) => OutcomeInv(h, {}, N)
    /\ h.running /\ TransportInv(g) /\ ListenInv(g) => TransportInv(h) /\ ListenInv(h)

LEMMA CloseEnd ==
    ASSUME NEW g \in AnyFace, g.posted # <<>>
    PROVE  GoodEnd(g, Throw(closeTransport(Pop(g))))
<1> DEFINE p == Pop(g)
           k == Throw(closeTransport(p))
<1>1. p \in AnyFace /\ p.running = g.running BY PopStep
<1> HIDE DEF p
<1>2. LET h == Throw(closeTransport(p))
      IN  /\ h \in AnyFace
          /\ h.running => p.running /\ TransportInv(h) /\ ListenInv(h)
          /\ \A X, N : OutcomeInv(p, X, N) => OutcomeInv(h, X, N)
  BY <1>1, CloseAndThrow
<1>3. /\ k \in AnyFace
      /\ k.running => p.running /\ TransportInv(k) /\ ListenInv(k)
      /\ \A X, N : OutcomeInv(p, X, N) => OutcomeInv(k, X, N)
  BY <1>2
<1> HIDE DEF k
<1>4. GoodEnd(g, k) BY <1>1, <1>3 DEF GoodEnd, p
<1> QED BY <1>4 DEF k, p

LEMMA connectHandlerEnd ==
    ASSUME NEW g \in AnyFace, g.posted # <<>>, NEW job, job = Head(g.posted),
           job.op = "connect"
    PROVE  GoodEnd(g, connectHandler(Pop(g), job))
<1> DEFINE p == Pop(g)
           r == connectHandler(p, job)
           h == [p EXCEPT !.isConnecting = FALSE, !.isConnected = TRUE, !.ops["timer"] = 0]
           o == [p.ops EXCEPT !["timer"] = 0]
<1>1. r = IF ~job.ok THEN Throw(closeTransport(p))
          ELSE IF job.old THEN [p EXCEPT !.isConnected = TRUE]
          ELSE IF h.queue > 0 THEN StartOp(resume(h), "write") ELSE h
  BY DEF connectHandler
<1>2. /\ p \in AnyFace /\ job \in AnyJob
      /\ SameTables(g, p) /\ SameTransport(g, p) /\ p.running = g.running
      /\ StillReads(g, p)
      /\ TransportInv(g) => ImplInv(p) /\ WriteInv(p)
      /\ TransportInv(g) /\ job.old => TransportInv(p)
  BY PopStep
<1>3. CASE ~job.ok
  <2>1. r = Throw(closeTransport(Pop(g))) BY <1>1, <1>3
  <2> QED BY <2>1, CloseEnd
<1> HIDE DEF p
<1>4. CASE job.ok /\ job.old
  <2> DEFINE c == [p EXCEPT !.isConnected = TRUE]
  <2>1. r = c BY <1>1, <1>4
  <2>2. c \in AnyFace
    <3>1. ASSUME NEW b \in BOOLEAN PROVE [p EXCEPT !.isConnected = b] \in AnyFace
      BY <1>2 DEF AnyFace
    <3>2. TRUE \in BOOLEAN OBVIOUS
    <3> QED BY <3>1, <3>2, Zenon
  <2>3. /\ c.isConnected /\ c.hasImpl = p.hasImpl /\ c.isConnecting = p.isConnecting
        /\ c.queue = p.queue /\ c.isReceiving = p.isReceiving /\ c.ops = p.ops
        /\ c.posted = p.posted /\ c.deaf = p.deaf /\ c.running = p.running /\ SameTables(p, c)
    BY <1>2 DEF AnyFace, SameTables
  <2> HIDE DEF c
  <2>4. SameWaiting(p.posted, p.posted) BY <1>2, SameWaitingSelf DEF AnyFace
  <2>5. TransportStep(p, c) BY <2>2, <2>3, <2>4 DEF TransportStep
  <2>6. TransportInv(p) => TransportInv(c)
    BY <2>3 DEF TransportInv, ImplInv, WriteInv, ConnectInv
  <2>7. StillReads(p, c) BY <2>3 DEF Awaits, Reads, StillReads
  <2>8. ListenInv(g) => ListenInv(c)
    BY <1>2, <2>3, <2>7 DEF ListenInv, SameTables, SameTransport, Waits, StillReads
  <2>9. ASSUME NEW N \in Nat, OutcomeInv(p, {}, N) PROVE OutcomeInv(c, {}, N)
    BY <1>2, <2>5, <2>9, TransportStepKeeps
  <2>10. GoodEnd(g, c) BY <1>2, <1>4, <2>2, <2>3, <2>6, <2>8, <2>9 DEF GoodEnd, p
  <2> QED BY <2>1, <2>10 DEF p
<1>5. CASE job.ok /\ ~job.old
  <2>1. r = IF h.queue > 0 THEN StartOp(resume(h), "write") ELSE h BY <1>1, <1>5
  <2>2. p.ops \in [SocketOp -> Nat] BY <1>2 DEF AnyFace
  <2>3. o \in [SocketOp -> Nat] /\ o["write"] = p.ops["write"] /\ o["receive"] = p.ops["receive"]
    BY <2>2 DEF SocketOp
  <2>4. h = [p EXCEPT !.isConnecting = FALSE, !.isConnected = TRUE, !.ops = o]
    BY <1>2 DEF AnyFace
  <2>5. h \in AnyFace
    <3>1. ASSUME NEW a \in BOOLEAN, NEW b \in BOOLEAN, NEW q \in [SocketOp -> Nat]
          PROVE  [p EXCEPT !.isConnecting = a, !.isConnected = b, !.ops = q] \in AnyFace
      BY <1>2 DEF AnyFace
    <3>2. FALSE \in BOOLEAN /\ TRUE \in BOOLEAN OBVIOUS
    <3> HIDE DEF o
    <3>3. [p EXCEPT !.isConnecting = FALSE, !.isConnected = TRUE, !.ops = o] \in AnyFace
      BY <3>1, <3>2, <2>3, Zenon
    <3> QED BY <3>3, <2>4
  <2>6. /\ ~h.isConnecting /\ h.isConnected /\ h.hasImpl = p.hasImpl /\ h.ops = o
        /\ h.queue = p.queue /\ h.isReceiving = p.isReceiving
        /\ h.posted = p.posted /\ h.deaf = p.deaf /\ h.running = p.running /\ SameTables(p, h)
    BY <1>2, <2>4 DEF AnyFace, SameTables
  <2> HIDE DEF h, o
  <2>7. SameWaiting(p.posted, p.posted) BY <1>2, SameWaitingSelf DEF AnyFace
  <2>8. TransportStep(p, h) BY <2>5, <2>6, <2>7 DEF TransportStep
  <2>9. StillReads(p, h) BY <2>3, <2>6 DEF Awaits, Reads, StillReads
  \* The completion is of the transport that the face has.
  <2>10. ASSUME TransportInv(g)
         PROVE  p.hasImpl /\ TransportInv(h)
    <3>1. g.posted \in Seq(AnyJob) BY DEF AnyFace
    <3>2. job = g.posted[1] /\ 1 \in 1 .. Len(g.posted) BY <3>1, PopJob
    <3>3. g.hasImpl BY <3>2, <1>5, <2>10 DEF TransportInv, ImplInv, SocketOp
    <3>4. p.hasImpl BY <3>3, <1>2 DEF SameTransport
    <3>5. ImplInv(h) BY <3>4, <1>2, <2>6, <2>10 DEF ImplInv
    <3>6. WriteInv(h) BY <1>2, <2>3, <2>6, <2>10 DEF WriteInv
    <3>7. ConnectInv(h) BY <2>6 DEF ConnectInv
    <3> QED BY <3>4, <3>5, <3>6, <3>7 DEF TransportInv
  <2>11. ASSUME NEW N \in Nat, OutcomeInv(p, {}, N) PROVE OutcomeInv(h, {}, N)
    BY <1>2, <2>8, <2>11, TransportStepKeeps
  <2>12. CASE ~(h.queue > 0)
    <3>1. r = h BY <2>1, <2>12
    <3>2. ListenInv(g) => ListenInv(h)
      BY <1>2, <2>6, <2>9, <2>12 DEF ListenInv, SameTables, SameTransport, Waits, StillReads
    <3>3. GoodEnd(g, h) BY <1>2, <2>5, <2>6, <2>10, <2>11, <3>2 DEF GoodEnd, p
    <3> QED BY <3>1, <3>3 DEF p
  <2>13. CASE h.queue > 0
    <3> DEFINE op == "write"
               u == resume(h)
               k == StartOp(u, op)
    <3>1. r = k BY <2>1, <2>13
    <3>2. /\ u \in AnyFace /\ TransportStep(h, u)
          /\ StillReads(h, u)
          /\ u.running =>
                /\ u.hasImpl /\ u.queue = h.queue
                /\ u.isConnecting = h.isConnecting
                /\ h.isReceiving \/ h.isConnecting \/ Reads(u)
                /\ u.isReceiving => h.isReceiving \/ Reads(u)
                /\ TransportInv(h) => TransportInv(u)
      BY <2>5, resumeStep
    <3>3. op \in SocketOp \ {"connect"} BY DEF SocketOp
    <3> HIDE DEF u, op
    <3>4. /\ k \in AnyFace /\ TransportStep(u, k) /\ k.running = u.running
          /\ k.isReceiving = u.isReceiving
          /\ StillReads(u, k)
      BY <3>2, <3>3, StartOpStep, StartedAwaits
    <3>5. k.running /\ TransportInv(g) => TransportInv(k)
      BY <2>10, <2>13, <3>2, <3>3, <3>4, Started
    <3> HIDE DEF k
    <3>6. ASSUME k.running, ListenInv(g) PROVE ListenInv(k)
      <4>1. h.isReceiving => Reads(h)
        BY <1>2, <2>6, <2>9, <3>6 DEF ListenInv, SameTransport, StillReads
      <4>2. Reads(k) BY <4>1, <2>6, <3>2, <3>4, <3>6 DEF StillReads
      <4> QED BY <4>2, ReadsAwaits DEF ListenInv
    <3>7. ASSUME NEW N \in Nat, OutcomeInv(p, {}, N) PROVE OutcomeInv(k, {}, N)
      <4>1. OutcomeInv(h, {}, N) BY <2>11, <3>7
      <4>2. OutcomeInv(u, {}, N) BY <4>1, <2>5, <3>2, TransportStepKeeps
      <4> QED BY <4>2, <3>2, <3>4, TransportStepKeeps
    <3>8. k.running => g.running BY <1>2, <2>6, <3>2, <3>4 DEF TransportStep
    <3>9. GoodEnd(g, k) BY <3>4, <3>5, <3>6, <3>7, <3>8 DEF GoodEnd, p
    <3> QED BY <3>1, <3>9 DEF p
  <2> QED BY <2>12, <2>13
<1> QED BY <1>2, <1>3, <1>4, <1>5 DEF p
\* A write that ends removes a packet that is in the queue. Until the transport is
\* connected none ends, so that the packet that starts the first read stays there.
LEMMA handleAsyncWriteEnd ==
    ASSUME NEW g \in AnyFace, g.posted # <<>>, NEW job, job = Head(g.posted),
           job.op = "write"
    PROVE  GoodEnd(g, handleAsyncWrite(Pop(g), job))
<1> DEFINE p == Pop(g)
           r == handleAsyncWrite(p, job)
           s == Outdate(p.posted, {"write"})
           h == [p EXCEPT !.queue = @ - 1, !.posted = Outdate(@, {"write"}),
                          !.ops["write"] = 0, !.ops["rewrite"] = @ + p.ops["write"]]
           o == [p.ops EXCEPT !["write"] = 0, !["rewrite"] = @ + p.ops["write"]]
<1>1. r = IF ~job.ok THEN Throw(closeTransport(p))
          ELSE IF ~p.isConnected THEN p
          ELSE IF job.old THEN Invalid(p)
          ELSE IF h.queue > 0 THEN StartOp(h, "write") ELSE h
  BY DEF handleAsyncWrite
<1>2. /\ p \in AnyFace /\ job \in AnyJob
      /\ SameTables(g, p) /\ SameTransport(g, p) /\ p.running = g.running
      /\ StillReads(g, p)
      /\ TransportInv(g) => TransportInv(p)
  BY PopStep
<1>3. CASE ~job.ok
  <2>1. r = Throw(closeTransport(Pop(g))) BY <1>1, <1>3
  <2> QED BY <2>1, CloseEnd
<1> HIDE DEF p
<1>4. ListenInv(g) => ListenInv(p)
  BY <1>2 DEF ListenInv, SameTables, SameTransport, Waits, StillReads
<1>5. CASE job.ok /\ ~p.isConnected
  <2>1. r = p BY <1>1, <1>5
  <2>2. GoodEnd(g, p) BY <1>2, <1>4 DEF GoodEnd, p
  <2> QED BY <2>1, <2>2 DEF p
<1>6. CASE job.ok /\ p.isConnected /\ job.old
  <2>1. r = Invalid(p) BY <1>1, <1>6
  <2>2. GoodEnd(g, Invalid(p)) BY <1>2, InvalidStep DEF GoodEnd
  <2> QED BY <2>1, <2>2 DEF p
<1>7. CASE job.ok /\ p.isConnected /\ ~job.old
  <2>1. r = IF h.queue > 0 THEN StartOp(h, "write") ELSE h BY <1>1, <1>7
  <2>2. p.ops \in [SocketOp -> Nat] /\ p.posted \in Seq(AnyJob) /\ p.queue \in Int
    BY <1>2 DEF AnyFace
  <2>3. o \in [SocketOp -> Nat] /\ o["write"] = 0 /\ o["receive"] = p.ops["receive"]
    BY <2>2 DEF SocketOp
  <2>4. /\ s \in Seq(AnyJob) /\ Len(s) = Len(p.posted)
        /\ \A i \in 1 .. Len(s) : s[i].op = p.posted[i].op /\ s[i].id = p.posted[i].id
        /\ \A i \in 1 .. Len(s) : s[i].op = "write" => s[i].old
        /\ \A i \in 1 .. Len(s) : s[i].op # "write" => s[i].old = p.posted[i].old
    <3> DEFINE S == {"write"}
               q == p.posted
    <3> HIDE DEF S, q
    <3>1. q \in Seq(AnyJob) BY <2>2 DEF q
    <3>2. /\ Outdate(q, S) \in Seq(AnyJob)
          /\ Len(Outdate(q, S)) = Len(q)
          /\ \A i \in 1 .. Len(q) :
                /\ Outdate(q, S)[i].op = q[i].op /\ Outdate(q, S)[i].id = q[i].id
                /\ Outdate(q, S)[i].old = (q[i].old \/ q[i].op \in S)
      BY <3>1, OutdateFacts
    <3>3. s = Outdate(q, S) BY DEF S, q
    <3> HIDE DEF s
    <3>4. S = {"write"} /\ q = p.posted BY DEF S, q
    <3>5. \A i \in 1 .. Len(q) : q[i].old \in BOOLEAN
      <4>1. \A i \in 1 .. Len(q) : q[i] \in AnyJob BY <3>1, ElementOfSeq
      <4> QED BY <4>1 DEF AnyJob
    <3>6. ASSUME NEW i \in 1 .. Len(q)
          PROVE  /\ s[i].op = q[i].op /\ s[i].id = q[i].id
                 /\ s[i].op = "write" => s[i].old
                 /\ s[i].op # "write" => s[i].old = q[i].old
      <4>1. /\ s[i].op = q[i].op /\ s[i].id = q[i].id
            /\ s[i].old = (q[i].old \/ q[i].op \in S)
        BY <3>2, <3>3
      <4>2. q[i].op \in S <=> s[i].op = "write" BY <3>4, <4>1
      <4>3. q[i].old \in BOOLEAN BY <3>5
      <4> HIDE DEF q
      <4> QED BY <4>1, <4>2, <4>3
    <3>7. s \in Seq(AnyJob) /\ Len(s) = Len(q) BY <3>2, <3>3
    <3> QED BY <3>4, <3>6, <3>7
  <2>5. h = [p EXCEPT !.queue = p.queue - 1, !.posted = s, !.ops = o]
    BY <1>2 DEF AnyFace
  <2> HIDE DEF s, o, h
  <2>6. h \in AnyFace
    <3>1. ASSUME NEW n \in Int
          PROVE  [p EXCEPT !.queue = n, !.posted = s, !.ops = o] \in AnyFace
      BY <1>2, <2>3, <2>4 DEF AnyFace
    <3>2. p.queue - 1 \in Int BY <2>2
    <3> QED BY <3>1, <3>2, <2>5
  <2>7. /\ h.queue = p.queue - 1 /\ h.posted = s /\ h.ops = o
        /\ h.hasImpl = p.hasImpl /\ h.isConnecting = p.isConnecting
        /\ h.isConnected = p.isConnected /\ h.isReceiving = p.isReceiving
        /\ h.deaf = p.deaf /\ h.running = p.running /\ SameTables(p, h)
    BY <1>2, <2>5 DEF AnyFace, SameTables
  <2>8. SameWaiting(p.posted, s)
    <3>1. Len(s) \in Nat BY <2>4, LenProperties
    <3> QED BY <2>4, <3>1 DEF SameWaiting
  <2>9. TransportStep(p, h) BY <2>6, <2>7, <2>8 DEF TransportStep
  <2>10. StillReads(p, h)
    <3>1. Awaits(p) => Awaits(h) BY <2>3, <2>4, <2>7 DEF Awaits
    <3>2. Reads(p) => Reads(h) BY <2>3, <2>4, <2>7 DEF Reads, Fresh
    <3> QED BY <3>1, <3>2 DEF StillReads
  <2>11. ASSUME TransportInv(g)
         PROVE  p.hasImpl /\ ~p.isConnecting /\ TransportInv(h)
    <3>1. g.posted \in Seq(AnyJob) BY DEF AnyFace
    <3>2. job = g.posted[1] /\ 1 \in 1 .. Len(g.posted) BY <3>1, PopJob
    <3>3. g.hasImpl BY <3>2, <1>7, <2>11 DEF TransportInv, ImplInv, SocketOp
    <3>4. g.queue > 0 BY <3>2, <1>7, <2>11 DEF TransportInv, WriteInv, Fresh
    <3>5. ~g.isConnecting
      <4> SUFFICES ASSUME g.isConnecting PROVE FALSE OBVIOUS
      <4>1. \E c \in 1 .. 1 - 1 : g.posted[c].op = "connect" /\ ~g.posted[c].old
        BY <3>2, <1>7, <2>11 DEF TransportInv, ConnectInv, ConnectFirst
      <4> QED BY <4>1
    <3>6. p.hasImpl /\ ~p.isConnecting /\ p.queue > 0 BY <3>3, <3>4, <3>5, <1>2 DEF SameTransport
    <3>7. ImplInv(h) BY <3>6, <1>7, <2>2, <2>7 DEF ImplInv
    <3>8. WriteInv(h) BY <2>3, <2>4, <2>7 DEF WriteInv, Fresh
    <3>9. ConnectInv(h) BY <3>6, <2>7 DEF ConnectInv
    <3> QED BY <3>6, <3>7, <3>8, <3>9 DEF TransportInv
  <2>12. ASSUME TransportInv(g), ListenInv(g) PROVE ListenInv(h)
    <3>1. ~p.isConnecting /\ ListenInv(p) BY <2>11, <2>12, <1>4
    <3> QED BY <3>1, <2>7, <2>10 DEF ListenInv, SameTables, Waits, StillReads
  <2>13. ASSUME NEW N \in Nat, OutcomeInv(p, {}, N) PROVE OutcomeInv(h, {}, N)
    BY <1>2, <2>9, <2>13, TransportStepKeeps
  <2>14. CASE ~(h.queue > 0)
    <3>1. r = h BY <2>1, <2>14
    <3>2. GoodEnd(g, h) BY <1>2, <2>6, <2>7, <2>11, <2>12, <2>13 DEF GoodEnd, p
    <3> QED BY <3>1, <3>2 DEF p
  <2>15. CASE h.queue > 0
    <3> DEFINE op == "write"
               k == StartOp(h, op)
    <3>1. r = k BY <2>1, <2>15
    <3>2. op \in SocketOp \ {"connect"} BY DEF SocketOp
    <3> HIDE DEF op
    <3>3. /\ k \in AnyFace /\ TransportStep(h, k) /\ k.running = h.running
          /\ k.isReceiving = h.isReceiving /\ k.isConnecting = h.isConnecting
          /\ k.queue = h.queue
          /\ StillReads(h, k)
      BY <2>6, <3>2, StartOpStep, StartedAwaits
    <3>4. ASSUME TransportInv(g) PROVE TransportInv(k)
      <4>1. TransportInv(h) /\ h.hasImpl BY <2>7, <2>11, <3>4
      <4> QED BY <4>1, <2>6, <2>15, <3>2, Started
    <3> HIDE DEF k
    <3>5. ListenInv(h) => ListenInv(k)
      BY <3>3 DEF ListenInv, TransportStep, SameTables, Waits, StillReads
    <3>6. ASSUME NEW N \in Nat, OutcomeInv(p, {}, N) PROVE OutcomeInv(k, {}, N)
      BY <2>6, <2>13, <3>3, <3>6, TransportStepKeeps
    <3>7. GoodEnd(g, k)
      BY <1>2, <2>7, <2>12, <3>3, <3>4, <3>5, <3>6 DEF GoodEnd, p
    <3> QED BY <3>1, <3>7 DEF p
  <2> QED BY <2>14, <2>15
<1> QED BY <1>2, <1>3, <1>5, <1>6, <1>7 DEF p

\* A handler that is not of the socket leaves a face that is right.
LEMMA RunEnd ==
    ASSUME NEW g \in AnyFace, g.posted # <<>>, NEW job, job = Head(g.posted),
           job.op \notin SocketOp, NEW h, GoodRun(Pop(g), job, h)
    PROVE  Keeps(g, h)
<1> DEFINE p == Pop(g)
<1>1. /\ p \in AnyFace
      /\ SameTables(g, p) /\ SameTransport(g, p) /\ p.running = g.running
      /\ \A N : OutcomeInv(g, {}, N) => OutcomeInv(p, JobIds(job), N)
      /\ StillReads(g, p)
      /\ TransportInv(g) => TransportInv(p)
  BY PopStep DEF SocketOp
<1> HIDE DEF p
<1>2. ListenInv(g) => ListenInv(p)
  BY <1>1 DEF ListenInv, SameTables, SameTransport, Waits, StillReads
<1>3. GoodRun(p, job, h) BY DEF p
<1> QED BY <1>1, <1>2, <1>3 DEF GoodRun, Keeps
LEMMA SocketEnd ==
    ASSUME NEW g \in AnyFace, g.posted # <<>>, Head(g.posted).op \in SocketOp,
           NEW h, GoodEnd(g, h)
    PROVE  Keeps(g, h)
<1>1. \A N : OutcomeInv(g, {}, N) => OutcomeInv(Pop(g), JobIds(Head(g.posted)), N)
  BY PopStep
<1>2. JobIds(Head(g.posted)) = {} BY DEF JobIds, IssueOp, SocketOp
<1> QED BY <1>1, <1>2 DEF GoodEnd, Keeps

LEMMA RunJobKeeps ==
    ASSUME NEW g \in AnyFace, g.posted # <<>>, ~IsRead(Head(g.posted))
    PROVE  Keeps(g, RunJob(Pop(g), Head(g.posted)))
<1> DEFINE job == Head(g.posted)
           p == Pop(g)
           h == RunJob(p, job)
<1>1. p \in AnyFace /\ job \in AnyJob BY PopStep
<1>2. job.op \in JobOp /\ job.id \in Int /\ job.ok \in BOOLEAN BY <1>1 DEF AnyJob
<1>3. p.filters \in FilterSet BY <1>1 DEF AnyFace
<1>4. ASSUME job.op \in SocketOp PROVE Keeps(g, h)
  <2>1. CASE job.op = "connect"
    <3>1. h = connectHandler(Pop(g), job) BY <2>1 DEF RunJob
    <3>2. GoodEnd(g, h) BY <2>1, <3>1, connectHandlerEnd
    <3> QED BY <3>2, <1>4, SocketEnd
  <2>2. CASE job.op = "write"
    <3>1. h = handleAsyncWrite(Pop(g), job) BY <2>2 DEF RunJob
    <3>2. GoodEnd(g, h) BY <2>2, <3>1, handleAsyncWriteEnd
    <3> QED BY <3>2, <1>4, SocketEnd
  <2>3. CASE job.op \in {"timer", "receive"}
    <3>1. h = Throw(closeTransport(Pop(g))) BY <2>3 DEF RunJob, IsRead
    <3>2. GoodEnd(g, h) BY <3>1, CloseEnd
    <3> QED BY <3>2, <1>4, SocketEnd
  <2> QED BY <1>2, <1>4, <2>1, <2>2, <2>3 DEF SocketOp, JobOp, IssueOp
<1>5. ASSUME job.op \notin SocketOp, GoodRun(p, job, h) PROVE Keeps(g, h)
  <2> DEFINE j == Head(g.posted)
             k == RunJob(Pop(g), j)
  <2>1. j.op \notin SocketOp /\ GoodRun(Pop(g), j, k) BY <1>5
  <2> HIDE DEF k
  <2>2. Keeps(g, k) BY <2>1, RunEnd
  <2> QED BY <2>2 DEF k
<1>6. job.op \notin IssueOp => JobIds(job) = {} BY DEF JobIds
<1> SUFFICES Keeps(g, h) OBVIOUS
<1> HIDE DEF p, job
<1>7. CASE job.op = "construct"
  <2>1. h = ensureConnected(p, FALSE) BY <1>7 DEF RunJob
  <2>2. GoodRun(p, job, h) BY <2>1, <1>1, <1>6, <1>7, constructRun DEF IssueOp
  <2> QED BY <2>2, <1>5, <1>7 DEF SocketOp
<1>8. CASE job.op = "express"
  <2>1. h = asyncExpressInterest(p, job) BY <1>8 DEF RunJob
  <2>2. GoodRun(p, job, h) BY <2>1, <1>1, <1>8, asyncExpressInterestRun
  <2> QED BY <2>2, <1>5, <1>8 DEF SocketOp
<1>9. CASE job.op = "removePending"
  <2>1. h = asyncRemovePendingInterest(p, job.id) BY <1>9 DEF RunJob
  <2>2. GoodRun(p, job, h)
    BY <2>1, <1>1, <1>2, <1>6, <1>9, asyncRemovePendingInterestRun DEF IssueOp
  <2> QED BY <2>2, <1>5, <1>9 DEF SocketOp
<1>10. CASE job.op = "removeAll"
  <2>1. h = ClearPit(p) BY <1>10 DEF RunJob
  <2>2. /\ TableStep(p, h) /\ h.pit = {} /\ h.prefixes = p.prefixes
        /\ \A X, N : OutcomeInv(p, X, N) => OutcomeInv(h, X, N)
    BY <2>1, <1>1, ClearPitStep
  <2>3. Waits(h) => Waits(p) BY <2>2 DEF Waits
  <2>4. JobIds(job) = {} BY <1>6, <1>10 DEF IssueOp
  <2> HIDE DEF h
  <2>5. GoodRun(p, job, h) BY <2>2, <2>3, <2>4, <1>1, TableRun
  <2> QED BY <2>5, <1>5, <1>10 DEF SocketOp
<1>11. CASE job.op = "putData"
  <2>1. h = asyncPutData(p, job.ok) BY <1>11 DEF RunJob
  <2>2. GoodRun(p, job, h) BY <2>1, <1>1, <1>2, <1>6, <1>11, asyncPutDataRun DEF IssueOp
  <2> QED BY <2>2, <1>5, <1>11 DEF SocketOp
<1>12. CASE job.op = "putNack"
  <2>1. h = asyncPutNack(p, job.ok) BY <1>12 DEF RunJob
  <2>2. GoodRun(p, job, h) BY <2>1, <1>1, <1>2, <1>6, <1>12, asyncPutNackRun DEF IssueOp
  <2> QED BY <2>2, <1>5, <1>12 DEF SocketOp
<1>13. CASE job.op \in {"setFilter", "unsetFilter"}
  <2> DEFINE n == -job.id
             s == IF job.op = "setFilter" THEN p.filters \cup {n} ELSE p.filters \ {n}
  <2>1. s \in FilterSet
    <3>1. n \in Int BY <1>2
    <3> HIDE DEF n
    <3> QED BY <3>1, <1>3, FilterSets
  <2>2. h = [p EXCEPT !.filters = s] BY <1>13 DEF RunJob
  <2>3. JobIds(job) = {} BY <1>6, <1>13 DEF IssueOp
  <2> HIDE DEF s
  <2>4. GoodRun(p, job, [p EXCEPT !.filters = s]) BY <2>1, <2>3, <1>1, FilterRun, Zenon
  <2> QED BY <2>2, <2>4, <1>5, <1>13 DEF SocketOp
<1>14. CASE job.op = "unregister"
  <2>1. h = asyncUnregisterPrefix(p, job) BY <1>14 DEF RunJob
  <2>2. GoodRun(p, job, h) BY <2>1, <1>1, <1>14, asyncUnregisterPrefixRun
  <2> QED BY <2>2, <1>5, <1>14 DEF SocketOp
<1>15. CASE job.op = "onEmpty"
  <2>1. h = onEmptyPitOrNoRegisteredPrefixes(p) BY <1>15 DEF RunJob
  <2>2. GoodRun(p, job, h) BY <2>1, <1>1, <1>6, <1>15, onEmptyRun DEF IssueOp
  <2> QED BY <2>2, <1>5, <1>15 DEF SocketOp
<1>16. CASE job.op = "shutdown"
  <2>1. h = asyncShutdown(p) BY <1>16 DEF RunJob
  <2>2. GoodRun(p, job, h) BY <2>1, <1>1, <1>6, <1>16, asyncShutdownRun DEF IssueOp
  <2> QED BY <2>2, <1>5, <1>16 DEF SocketOp
<1> QED
  BY <1>2, <1>4, <1>7, <1>8, <1>9, <1>10, <1>11, <1>12, <1>13, <1>14, <1>15, <1>16
     DEF JobOp, IssueOp
-----------------------------------------------------------------------------
(* Reads, timeouts and operations of the socket that end *)

\* A completion may be posted when its operation was of the transport that the face has,
\* and that of a write after that of the attempt to connect.
LEMMA PostedInv ==
    ASSUME NEW g \in AnyFace, NEW job \in AnyJob, ImplInv(g), WriteInv(g),
           job.op \in SocketOp /\ ~job.old => g.hasImpl,
           job.op = "write" /\ ~job.old => g.queue > 0,
           g.isConnecting =>
              /\ ConnectFirst(g.posted, g.ops["connect"])
              /\ \/ g.ops["connect"] > 0
                 \/ Fresh(g.posted, "connect")
                 \/ job.op = "connect" /\ ~job.old,
           g.isConnecting /\ job.op = "write" /\ ~job.old /\ job.ok =>
              g.ops["connect"] = 0 /\ Fresh(g.posted, "connect")
    PROVE  TransportInv(PostJob(g, job))
<1> DEFINE h == PostJob(g, job)
           s == g.posted
           t == h.posted
<1>1. h \in AnyFace /\ SameTransport(g, h) /\ t = Append(s, job) BY PostJobStep
<1>2. s \in Seq(AnyJob) BY DEF AnyFace
<1>3. /\ Len(s) \in Nat /\ Len(t) = Len(s) + 1
      /\ \A i \in 1 .. Len(s) : t[i] = s[i]
      /\ t[Len(s) + 1] = job
  BY <1>1, <1>2, AppendJob
<1>4. /\ \A i \in 1 .. Len(t) : i \in 1 .. Len(s) \/ i = Len(s) + 1
      /\ \A i \in 1 .. Len(s) : i \in 1 .. Len(t)
      /\ Len(s) + 1 \in 1 .. Len(t)
  BY <1>3
<1> HIDE DEF h, t
<1>5. \A op : Fresh(t, op) <=> Fresh(s, op) \/ (job.op = op /\ ~job.old)
  BY <1>3, <1>4 DEF Fresh
<1>6. ImplInv(h)
  <2>1. ASSUME ~g.hasImpl PROVE \A i \in 1 .. Len(t) : t[i].op \in SocketOp => t[i].old
    BY <2>1, <1>3, <1>4 DEF ImplInv
  <2> QED BY <2>1, <1>1 DEF ImplInv, SameTransport, t
<1>7. WriteInv(h) BY <1>1, <1>5 DEF WriteInv, SameTransport, t
<1>8. ConnectInv(h)
  <2> SUFFICES ASSUME g.isConnecting
               PROVE  /\ g.ops["connect"] > 0 \/ Fresh(t, "connect")
                      /\ ConnectFirst(t, g.ops["connect"])
    BY <1>1 DEF ConnectInv, SameTransport, t
  <2> DEFINE n == g.ops["connect"]
  <2>1. n > 0 \/ Fresh(t, "connect") BY <1>5
  <2>2. ConnectFirst(s, n) OBVIOUS
  <2>3. job.op = "write" /\ ~job.old /\ job.ok => n = 0 /\ Fresh(s, "connect") OBVIOUS
  <2> HIDE DEF n
  <2>4. ASSUME NEW i \in 1 .. Len(t), t[i].op = "write", ~t[i].old, t[i].ok
        PROVE  n = 0 /\ \E c \in 1 .. i - 1 : t[c].op = "connect" /\ ~t[c].old
    <3>1. CASE i \in 1 .. Len(s)
      <4>1. n = 0 /\ \E c \in 1 .. i - 1 : s[c].op = "connect" /\ ~s[c].old
        BY <2>2, <2>4, <3>1, <1>3 DEF ConnectFirst
      <4>2. \A c \in 1 .. i - 1 : c \in 1 .. Len(s) BY <3>1, <1>3
      <4> QED BY <4>1, <4>2, <1>3
    <3>2. CASE i = Len(s) + 1
      <4>1. n = 0 /\ Fresh(s, "connect") BY <2>3, <2>4, <3>2, <1>3
      <4>2. PICK c \in 1 .. Len(s) : s[c].op = "connect" /\ ~s[c].old BY <4>1 DEF Fresh
      <4>3. c \in 1 .. i - 1 /\ t[c] = s[c] BY <3>2, <1>3
      <4> QED BY <4>1, <4>2, <4>3
    <3> QED BY <3>1, <3>2, <1>4
  <2>5. ConnectFirst(t, n) BY <2>4 DEF ConnectFirst
  <2> QED BY <2>1, <2>5 DEF n
<1> QED BY <1>6, <1>7, <1>8 DEF TransportInv, h

LEMMA PostedAwaits ==
    ASSUME NEW g \in AnyFace, NEW job \in AnyJob
    PROVE  /\ StillReads(g, PostJob(g, job))
           /\ job.op = "receive" => Awaits(PostJob(g, job))
           /\ job.op = "receive" /\ ~job.old => Reads(PostJob(g, job))
<1> DEFINE h == PostJob(g, job)
           s == g.posted
           t == h.posted
<1>1. SameTransport(g, h) /\ t = Append(s, job) BY PostJobStep
<1>2. s \in Seq(AnyJob) BY DEF AnyFace
<1>3. /\ Len(s) \in Nat /\ Len(t) = Len(s) + 1
      /\ \A i \in 1 .. Len(s) : t[i] = s[i]
      /\ t[Len(s) + 1] = job
  BY <1>1, <1>2, AppendJob
<1>4. /\ \A i \in 1 .. Len(s) : i \in 1 .. Len(t)
      /\ Len(s) + 1 \in 1 .. Len(t)
  BY <1>3
<1> HIDE DEF h
<1>5. (Awaits(g) \/ job.op = "receive") => Awaits(h)
  BY <1>1, <1>3, <1>4 DEF Awaits, SameTransport
<1>6. (Reads(g) \/ (job.op = "receive" /\ ~job.old)) => Reads(h)
  BY <1>1, <1>3, <1>4 DEF Reads, Fresh, SameTransport
<1> QED BY <1>5, <1>6 DEF StillReads, h

\* The read that ended is followed by another one.
LEMMA ReadEnd ==
    ASSUME NEW g \in AnyFace, g.posted # <<>>, NEW job, job = Head(g.posted), IsRead(job),
           NEW x, TableStep(Pop(g), x)
    PROVE  /\ ReadAgain(x, job) \in AnyFace /\ TransportStep(x, ReadAgain(x, job))
           /\ ReadAgain(x, job).running => g.running
           /\ ReadAgain(x, job).running /\ TransportInv(g) /\ ListenInv(g) =>
                 TransportInv(ReadAgain(x, job)) /\ ListenInv(ReadAgain(x, job))
<1> DEFINE p == Pop(g)
           h == ReadAgain(x, job)
<1>1. job.op = "receive" BY DEF IsRead
<1>2. /\ p \in AnyFace /\ job \in AnyJob /\ SameTransport(g, p) /\ p.running = g.running
      /\ TransportInv(g) => TransportInv(p)
      /\ job.old /\ Reads(g) => Reads(p)
  BY <1>1, PopStep
<1>3. x \in AnyFace /\ SameTransport(p, x) /\ (x.running => p.running) BY DEF TableStep
<1>4. (TransportInv(g) => TransportInv(x)) /\ (job.old /\ Reads(g) => Reads(x))
  BY <1>2, TableStepKeeps DEF StillReads
<1>5. h = IF ~x.running THEN x
          ELSE IF job.old THEN PostJob(x, [job EXCEPT !.ok = FALSE]) ELSE StartOp(x, "receive")
  BY DEF ReadAgain
<1>6. x.running => g.running BY <1>2, <1>3
<1> HIDE DEF p
<1>7. ASSUME NEW k, k \in AnyFace, TransportStep(x, k), k.running = x.running, h = k,
             k.running => /\ TransportInv(g) => TransportInv(k)
                          /\ ListenInv(g) => (k.isReceiving => Reads(k))
                          /\ Awaits(k)
      PROVE  /\ h \in AnyFace /\ TransportStep(x, h) /\ (h.running => g.running)
             /\ h.running /\ TransportInv(g) /\ ListenInv(g) => TransportInv(h) /\ ListenInv(h)
  BY <1>6, <1>7 DEF ListenInv
<1> SUFFICES /\ h \in AnyFace /\ TransportStep(x, h) /\ (h.running => g.running)
             /\ h.running /\ TransportInv(g) /\ ListenInv(g) => TransportInv(h) /\ ListenInv(h)
  OBVIOUS
<1> HIDE DEF h
<1>8. CASE ~x.running
  <2>1. h = x BY <1>5, <1>8
  <2>2. TransportStep(x, x) BY <1>3, StepSelf
  <2> QED BY <2>1, <2>2, <1>3, <1>7, <1>8
<1>9. CASE x.running /\ job.old
  <2> DEFINE j == [job EXCEPT !.ok = FALSE]
             k == PostJob(x, j)
  <2>1. h = k BY <1>5, <1>9
  <2>2. j \in AnyJob /\ j.op = "receive" /\ j.old
    <3>1. ASSUME NEW b \in BOOLEAN
          PROVE  /\ [job EXCEPT !.ok = b] \in AnyJob /\ [job EXCEPT !.ok = b].op = job.op
                 /\ [job EXCEPT !.ok = b].old = job.old
      BY <1>2 DEF AnyJob
    <3>2. FALSE \in BOOLEAN OBVIOUS
    <3>3. j \in AnyJob /\ j.op = job.op /\ j.old = job.old BY <3>1, <3>2, Zenon
    <3> HIDE DEF j
    <3> QED BY <3>3, <1>1, <1>9
  <2> HIDE DEF j
  <2>3. /\ k \in AnyFace /\ TransportStep(x, k) /\ k.running = x.running /\ Awaits(k)
        /\ StillReads(x, k) /\ k.isReceiving = x.isReceiving
    BY <2>2, <1>3, PostJobStep, PostedAwaits DEF IssueOp, SameTransport
  <2>4. ASSUME TransportInv(x) PROVE TransportInv(k)
    <3>1. /\ ImplInv(x) /\ WriteInv(x)
          /\ x.isConnecting => /\ ConnectFirst(x.posted, x.ops["connect"])
                               /\ x.ops["connect"] > 0 \/ Fresh(x.posted, "connect")
      BY <2>4 DEF TransportInv, ConnectInv
    <3> QED BY <3>1, <2>2, <1>3, PostedInv
  <2> HIDE DEF k
  <2>5. ListenInv(g) => (k.isReceiving => Reads(k))
    BY <2>3, <1>2, <1>3, <1>4, <1>9 DEF ListenInv, SameTransport, StillReads
  <2> QED BY <2>1, <2>3, <2>4, <2>5, <1>4, <1>7
<1>10. CASE x.running /\ ~job.old
  <2> DEFINE op == "receive"
             k == StartOp(x, op)
  <2>1. h = k BY <1>5, <1>10
  <2>2. op \in SocketOp \ {"connect"} /\ op # "write" BY DEF SocketOp
  <2>3. op = "receive" OBVIOUS
  <2> HIDE DEF op
  <2>4. /\ k \in AnyFace /\ TransportStep(x, k) /\ k.running = x.running /\ Awaits(k)
        /\ Reads(k)
    BY <2>2, <2>3, <1>3, StartOpStep, StartedAwaits
  <2>5. ASSUME TransportInv(g) PROVE TransportInv(k)
    <3>1. g.posted \in Seq(AnyJob) BY DEF AnyFace
    <3>2. job = g.posted[1] /\ 1 \in 1 .. Len(g.posted) BY <3>1, PopJob
    <3>3. g.hasImpl BY <3>2, <1>1, <1>10, <2>5 DEF TransportInv, ImplInv, SocketOp
    <3>4. x.hasImpl BY <3>3, <1>2, <1>3 DEF SameTransport
    <3> QED BY <3>4, <2>2, <2>5, <1>3, <1>4, Started
  <2> HIDE DEF k
  <2> QED BY <2>1, <2>4, <2>5, <1>7
<1> QED BY <1>8, <1>9, <1>10

\* No other read follows when an exception leaves the handler.
LEMMA ReadLeft ==
    ASSUME NEW g \in AnyFace, g.posted # <<>>, NEW job, job = Head(g.posted), IsRead(job),
           NEW x, TableStep(Pop(g), x), x.running => ~Waits(x)
    PROVE  /\ LeaveRead(x, job) \in AnyFace /\ TransportStep(x, LeaveRead(x, job))
           /\ LeaveRead(x, job).running => g.running
           /\ LeaveRead(x, job).running /\ TransportInv(g) /\ ListenInv(g) =>
                 TransportInv(LeaveRead(x, job)) /\ ListenInv(LeaveRead(x, job))
<1> DEFINE p == Pop(g)
           b == x.deaf \/ (~job.old /\ x.isReceiving)
           h == [x EXCEPT !.deaf = b]
<1>1. LeaveRead(x, job) = h BY DEF LeaveRead
<1>2. /\ p \in AnyFace /\ job \in AnyJob /\ SameTransport(g, p) /\ p.running = g.running
      /\ TransportInv(g) => TransportInv(p)
      /\ job.old /\ Reads(g) => Reads(p)
  BY PopStep DEF IsRead
<1>3. x \in AnyFace /\ SameTransport(p, x) /\ (x.running => p.running) BY DEF TableStep
<1>4. (TransportInv(g) => TransportInv(x)) /\ (job.old /\ Reads(g) => Reads(x))
  BY <1>2, TableStepKeeps DEF StillReads
<1>5. b \in BOOLEAN OBVIOUS
<1>6. (x.deaf => b) /\ (x.isReceiving => job.old \/ b)
  BY <1>2, <1>3 DEF AnyFace, AnyJob
<1> HIDE DEF b, p
<1>7. h \in AnyFace BY <1>3, <1>5 DEF AnyFace
<1>8. /\ h.deaf = b /\ h.hasImpl = x.hasImpl /\ h.isConnecting = x.isConnecting
      /\ h.queue = x.queue /\ h.isConnected = x.isConnected
      /\ h.isReceiving = x.isReceiving /\ h.ops = x.ops
      /\ h.posted = x.posted /\ h.running = x.running /\ SameTables(x, h)
  BY <1>3 DEF AnyFace, SameTables
<1> HIDE DEF h
<1>9. SameWaiting(x.posted, x.posted) BY <1>3, SameWaitingSelf DEF AnyFace
<1>10. TransportStep(x, h) BY <1>7, <1>8, <1>9 DEF TransportStep
<1>11. TransportInv(x) => TransportInv(h)
  BY <1>8 DEF TransportInv, ImplInv, WriteInv, ConnectInv
<1>12. ASSUME h.running, ListenInv(g) PROVE ListenInv(h)
  <2>1. ~Waits(h) BY <1>8, <1>12 DEF Waits, SameTables
  <2>2. Reads(x) => Reads(h) BY <1>6, <1>8 DEF Reads
  <2>3. b => Reads(h) BY <1>8 DEF Reads
  <2>4. x.isReceiving => Reads(g) BY <1>2, <1>3, <1>12 DEF ListenInv, SameTransport
  <2> QED BY <2>1, <2>2, <2>3, <2>4, <1>4, <1>6, <1>8 DEF ListenInv
<1>13. h.running => g.running BY <1>2, <1>3, <1>8
<1> QED BY <1>1, <1>4, <1>7, <1>10, <1>11, <1>12, <1>13

-----------------------------------------------------------------------------
(* Steps of the specification *)

\* The invariant, of a face and the number of the last call.
FaceInv(g, N) ==
    /\ g \in AnyFace /\ N \in Nat
    /\ g.running => OutcomeInv(g, {}, N) /\ TransportInv(g) /\ ListenInv(g)

LEMMA FaceInvPrime == (ClientInv <=> FaceInv(f, nCalls)) /\ (ClientInv' <=> FaceInv(f', nCalls'))
BY DEF ClientInv, FaceInv

LEMMA KeepsFaceInv ==
    ASSUME NEW g, NEW h, NEW N, FaceInv(g, N), Keeps(g, h)
    PROVE  FaceInv(h, N)
BY DEF FaceInv, Keeps

LEMMA RunPostedInv ==
    ASSUME ClientInv, RunPosted
    PROVE  ClientInv'
<1>1. f \in AnyFace BY DEF ClientInv
<1>2. /\ f.posted # <<>> /\ ~IsRead(Head(f.posted)) /\ f' = RunJob(Pop(f), Head(f.posted))
      /\ nCalls' = nCalls
  BY DEF RunPosted, Pop
<1>3. Keeps(f, f') BY <1>1, <1>2, RunJobKeeps
<1> DEFINE g == f
           h == f'
           N == nCalls
<1>4. FaceInv(g, N) /\ Keeps(g, h) BY <1>3, FaceInvPrime
<1> HIDE DEF g, h, N
<1>5. FaceInv(h, N) BY <1>4, KeepsFaceInv
<1> QED BY <1>2, <1>5, FaceInvPrime DEF h, N

\* The count of the packets of a read does not matter here.
LEMMA CountedStep ==
    ASSUME NEW g \in AnyFace, NEW n \in Nat
    PROVE  /\ [g EXCEPT !.nRead = n] \in AnyFace
           /\ TableStep(g, [g EXCEPT !.nRead = n])
           /\ [g EXCEPT !.nRead = n].pit = g.pit
           /\ [g EXCEPT !.nRead = n].running = g.running
           /\ \A X, N : OutcomeInv(g, X, N) => OutcomeInv([g EXCEPT !.nRead = n], X, N)
<1> DEFINE h == [g EXCEPT !.nRead = n]
<1>1. h \in AnyFace BY DEF AnyFace
<1>2. /\ h.pit = g.pit /\ h.issued = g.issued /\ h.told = g.told /\ h.dropped = g.dropped
      /\ h.running = g.running /\ h.posted = g.posted /\ SameTransport(g, h)
  BY DEF AnyFace, SameTransport
<1> HIDE DEF h
<1>3. MoreJobs(g.posted, g.posted) BY SameWaitingSelf DEF AnyFace
<1>4. TableStep(g, h) BY <1>1, <1>2, <1>3 DEF TableStep
<1>5. ASSUME NEW X, NEW N, OutcomeInv(g, X, N) PROVE OutcomeInv(h, X, N)
  BY <1>2, <1>5 DEF OutcomeInv
<1>6. /\ h \in AnyFace /\ TableStep(g, h) /\ h.pit = g.pit /\ h.running = g.running
      /\ \A X, N : OutcomeInv(g, X, N) => OutcomeInv(h, X, N)
  BY <1>1, <1>2, <1>4, <1>5
<1> QED BY <1>6, Zenon DEF h

\* The face that a packet of a read finds: with the last packet the read leaves posted.
Reading(g, more) == IF more THEN g ELSE Pop(g)

LEMMA TakePacketStep ==
    ASSUME NEW g \in AnyFace, g.posted # <<>>, IsRead(Head(g.posted)), NEW more \in BOOLEAN
    PROVE  /\ Reading(g, more) \in AnyFace /\ TakePacket(g, more) \in AnyFace
           /\ TableStep(Reading(g, more), TakePacket(g, more))
           /\ TakePacket(g, more).pit = g.pit /\ TakePacket(g, more).running = g.running
           /\ \A N : OutcomeInv(g, {}, N) => OutcomeInv(TakePacket(g, more), {}, N)
<1>1. CASE more
  <2> DEFINE n == g.nRead + 1
  <2>1. n \in Nat BY DEF AnyFace
  <2>2. TakePacket(g, more) = [g EXCEPT !.nRead = n] BY <1>1 DEF TakePacket
  <2>3. Reading(g, more) = g BY <1>1 DEF Reading
  <2> HIDE DEF n
  <2>4. /\ [g EXCEPT !.nRead = n] \in AnyFace
        /\ TableStep(g, [g EXCEPT !.nRead = n])
        /\ [g EXCEPT !.nRead = n].pit = g.pit
        /\ [g EXCEPT !.nRead = n].running = g.running
        /\ \A X, N : OutcomeInv(g, X, N) => OutcomeInv([g EXCEPT !.nRead = n], X, N)
    BY <2>1, CountedStep, Zenon
  <2> DEFINE h == [g EXCEPT !.nRead = n]
  <2> HIDE DEF h
  <2>5. /\ h \in AnyFace /\ TableStep(g, h) /\ h.pit = g.pit /\ h.running = g.running
        /\ \A X, N : OutcomeInv(g, X, N) => OutcomeInv(h, X, N)
    BY <2>4, Zenon DEF h
  <2>6. TakePacket(g, more) = h BY <2>2 DEF h
  <2> QED BY <2>3, <2>5, <2>6
<1>2. CASE ~more
  <2> DEFINE p == Pop(g)
             n == 0
             h == [p EXCEPT !.nRead = n]
  <2>1. /\ p \in AnyFace /\ p.pit = g.pit /\ p.running = g.running
        /\ \A N : OutcomeInv(g, {}, N) => OutcomeInv(p, JobIds(Head(g.posted)), N)
    BY PopStep DEF SameTables
  <2>2. JobIds(Head(g.posted)) = {} BY DEF JobIds, IsRead, IssueOp
  <2>3. TakePacket(g, more) = h BY <1>2 DEF TakePacket, Pop
  <2>4. Reading(g, more) = p BY <1>2 DEF Reading
  <2>5. n \in Nat OBVIOUS
  <2> HIDE DEF p, n
  <2>6. /\ h \in AnyFace /\ TableStep(p, h) /\ h.pit = p.pit /\ h.running = p.running
        /\ \A X, N : OutcomeInv(p, X, N) => OutcomeInv(h, X, N)
    BY <2>1, <2>5, CountedStep, Zenon
  <2> HIDE DEF h
  <2> QED BY <2>1, <2>2, <2>3, <2>4, <2>6
<1> QED BY <1>1, <1>2

\* A packet changes the tables. Until the last one the read stays, then another one
\* starts, unless an exception leaves the handler; it has cleared the tables.
LEMMA PacketInv ==
    ASSUME NEW g, NEW N, FaceInv(g, N), g.posted # <<>>, NEW job, job = Head(g.posted),
           IsRead(job), NEW more \in BOOLEAN, NEW threw \in BOOLEAN, threw => ~more,
           NEW x, TableStep(TakePacket(g, more), x), threw /\ x.running => ~Waits(x),
           NEW M \in Nat, OutcomeInv(TakePacket(g, more), {}, N) => OutcomeInv(x, {}, M)
    PROVE  FaceInv(AfterPacket(x, job, more, threw), M)
<1> DEFINE h == AfterPacket(x, job, more, threw)
           p == Reading(g, more)
<1>1. g \in AnyFace BY DEF FaceInv
<1>2. /\ p \in AnyFace /\ TakePacket(g, more) \in AnyFace
      /\ TableStep(p, TakePacket(g, more))
      /\ OutcomeInv(g, {}, N) => OutcomeInv(TakePacket(g, more), {}, N)
  BY <1>1, TakePacketStep
<1>3. x \in AnyFace BY DEF TableStep
<1>4. TableStep(p, x) BY <1>2, TableStepTrans
<1>5. OutcomeInv(g, {}, N) => OutcomeInv(x, {}, M) BY <1>2
<1>6. ASSUME h \in AnyFace, TransportStep(x, h), h.running => g.running,
             h.running /\ TransportInv(g) /\ ListenInv(g) => TransportInv(h) /\ ListenInv(h)
      PROVE  FaceInv(h, M)
  <2> HIDE DEF h
  <2>1. OutcomeInv(x, {}, M) => OutcomeInv(h, {}, M) BY <1>3, <1>6, TransportStepKeeps
  <2> QED BY <2>1, <1>5, <1>6 DEF FaceInv
<1>7. CASE threw
  <2>1. h = LeaveRead(x, job) BY <1>7 DEF AfterPacket
  <2>2. TableStep(Pop(g), x) BY <1>4, <1>7 DEF Reading
  <2>3. x.running => ~Waits(x) BY <1>7
  <2>4. /\ LeaveRead(x, job) \in AnyFace /\ TransportStep(x, LeaveRead(x, job))
        /\ LeaveRead(x, job).running => g.running
        /\ LeaveRead(x, job).running /\ TransportInv(g) /\ ListenInv(g) =>
              TransportInv(LeaveRead(x, job)) /\ ListenInv(LeaveRead(x, job))
    BY <1>1, <2>2, <2>3, ReadLeft
  <2> QED BY <1>6, <2>1, <2>4
<1>8. CASE ~threw /\ ~more
  <2>1. h = ReadAgain(x, job) BY <1>8 DEF AfterPacket
  <2>2. TableStep(Pop(g), x) BY <1>4, <1>8 DEF Reading
  <2>3. /\ ReadAgain(x, job) \in AnyFace /\ TransportStep(x, ReadAgain(x, job))
        /\ ReadAgain(x, job).running => g.running
        /\ ReadAgain(x, job).running /\ TransportInv(g) /\ ListenInv(g) =>
              TransportInv(ReadAgain(x, job)) /\ ListenInv(ReadAgain(x, job))
    BY <1>1, <2>2, ReadEnd
  <2> QED BY <1>6, <2>1, <2>3
<1>9. CASE ~threw /\ more
  <2>1. h = x BY <1>9 DEF AfterPacket
  <2>2. TableStep(g, x) BY <1>4, <1>9 DEF Reading
  <2>3. (TransportInv(g) => TransportInv(x)) /\ StillReads(g, x) BY <1>1, <2>2, TableStepKeeps
  <2>4. SameTransport(g, x) /\ (x.running => g.running) BY <2>2 DEF TableStep
  <2>5. Awaits(g)
    <3>1. g.posted \in Seq(AnyJob) BY <1>1 DEF AnyFace
    <3>2. job = g.posted[1] /\ 1 \in 1 .. Len(g.posted) BY <3>1, PopJob
    <3> QED BY <3>2 DEF Awaits, IsRead
  <2>6. ListenInv(g) => ListenInv(x) BY <2>3, <2>4, <2>5 DEF ListenInv, SameTransport, StillReads
  <2> HIDE DEF h
  <2>7. FaceInv(x, M) BY <1>3, <1>5, <2>3, <2>4, <2>6 DEF FaceInv
  <2> QED BY <2>1, <2>7 DEF h
<1> QED BY <1>7, <1>8, <1>9

\* The same of the specification: x is the face after the packet.
LEMMA PacketKeeps ==
    ASSUME ClientInv, NEW more \in BOOLEAN, ReadReady(more), NEW threw \in BOOLEAN,
           threw => ~more, NEW x, TableStep(TakePacket(f, more), x),
           threw /\ x.running => ~Waits(x),
           f' = AfterPacket(x, Head(f.posted), more, threw), nCalls' \in Nat,
           OutcomeInv(TakePacket(f, more), {}, nCalls) => OutcomeInv(x, {}, nCalls')
    PROVE  ClientInv'
<1> DEFINE g == f
           N == nCalls
           M == nCalls'
           job == Head(g.posted)
           h == AfterPacket(x, job, more, threw)
<1>1. FaceInv(g, N) /\ f' = h BY FaceInvPrime
<1>2. g.posted # <<>> /\ IsRead(job) BY DEF ReadReady
<1>3. /\ TableStep(TakePacket(g, more), x) /\ M \in Nat
      /\ OutcomeInv(TakePacket(g, more), {}, N) => OutcomeInv(x, {}, M)
  OBVIOUS
<1>4. job = Head(g.posted) OBVIOUS
<1> HIDE DEF g, N, M, job
<1>5. FaceInv(AfterPacket(x, job, more, threw), M) BY <1>1, <1>2, <1>3, <1>4, PacketInv
<1> QED BY <1>1, <1>5, FaceInvPrime DEF M

\* What a packet finds in the tables.
LEMMA PacketTables ==
    ASSUME ClientInv, NEW more \in BOOLEAN, ReadReady(more)
    PROVE  /\ TakePacket(f, more) \in AnyFace /\ nCalls \in Nat
           /\ TakePacket(f, more).pit = f.pit
           /\ TakePacket(f, more).running => PendingOnce(f.pit)
           /\ \A k : /\ Hits(TakePacket(f, more), k) = Hits(f, k)
                     /\ NackedHits(TakePacket(f, more), k) = NackedHits(f, k)
           /\ \A k \in {0} \cup Commands(f) : k \in Int
<1> DEFINE p == TakePacket(f, more)
<1>1. f \in AnyFace /\ nCalls \in Nat BY DEF ClientInv
<1>2. f.posted # <<>> /\ IsRead(Head(f.posted)) BY DEF ReadReady
<1>3. p \in AnyFace /\ p.pit = f.pit /\ p.running = f.running
  BY <1>1, <1>2, TakePacketStep
<1> HIDE DEF p
<1>4. p.running => PendingOnce(f.pit) BY <1>3 DEF ClientInv, OutcomeInv
<1>5. \A k : Hits(p, k) = Hits(f, k) BY <1>3 DEF Hits
<1>6. \A k : NackedHits(p, k) = NackedHits(f, k) BY <1>5 DEF NackedHits
<1>7. \A k \in {0} \cup Commands(f) : k \in Int
  <2>1. f.pit \in SUBSET Entry BY <1>1 DEF AnyFace
  <2> QED BY <2>1 DEF Commands, Entry
<1> QED BY <1>1, <1>3, <1>4, <1>5, <1>6, <1>7 DEF p

LEMMA ReceiveDataInv ==
    ASSUME ClientInv, NEW more \in BOOLEAN, ReceiveData(more)
    PROVE  ClientInv'
<1> DEFINE p == TakePacket(f, more)
<1>1. ReadReady(more) /\ nCalls' = nCalls BY DEF ReceiveData
<1>2. PICK k \in {0} \cup Commands(f), ok \in BOOLEAN :
         LET threw == ~ok /\ EmptyCallback(Hits(f, k))
         IN  /\ threw => ~more
             /\ f' = AfterPacket(satisfyPendingInterests(TakePacket(f, more), k, ok),
                                 Head(f.posted), more, threw)
  BY DEF ReceiveData
<1> DEFINE threw == ~ok /\ EmptyCallback(Hits(f, k))
           x == satisfyPendingInterests(p, k, ok)
<1>3. (threw => ~more) /\ f' = AfterPacket(x, Head(f.posted), more, threw) BY <1>2
<1>4. /\ p \in AnyFace /\ nCalls \in Nat /\ p.pit = f.pit
      /\ p.running => PendingOnce(p.pit)
      /\ Hits(p, k) = Hits(f, k) /\ k \in Int
  BY <1>1, <1>2, PacketTables
<1>5. threw \in BOOLEAN BY DEF EmptyCallback
<1> HIDE DEF p
<1>6. LET h == satisfyPendingInterests(p, k, ok)
      IN  /\ h \in AnyFace /\ TableStep(p, h)
          /\ k = 0 => (Waits(h) => Waits(p)) /\ h.running = p.running
          /\ p.running /\ PendingOnce(p.pit) /\ ~ok /\ EmptyCallback(Hits(p, k)) => ~Waits(h)
          /\ \A X, N : OutcomeInv(p, X, N) /\ N \in Nat => OutcomeInv(h, X, N)
  BY <1>4, satisfyStep
<1>7. /\ TableStep(p, x) /\ (x.running => p.running)
      /\ threw /\ x.running => ~Waits(x)
      /\ OutcomeInv(p, {}, nCalls) => OutcomeInv(x, {}, nCalls)
  BY <1>4, <1>6 DEF TableStep
<1> HIDE DEF x, threw
<1> QED BY <1>1, <1>3, <1>4, <1>5, <1>7, PacketKeeps DEF p

LEMMA ReceiveNackInv ==
    ASSUME ClientInv, NEW more \in BOOLEAN, ReceiveNack(more)
    PROVE  ClientInv'
<1> DEFINE p == TakePacket(f, more)
<1>1. ReadReady(more) BY DEF ReceiveNack
<1>2. PICK k \in {0} \cup Commands(f) :
         LET threw == EmptyCallback(NackedHits(f, k))
         IN  /\ threw => ~more
             /\ \E n \in IF AppCallbacks(NackedHits(f, k)) THEN Retries ELSE {0} :
                   /\ f' = AfterPacket(nackPendingInterests(TakePacket(f, more), k, n),
                                       Head(f.posted), more, threw)
                   /\ nCalls' = IF n = 0 THEN nCalls ELSE n
  BY DEF ReceiveNack
<1> DEFINE threw == EmptyCallback(NackedHits(f, k))
<1>3. 0 \in Retries BY DEF Retries
<1>4. PICK n \in Retries :
         /\ f' = AfterPacket(nackPendingInterests(TakePacket(f, more), k, n),
                             Head(f.posted), more, threw)
         /\ nCalls' = IF n = 0 THEN nCalls ELSE n
  BY <1>2, <1>3
<1> DEFINE x == nackPendingInterests(p, k, n)
<1>5. (threw => ~more) /\ f' = AfterPacket(x, Head(f.posted), more, threw) BY <1>2, <1>4
<1>6. /\ p \in AnyFace /\ nCalls \in Nat
      /\ NackedHits(p, k) = NackedHits(f, k) /\ k \in Int
  BY <1>1, <1>2, PacketTables
<1>7. n \in Nat /\ n \in {0, nCalls + 1} BY <1>4, <1>6 DEF Retries
<1>8. threw \in BOOLEAN BY DEF EmptyCallback
<1> HIDE DEF p
<1>9. LET h == nackPendingInterests(p, k, n)
      IN  /\ h \in AnyFace /\ TableStep(p, h)
          /\ h.running = p.running
          /\ Waits(h) => Waits(p)
          /\ p.running /\ EmptyCallback(NackedHits(p, k)) => ~Waits(h)
          /\ \A X, N : OutcomeInv(p, X, N) /\ N \in Nat /\ n \in {0, N + 1}
                       => OutcomeInv(h, X, IF n = 0 THEN N ELSE n)
  BY <1>6, <1>7, nackStep
<1>10. /\ TableStep(p, x)
       /\ threw /\ x.running => ~Waits(x)
       /\ OutcomeInv(p, {}, nCalls) => OutcomeInv(x, {}, nCalls')
  BY <1>4, <1>6, <1>7, <1>9
<1>11. nCalls' \in Nat BY <1>4, <1>6, <1>7
<1> HIDE DEF x, threw
<1> QED BY <1>1, <1>5, <1>8, <1>10, <1>11, PacketKeeps DEF p

LEMMA ReceiveInv ==
    ASSUME ClientInv, Receive
    PROVE  ClientInv'
<1>1. ASSUME NEW more \in BOOLEAN, ReceiveInterest(more) PROVE ClientInv'
  <2> DEFINE p == TakePacket(f, more)
  <2>1. ReadReady(more) /\ nCalls' = nCalls BY <1>1 DEF ReceiveInterest
  <2>2. PICK id \in {i \in -MaxRecords .. -1 : \A e \in f.pit : e.id # i} :
          f' = AfterPacket(processIncomingInterest(TakePacket(f, more), id),
                           Head(f.posted), more, FALSE)
    BY <1>1 DEF ReceiveInterest
  <2> DEFINE x == processIncomingInterest(p, id)
             no == FALSE
  <2>3. p \in AnyFace /\ nCalls \in Nat /\ p.pit = f.pit BY <2>1, PacketTables
  <2>4. id \in Int /\ id < 0 /\ \A e \in p.pit : e.id # id BY <2>2, <2>3, ClientAssumption
  <2>5. f' = AfterPacket(x, Head(f.posted), more, no) /\ no \in BOOLEAN /\ ~no BY <2>2
  <2> HIDE DEF p
  <2>6. TableStep(p, x) /\ (OutcomeInv(p, {}, nCalls) => OutcomeInv(x, {}, nCalls))
    BY <2>3, <2>4, processIncomingInterestStep
  <2> HIDE DEF x, no
  <2> QED BY <2>1, <2>3, <2>5, <2>6, PacketKeeps DEF p
<1>2. ASSUME ReceiveMalformed PROVE ClientInv'
  <2> DEFINE no == FALSE
             yes == TRUE
             p == TakePacket(f, no)
             x == Throw(p)
  <2>1. /\ ReadReady(no) /\ nCalls' = nCalls
        /\ f' = AfterPacket(x, Head(f.posted), no, yes)
    BY <1>2 DEF ReceiveMalformed
  <2>2. no \in BOOLEAN /\ yes \in BOOLEAN /\ yes /\ ~no OBVIOUS
  <2> HIDE DEF no, yes
  <2>3. p \in AnyFace /\ nCalls \in Nat BY <2>1, <2>2, PacketTables
  <2> HIDE DEF p
  <2>4. /\ TableStep(p, x) /\ x.running = p.running
        /\ p.running => ~Waits(x)
        /\ OutcomeInv(p, {}, nCalls) => OutcomeInv(x, {}, nCalls)
    BY <2>3, ThrowStep
  <2> HIDE DEF x
  <2> QED BY <2>1, <2>2, <2>3, <2>4, PacketKeeps DEF p
<1> QED BY <1>1, <1>2, ReceiveDataInv, ReceiveNackInv DEF Receive

\* The tables change, and the application waits for no more than it did.
LEMMA TableInv ==
    ASSUME NEW g, NEW N, FaceInv(g, N), NEW x, TableStep(g, x), Waits(x) => Waits(g),
           NEW M \in Nat, OutcomeInv(g, {}, N) => OutcomeInv(x, {}, M)
    PROVE  FaceInv(x, M)
<1>1. g \in AnyFace BY DEF FaceInv
<1>2. x \in AnyFace /\ (x.running => g.running) /\ SameTransport(g, x) BY DEF TableStep
<1>3. (TransportInv(g) => TransportInv(x)) /\ StillReads(g, x) BY <1>1, TableStepKeeps
<1>4. ListenInv(g) => ListenInv(x) BY <1>2, <1>3 DEF ListenInv, SameTransport, StillReads
<1> QED BY <1>2, <1>3, <1>4 DEF FaceInv

LEMMA TimeoutInv ==
    ASSUME ClientInv, NEW e \in f.pit, Timeout(e)
    PROVE  ClientInv'
<1>0. PICK n \in Retries :
        /\ \E r \in {Retry([f EXCEPT !.told = @ \cup AppIds({e})], n)} :
              f' = IF EmptyCallback({e}) THEN Throw([r EXCEPT !.pit = @ \ {e}])
                                         ELSE SetPit(r, f.pit \ {e})
        /\ nCalls' = IF n = 0 THEN nCalls ELSE n
  BY DEF Timeout, Retries
<1> DEFINE g == f
           N == nCalls
           M == IF n = 0 THEN nCalls ELSE n
           hits == {e}
           entries == f.pit \ {e}
           x == f'
<1>1. /\ x = IF EmptyCallback(hits) THEN Throw([Told(g, hits, n) EXCEPT !.pit = @ \ hits])
              ELSE SetPit(Told(g, hits, n), entries)
      /\ nCalls' = M
  BY <1>0 DEF Told
<1>2. FaceInv(g, N) /\ g \in AnyFace /\ N \in Nat BY FaceInvPrime DEF ClientInv
<1>3. n \in Nat /\ n \in {0, N + 1} /\ M \in Nat BY <1>0, <1>2 DEF Retries
<1>4. g.pit \in SUBSET Entry BY <1>2 DEF AnyFace
<1>5. hits \in SUBSET g.pit /\ entries \in SUBSET Entry /\ entries = g.pit \ hits BY <1>4
<1>6. f' = x /\ M = IF n = 0 THEN N ELSE n OBVIOUS
<1> HIDE DEF g, N, M, hits, entries, x
<1>7. /\ TableStep(g, x) /\ (Waits(x) => Waits(g))
      /\ OutcomeInv(g, {}, N) => OutcomeInv(x, {}, M)
  <2>1. CASE EmptyCallback(hits)
    <3>1. x = Throw([Told(g, hits, n) EXCEPT !.pit = @ \ hits]) BY <1>1, <2>1
    <3>2. LET h == Throw([Told(g, hits, n) EXCEPT !.pit = @ \ hits])
          IN  /\ h \in AnyFace /\ TableStep(g, h)
              /\ h.running = g.running
              /\ g.running => ~Waits(h)
              /\ Waits(h) => Waits(g)
              /\ \A X, K : OutcomeInv(g, X, K) /\ K \in Nat /\ n \in {0, K + 1}
                           => OutcomeInv(h, X, IF n = 0 THEN K ELSE n)
      BY <1>2, <1>3, <1>5, ToldThrow
    <3> QED BY <3>1, <3>2, <1>2, <1>3, <1>6
  <2>2. CASE ~EmptyCallback(hits)
    <3>1. x = SetPit(Told(g, hits, n), entries) BY <1>1, <2>2
    <3>2. LET h == SetPit(Told(g, hits, n), entries)
          IN  /\ h \in AnyFace /\ TableStep(g, h)
              /\ h.running = g.running
              /\ h.pit = entries /\ h.prefixes = g.prefixes /\ h.filters = g.filters
              /\ \A X, K :
                    OutcomeInv(g, X, K) /\ K \in Nat /\ n \in {0, K + 1}
                       /\ PendingOnce(entries) /\ AppIds(entries) = AppIds(g.pit \ hits)
                    => OutcomeInv(h, X, IF n = 0 THEN K ELSE n)
      <4>1. /\ g \in AnyFace /\ hits \in SUBSET g.pit
            /\ n \in Nat /\ entries \in SUBSET Entry
        BY <1>2, <1>3, <1>5
      <4> QED BY <4>1, ToldSetPit
    <3>3. TableStep(g, x) /\ x.pit = entries /\ x.prefixes = g.prefixes BY <3>1, <3>2
    <3>4. ASSUME OutcomeInv(g, {}, N) PROVE OutcomeInv(x, {}, M)
      <4>1. PendingOnce(g.pit) BY <3>4 DEF OutcomeInv
      <4>2. PendingOnce(entries) BY <1>4, <1>5, <4>1, AppIdsFacts
      <4> QED BY <1>2, <1>3, <1>5, <1>6, <3>1, <3>2, <3>4, <4>2
    <3>5. Waits(x) => Waits(g) BY <1>5, <3>3 DEF Waits
    <3> QED BY <3>3, <3>4, <3>5
  <2> QED BY <2>1, <2>2
<1>8. FaceInv(x, M) BY <1>2, <1>3, <1>7, TableInv
<1> QED BY <1>1, <1>6, <1>8, FaceInvPrime

\* A call posts a handler, and numbers the Interest that it makes.
LEMMA CallInv ==
    ASSUME NEW g, NEW N, FaceInv(g, N), NEW job \in AnyJob, job.op \notin SocketOp,
           job.op \in IssueOp => job.id = N + 1
    PROVE  FaceInv(PostJob([g EXCEPT !.issued = IF job.op \in IssueOp THEN @ \cup {N + 1}
                                                                        ELSE @], job),
                   N + 1)
<1> DEFINE I == IF job.op \in IssueOp THEN g.issued \cup {N + 1} ELSE g.issued
           h == [g EXCEPT !.issued = I]
           x == PostJob(h, job)
<1>1. g \in AnyFace /\ N \in Nat /\ N + 1 \in Nat BY DEF FaceInv
<1>2. I \in SUBSET Int BY <1>1 DEF AnyFace
<1> HIDE DEF I
<1>3. h \in AnyFace BY <1>1, <1>2 DEF AnyFace
<1>4. /\ h.pit = g.pit /\ h.filters = g.filters /\ h.prefixes = g.prefixes
      /\ h.issued = I /\ h.told = g.told /\ h.dropped = g.dropped
      /\ h.running = g.running /\ h.posted = g.posted /\ SameTransport(g, h)
  BY <1>1 DEF AnyFace, SameTransport
<1> HIDE DEF h
<1>5. g.posted \in Seq(AnyJob) BY <1>1 DEF AnyFace
<1>6. MoreJobs(g.posted, g.posted) BY <1>5, SameWaitingSelf
<1>7. TableStep(g, h) BY <1>3, <1>4, <1>6 DEF TableStep
<1>8. /\ x \in AnyFace /\ x.posted = Append(h.posted, job) /\ SameTables(h, x)
      /\ TableStep(h, x) /\ (job.op \notin IssueOp => TransportStep(h, x))
  BY <1>3, PostJobStep
<1> HIDE DEF x
<1>9. TableStep(g, x) BY <1>1, <1>3, <1>7, <1>8, TableStepTrans
<1>10. Waits(x) => Waits(g) BY <1>4, <1>8 DEF SameTables, Waits
<1>11. ASSUME OutcomeInv(g, {}, N) PROVE OutcomeInv(x, {}, N + 1)
  <2>1. g.issued \subseteq 1 .. N /\ WaitOnce(g.posted) /\ PendingOnce(g.pit)
    BY <1>11 DEF OutcomeInv
  <2>2. Divided(g.issued, Waiting(g.posted), AppIds(g.pit), g.told, g.dropped, {})
    BY <1>11 DEF OutcomeInv
  <2>3. N + 1 \notin g.issued BY <1>1, <2>1
  <2>4. Waiting(g.posted) \subseteq g.issued BY <2>2 DEF Divided
  <2>5. x.issued \subseteq 1 .. N + 1 BY <1>1, <1>4, <1>8, <2>1 DEF SameTables, I
  <2>6. CASE job.op \in IssueOp
    <3>1. /\ Waiting(x.posted) = Waiting(g.posted) \cup {N + 1}
          /\ WaitOnce(x.posted)
      BY <1>4, <1>5, <1>8, <2>1, <2>3, <2>4, <2>6, AppendWaiting
    <3>2. Divided(g.issued \cup {N + 1}, Waiting(g.posted) \cup {N + 1}, AppIds(g.pit),
                  g.told, g.dropped, {})
      BY <2>2, <2>3, DividedAdds
    <3>3. x.issued = g.issued \cup {N + 1} BY <1>4, <1>8, <2>6 DEF I, SameTables
    <3> QED BY <1>4, <1>8, <2>1, <2>5, <3>1, <3>2, <3>3 DEF OutcomeInv, SameTables
  <2>7. CASE job.op \notin IssueOp
    <3>1. I = g.issued BY <2>7 DEF I
    <3>2. OutcomeInv(h, {}, N) BY <1>4, <1>11, <3>1 DEF OutcomeInv
    <3>3. OutcomeInv(x, {}, N) BY <1>3, <1>8, <2>7, <3>2, TransportStepKeeps
    <3> QED BY <2>5, <3>3 DEF OutcomeInv
  <2> QED BY <2>6, <2>7
<1>12. FaceInv(x, N + 1)
  <2> DEFINE M == N + 1
  <2>1. M \in Nat /\ (OutcomeInv(g, {}, N) => OutcomeInv(x, {}, M)) BY <1>1, <1>11
  <2> HIDE DEF M
  <2>2. FaceInv(x, M) BY <2>1, <1>9, <1>10, TableInv
  <2> QED BY <2>2 DEF M
<1>13. PostJob([g EXCEPT !.issued = IF job.op \in IssueOp THEN @ \cup {N + 1} ELSE @], job) = x
  BY DEF x, h, I
<1> QED BY <1>12, <1>13

\* An operation of the socket ends, and its handler is ready.
LEMMA FinishInv ==
    ASSUME NEW g, NEW N, FaceInv(g, N), NEW op \in SocketOp, g.ops[op] > 0,
           NEW job \in AnyJob,
           op = "rewrite" => job.op = "write" /\ job.old,
           op # "rewrite" => job.op = op /\ ~job.old,
           job.ok /\ op = "write" => g.ops["connect"] = 0
    PROVE  FaceInv(PostJob([g EXCEPT !.ops[op] = @ - 1], job), N)
<1> DEFINE m == [g EXCEPT !.ops[op] = @ - 1]
           x == PostJob(m, job)
           o == [g.ops EXCEPT ![op] = @ - 1]
<1>1. g \in AnyFace /\ N \in Nat BY DEF FaceInv
<1>2. g.ops \in [SocketOp -> Nat] BY <1>1 DEF AnyFace
<1>3. o \in [SocketOp -> Nat] BY <1>2
<1>4. \A q \in SocketOp : o[q] = IF q = op THEN g.ops[q] - 1 ELSE g.ops[q] BY <1>2
<1>5. m = [g EXCEPT !.ops = o] OBVIOUS
<1> HIDE DEF o
<1>6. m \in AnyFace BY <1>1, <1>3, <1>5 DEF AnyFace
<1>7. /\ SameTables(g, m) /\ m.running = g.running /\ m.posted = g.posted /\ m.ops = o
      /\ m.hasImpl = g.hasImpl /\ m.isConnecting = g.isConnecting /\ m.queue = g.queue
      /\ m.isConnected = g.isConnected /\ m.isReceiving = g.isReceiving /\ m.deaf = g.deaf
  BY <1>1, <1>5 DEF AnyFace, SameTables
<1> HIDE DEF m
<1>8. job.op \notin IssueOp BY DEF SocketOp, IssueOp
<1>9. /\ x \in AnyFace /\ TransportStep(m, x) /\ x.running = m.running
      /\ SameTables(m, x) /\ SameTransport(m, x)
  BY <1>6, <1>8, PostJobStep
<1>10. StillReads(m, x) /\ (job.op = "receive" /\ ~job.old => Reads(x) /\ Awaits(x))
  BY <1>6, PostedAwaits
<1>11. "connect" \in SocketOp /\ "write" \in SocketOp /\ "receive" \in SocketOp BY DEF SocketOp
<1>12. ASSUME OutcomeInv(g, {}, N) PROVE OutcomeInv(x, {}, N)
  <2>1. OutcomeInv(m, {}, N) BY <1>7, <1>12 DEF OutcomeInv, SameTables
  <2> HIDE DEF x
  <2> QED BY <2>1, <1>6, <1>9, TransportStepKeeps
<1>13. StillReads(g, x)
  <2>1. op # "receive" => o["receive"] = g.ops["receive"] BY <1>4, <1>11
  <2>2. op # "receive" => StillReads(g, m) BY <1>7, <2>1 DEF Awaits, Reads, StillReads
  <2>3. op = "receive" => job.op = "receive" /\ ~job.old OBVIOUS
  <2> QED BY <1>10, <2>2, <2>3 DEF StillReads
<1>14. ListenInv(g) => ListenInv(x)
  BY <1>7, <1>9, <1>13 DEF ListenInv, SameTransport, SameTables, Waits, StillReads
<1>15. ASSUME TransportInv(g) PROVE TransportInv(x)
  <2>1. g.hasImpl
    <3>1. ImplInv(g) BY <1>15 DEF TransportInv
    <3>2. g.ops[op] # 0 BY <1>2
    <3> QED BY <3>1, <3>2 DEF ImplInv
  <2>2. ImplInv(m) BY <2>1, <1>7, <1>15 DEF TransportInv, ImplInv
  <2>3. o["write"] > 0 => g.ops["write"] > 0 BY <1>2, <1>4, <1>11
  <2>4. WriteInv(m) BY <2>3, <1>7, <1>15 DEF TransportInv, WriteInv
  <2>5. job.op = "write" /\ ~job.old => m.queue > 0
    BY <1>7, <1>15 DEF TransportInv, WriteInv
  <2>6. ASSUME m.isConnecting
        PROVE  /\ ConnectFirst(m.posted, m.ops["connect"])
               /\ \/ m.ops["connect"] > 0
                  \/ Fresh(m.posted, "connect")
                  \/ job.op = "connect" /\ ~job.old
               /\ job.op = "write" /\ ~job.old /\ job.ok =>
                     m.ops["connect"] = 0 /\ Fresh(m.posted, "connect")
    <3> DEFINE s == g.posted
               n == g.ops["connect"]
    <3>1. (n > 0 \/ Fresh(s, "connect")) /\ ConnectFirst(s, n)
      BY <2>6, <1>7, <1>15 DEF TransportInv, ConnectInv
    <3>2. n \in Nat BY <1>2, <1>11
    <3>3. CASE op = "connect"
      <4>1. n # 0 BY <3>3, <1>2
      <4>2. \A i \in 1 .. Len(s) : ~(s[i].op = "write" /\ ~s[i].old /\ s[i].ok)
        BY <3>1, <4>1 DEF ConnectFirst
      <4> HIDE DEF s
      <4>3. ConnectFirst(s, m.ops["connect"]) BY <4>2 DEF ConnectFirst
      <4>4. job.op = "connect" /\ ~job.old BY <3>3
      <4> QED BY <4>3, <4>4, <1>7 DEF s
    <3>4. CASE op # "connect"
      <4>1. m.ops["connect"] = n BY <3>4, <1>4, <1>7, <1>11
      <4>2. job.op = "write" /\ ~job.old => op = "write" OBVIOUS
      <4>3. job.op = "write" /\ ~job.old /\ job.ok => n = 0 BY <4>2
      <4> HIDE DEF n, s
      <4>4. n = 0 => Fresh(s, "connect") BY <3>1, <3>2
      <4> QED BY <3>1, <4>1, <4>3, <4>4, <1>7 DEF s
    <3> QED BY <3>3, <3>4
  <2>7. m.hasImpl BY <2>1, <1>7
  <2> QED BY <2>2, <2>4, <2>5, <2>6, <2>7, <1>6, PostedInv
<1>16. FaceInv(x, N)
  <2> HIDE DEF x
  <2> QED BY <1>1, <1>7, <1>9, <1>12, <1>14, <1>15 DEF FaceInv
<1> QED BY <1>16 DEF m

LEMMA FinishOpInv ==
    ASSUME ClientInv, NEW op \in SocketOp, NEW ok \in BOOLEAN, FinishOp(op, ok)
    PROVE  ClientInv'
<1> DEFINE g == f
           N == nCalls
           job == IF op = "rewrite" THEN [Job("write", 0, ok) EXCEPT !.old = TRUE]
                                    ELSE Job(op, 0, ok)
<1>1. FaceInv(g, N) BY FaceInvPrime
<1>2. /\ g.ops[op] > 0 /\ f' = PostJob([g EXCEPT !.ops[op] = @ - 1], job) /\ nCalls' = N
      /\ ok /\ op = "write" => g.ops["connect"] = 0
  BY DEF FinishOp
<1>3. /\ job \in AnyJob /\ job.ok = ok
      /\ op = "rewrite" => job.op = "write" /\ job.old
      /\ op # "rewrite" => job.op = op /\ ~job.old
  <2>1. CASE op = "rewrite"
    <3> DEFINE q == "write"
               none == 0
               j == Job(q, none, ok)
    <3>1. q \in JobOp /\ q = "write" /\ none \in Int BY DEF JobOp, SocketOp
    <3> HIDE DEF q, none
    <3>2. j \in AnyJob /\ j.op = q /\ j.ok = ok BY <3>1, JobTypes, Zenon
    <3> HIDE DEF j
    <3>3. ASSUME NEW b \in BOOLEAN
          PROVE  /\ [j EXCEPT !.old = b] \in AnyJob /\ [j EXCEPT !.old = b].op = j.op
                 /\ [j EXCEPT !.old = b].old = b /\ [j EXCEPT !.old = b].ok = j.ok
      BY <3>2 DEF AnyJob
    <3>4. TRUE \in BOOLEAN OBVIOUS
    <3> DEFINE k == [j EXCEPT !.old = TRUE]
    <3>5. k \in AnyJob /\ k.op = j.op /\ k.old = TRUE /\ k.ok = j.ok BY <3>3, <3>4, Zenon
    <3>6. job = k BY <2>1 DEF j, q, none
    <3> HIDE DEF k, job
    <3> QED BY <2>1, <3>1, <3>2, <3>5, <3>6
  <2>2. CASE op # "rewrite"
    <3> DEFINE none == 0
               k == Job(op, none, ok)
    <3>1. op \in JobOp /\ none \in Int BY <2>2 DEF JobOp
    <3>2. job = k BY <2>2
    <3> HIDE DEF none, job
    <3>3. k \in AnyJob /\ k.op = op /\ k.ok = ok BY <3>1, JobTypes, Zenon
    <3>3a. ~k.old BY DEF Job
    <3> HIDE DEF k
    <3>4. job \in AnyJob /\ job.ok = ok /\ job.op = op /\ ~job.old BY <3>2, <3>3, <3>3a
    <3> QED BY <2>2, <3>4
  <2> QED BY <2>1, <2>2
<1> HIDE DEF g, N, job
<1>4. job.ok /\ op = "write" => g.ops["connect"] = 0 BY <1>2, <1>3
<1>5. FaceInv(PostJob([g EXCEPT !.ops[op] = @ - 1], job), N)
  BY <1>1, <1>2, <1>3, <1>4, FinishInv
<1> QED BY <1>2, <1>5, FaceInvPrime

LEMMA CallKeeps ==
    ASSUME ClientInv, NEW job \in AnyJob, Call(job), job.op \notin SocketOp,
           job.op \in IssueOp => job.id = nCalls + 1
    PROVE  ClientInv'
<1> DEFINE g == f
           N == nCalls
<1>1. FaceInv(g, N) BY FaceInvPrime
<1>2. /\ nCalls' = N + 1
      /\ f' = PostJob([g EXCEPT !.issued = IF job.op \in IssueOp THEN @ \cup {N + 1}
                                                                   ELSE @], job)
  BY DEF Call, IssueOp
<1>3. job.op \in IssueOp => job.id = N + 1 OBVIOUS
<1> HIDE DEF g, N
<1>4. FaceInv(PostJob([g EXCEPT !.issued = IF job.op \in IssueOp THEN @ \cup {N + 1}
                                                                   ELSE @], job), N + 1)
  BY <1>1, <1>3, CallInv
<1> QED BY <1>2, <1>4, FaceInvPrime

LEMMA CallsInv ==
    ASSUME ClientInv,
           \/ \E fits \in BOOLEAN : expressInterest(fits)
           \/ registerPrefix
           \/ \E n \in f.issued :
                 unregisterPrefix(n) \/ unsetRegisteredFilter(n) \/ removePendingInterest(n)
           \/ removeAllPendingInterests
           \/ \E op \in {"putData", "putNack"}, fits \in BOOLEAN : put(op, fits)
           \/ setInterestFilter
           \/ \E n \in 1 .. nCalls : unsetInterestFilter(n)
           \/ shutdown
    PROVE  ClientInv'
<1>1. nCalls \in Nat /\ nCalls + 1 \in Int /\ f.issued \subseteq Int BY DEF ClientInv, AnyFace
<1> DEFINE own == nCalls + 1
<1>2. ASSUME NEW op \in JobOp \ SocketOp, NEW id \in Int, NEW ok \in BOOLEAN,
             op \in IssueOp => id = nCalls + 1, Call(Job(op, id, ok))
      PROVE  ClientInv'
  <2> DEFINE job == Job(op, id, ok)
  <2>1. job \in AnyJob /\ job.op = op /\ job.id = id BY JobTypes, Zenon
  <2>2. Call(job) BY <1>2
  <2> HIDE DEF job
  <2> QED BY <2>1, <2>2, <1>2, CallKeeps
<1>3. ASSUME NEW op \in IssueOp, NEW for \in About, NEW p \in Int,
             Call([Job(op, nCalls + 1, TRUE) EXCEPT !.for = for, !.prefix = p])
      PROVE  ClientInv'
  <2> DEFINE j == Job(op, nCalls + 1, TRUE)
             job == [j EXCEPT !.for = for, !.prefix = p]
  <2>1. op \in JobOp \ SocketOp BY DEF JobOp, IssueOp, SocketOp
  <2>2. j \in AnyJob /\ j.op = op /\ j.id = nCalls + 1
    <3> DEFINE yes == TRUE
               k == Job(op, own, yes)
    <3>1. yes \in BOOLEAN /\ own \in Int BY <1>1
    <3> HIDE DEF yes, own
    <3>2. k \in AnyJob /\ k.op = op /\ k.id = own BY <2>1, <3>1, JobTypes, Zenon
    <3> QED BY <3>2 DEF yes, own
  <2> HIDE DEF j
  <2>3. job \in AnyJob /\ job.op = op /\ job.id = nCalls + 1 BY <2>2 DEF AnyJob
  <2>4. Call(job) BY <1>3 DEF j
  <2> HIDE DEF job
  <2> QED BY <2>1, <2>3, <2>4, CallKeeps
<1>4. ASSUME NEW fits \in BOOLEAN, expressInterest(fits) PROVE ClientInv'
  <2> DEFINE op == "express"
  <2>1. op \in JobOp \ SocketOp BY DEF JobOp, IssueOp, SocketOp
  <2>2. Call(Job(op, nCalls + 1, fits)) BY <1>4 DEF expressInterest
  <2> HIDE DEF op
  <2> QED BY <2>1, <2>2, <1>1, <1>2
<1>5. ASSUME registerPrefix PROVE ClientInv'
  <2> DEFINE op == "express"
             for == "register"
             p == nCalls + 1
  <2>1. op \in IssueOp /\ for \in About /\ p \in Int BY <1>1 DEF IssueOp, About
  <2>2. Call([Job(op, nCalls + 1, TRUE) EXCEPT !.for = for, !.prefix = p])
    BY <1>5 DEF registerPrefix
  <2> HIDE DEF op, for, p
  <2> QED BY <2>1, <2>2, <1>3
<1>6. ASSUME NEW n \in f.issued, NEW for \in {"unregister", "unset"}, Unregister(for, n)
      PROVE  ClientInv'
  <2> DEFINE op == "unregister"
  <2>1. op \in IssueOp /\ for \in About /\ n \in Int BY <1>1 DEF IssueOp, About
  <2>2. Call([Job(op, nCalls + 1, TRUE) EXCEPT !.for = for, !.prefix = n])
    BY <1>6 DEF Unregister
  <2> HIDE DEF op
  <2> QED BY <2>1, <2>2, <1>3
<1>7. ASSUME NEW op \in {"removePending", "unsetFilter", "removeAll", "putData", "putNack",
                         "setFilter", "shutdown"},
             NEW id \in Int, NEW ok \in BOOLEAN, Call(Job(op, id, ok))
      PROVE  ClientInv'
  <2>1. op \in JobOp \ SocketOp /\ op \notin IssueOp BY DEF JobOp, IssueOp, SocketOp
  <2> QED BY <2>1, <1>2, <1>7
<1>8. ASSUME NEW op \in {"removePending", "unsetFilter", "removeAll", "setFilter", "shutdown"},
             NEW id \in Int, Call(Job(op, id, TRUE))
      PROVE  ClientInv'
  <2> DEFINE yes == TRUE
  <2>1. yes \in BOOLEAN /\ Call(Job(op, id, yes)) BY <1>8
  <2> HIDE DEF yes
  <2> QED BY <2>1, <1>7
<1>9. ASSUME NEW n \in f.issued,
             unregisterPrefix(n) \/ unsetRegisteredFilter(n) \/ removePendingInterest(n)
      PROVE  ClientInv'
  BY <1>1, <1>6, <1>8, <1>9 DEF unregisterPrefix, unsetRegisteredFilter, removePendingInterest
<1>10. ASSUME NEW n \in 1 .. nCalls, unsetInterestFilter(n) PROVE ClientInv'
  <2>1. n \in Int BY <1>10, <1>1
  <2>2. Call(Job("unsetFilter", n, TRUE)) BY <1>10 DEF unsetInterestFilter
  <2> QED BY <2>1, <2>2, <1>8
<1>11. ASSUME removeAllPendingInterests \/ setInterestFilter \/ shutdown PROVE ClientInv'
  <2>1. 0 \in Int OBVIOUS
  <2> QED BY <2>1, <1>1, <1>8, <1>11 DEF removeAllPendingInterests, setInterestFilter, shutdown
<1>12. ASSUME NEW op \in {"putData", "putNack"}, NEW fits \in BOOLEAN, put(op, fits)
       PROVE  ClientInv'
  <2> DEFINE none == 0
  <2>1. none \in Int /\ Call(Job(op, none, fits)) BY <1>12 DEF put
  <2> HIDE DEF none
  <2> QED BY <2>1, <1>7, <1>12
<1> QED BY <1>4, <1>5, <1>9, <1>10, <1>11, <1>12

LEMMA ClientInvInit ==
    ASSUME ClientInit
    PROVE  ClientInv
<1> DEFINE job == Job("construct", 0, TRUE)
           s == <<job>>
<1>1. job \in AnyJob /\ job.op = "construct"
  <2> DEFINE op == "construct"
             none == 0
             yes == TRUE
             k == Job(op, none, yes)
  <2>1. op \in JobOp /\ none \in Int /\ yes \in BOOLEAN BY DEF JobOp
  <2> HIDE DEF op, none, yes
  <2>2. k \in AnyJob /\ k.op = op BY <2>1, JobTypes, Zenon
  <2> QED BY <2>2 DEF op, none, yes
<1> HIDE DEF job
<1>2. s \in Seq(AnyJob) /\ Len(s) = 1 /\ s[1] = job
  <2> DEFINE J == AnyJob
  <2>1. job \in J BY <1>1
  <2> HIDE DEF J
  <2>2. <<job>> \in Seq(J) /\ Len(<<job>>) = 1 /\ <<job>>[1] = job BY <2>1
  <2> QED BY <2>2 DEF J
<1> HIDE DEF s
<1>3. {} \in FilterSet BY FS_EmptySet DEF FilterSet
<1>4. NothingUnderWay \in [SocketOp -> Nat] /\ \A op \in SocketOp : NothingUnderWay[op] = 0
  BY DEF NothingUnderWay
<1>5. f = [posted |-> s, pit |-> {}, filters |-> {}, prefixes |-> {}, hasImpl |-> FALSE,
           isConnecting |-> FALSE, queue |-> 0, isConnected |-> FALSE, isReceiving |-> FALSE,
           ops |-> NothingUnderWay, nRead |-> 0, issued |-> {}, told |-> {}, dropped |-> {},
           deaf |-> FALSE, running |-> TRUE]
  BY DEF ClientInit, s, job
<1>6. f \in AnyFace BY <1>2, <1>3, <1>4, <1>5 DEF AnyFace
<1>7. /\ f.posted = s /\ f.pit = {} /\ f.prefixes = {} /\ f.ops = NothingUnderWay
      /\ ~f.hasImpl /\ ~f.isConnecting /\ ~f.isReceiving /\ f.queue = 0
      /\ f.issued = {} /\ f.told = {} /\ f.dropped = {}
  BY <1>5
<1>8. OutcomeInv(f, {}, 0)
  <2>1. \A i \in 1 .. Len(s) : s[i].op \notin IssueOp BY <1>1, <1>2 DEF IssueOp
  <2>2. Waiting(s) = {} BY <2>1 DEF Waiting
  <2>3. WaitOnce(s) BY <2>1 DEF WaitOnce
  <2> QED BY <1>7, <2>2, <2>3, AppIdsNone DEF OutcomeInv, Divided
<1>9. TransportInv(f)
  <2>1. \A i \in 1 .. Len(s) : s[i].op \notin SocketOp BY <1>1, <1>2 DEF SocketOp
  <2>2. ImplInv(f) BY <1>4, <1>7, <2>1 DEF ImplInv
  <2>3. NothingUnderWay["write"] = 0 /\ "write" \in SocketOp BY <1>4 DEF SocketOp
  <2>4. WriteInv(f) BY <1>7, <2>1, <2>3 DEF WriteInv, Fresh
  <2>5. ConnectInv(f) BY <1>7 DEF ConnectInv
  <2> QED BY <2>2, <2>4, <2>5 DEF TransportInv
<1>10. ListenInv(f) BY <1>7 DEF ListenInv, Waits
<1>11. nCalls = 0 BY DEF ClientInit
<1> QED BY <1>6, <1>8, <1>9, <1>10, <1>11 DEF ClientInv

LEMMA ClientInvNext ==
    ASSUME ClientInv, [ClientNext]_clientVars
    PROVE  ClientInv'
<1>1. CASE UNCHANGED clientVars
  <2>1. f' = f /\ nCalls' = nCalls BY <1>1 DEF clientVars
  <2> QED BY <2>1, FaceInvPrime
<1>2. CASE ClientNext
  <2>1. CASE RunPosted BY <2>1, RunPostedInv
  <2>2. CASE Receive BY <2>2, ReceiveInv
  <2>3. ASSUME NEW e \in f.pit, Timeout(e) PROVE ClientInv' BY <2>3, TimeoutInv
  <2>4. ASSUME NEW op \in SocketOp, NEW ok \in BOOLEAN, FinishOp(op, ok) PROVE ClientInv'
    BY <2>4, FinishOpInv
  <2>5. ASSUME \/ \E fits \in BOOLEAN : expressInterest(fits)
               \/ registerPrefix
               \/ \E n \in f.issued :
                     unregisterPrefix(n) \/ unsetRegisteredFilter(n) \/ removePendingInterest(n)
               \/ removeAllPendingInterests
               \/ \E op \in {"putData", "putNack"}, fits \in BOOLEAN : put(op, fits)
               \/ setInterestFilter
               \/ \E n \in 1 .. nCalls : unsetInterestFilter(n)
               \/ shutdown
        PROVE  ClientInv'
    BY <2>5, CallsInv
  <2> QED BY <1>2, <2>1, <2>2, <2>3, <2>4, <2>5 DEF ClientNext
<1> QED BY <1>1, <1>2

-----------------------------------------------------------------------------
(* What an application can rely on *)

\* The invariant of the tables, the transport and the handlers that are ready holds in
\* every state of the face, for any number of calls, errors and Interests.
THEOREM ClientInvariant == ClientSpec => []ClientInv
<1>1. ClientInit => ClientInv BY ClientInvInit
<1>2. ClientInv /\ [ClientNext]_clientVars => ClientInv' BY ClientInvNext
<1> QED BY <1>1, <1>2, PTL DEF ClientSpec

\* While the transport is connected and Face has a pending Interest or a registered
\* prefix, a read is under way, unless an exception has left the handler of one since the
\* transport was last paused or closed: onEmptyPitOrNoRegisteredPrefixes pauses no
\* application that waits, ensureConnected resumes in time, and every other way out of
\* handleAsyncReceive starts the next read.
THEOREM ListensWhileWaiting == ClientSpec => []KeepsListening
<1>1. ClientInv => KeepsListening
  <2> SUFFICES ASSUME ClientInv, f.running, ~f.isConnecting, f.pit # {} \/ f.prefixes # {}
               PROVE  AwaitedOp("receive") \/ f.deaf
    BY DEF KeepsListening
  <2>1. Awaits(f) BY DEF ClientInv, ListenInv, Waits
  <2>2. f.posted \in Seq(AnyJob) BY DEF ClientInv, AnyFace
  <2>3. DOMAIN f.posted = 1 .. Len(f.posted) BY <2>2, LenProperties
  <2> QED BY <2>1, <2>3 DEF AwaitedOp, Awaits
<1> QED BY <1>1, ClientInvariant, PTL

\* Every Interest of the application has one outcome: Face neither loses one between
\* expressInterest and its callback nor invokes a callback for one that was dropped.
THEOREM OutcomeIsOne == ClientSpec => []OneOutcome
<1>1. ClientInv => OneOutcome
  <2> SUFFICES ASSUME ClientInv, f.running, NEW n \in f.issued
               PROVE  /\ Cardinality(Pending(n)) <= 1
                      /\ Cardinality({w \in {"posted", "pending", "told", "dropped"} :
                              CASE w = "posted" -> Posted(n)
                                [] w = "pending" -> Pending(n) # {}
                                [] w = "told" -> n \in f.told
                                [] w = "dropped" -> n \in f.dropped}) = 1
    BY DEF OneOutcome
  <2>1. /\ f.issued \subseteq 1 .. nCalls /\ PendingOnce(f.pit) /\ nCalls \in Nat
        /\ Divided(f.issued, Waiting(f.posted), AppIds(f.pit), f.told, f.dropped, {})
    BY DEF ClientInv, OutcomeInv
  <2>2. n > 0 BY <2>1
  <2>3. f.posted \in Seq(AnyJob) /\ f.pit \in SUBSET Entry BY DEF ClientInv, AnyFace
  <2>4. DOMAIN f.posted = 1 .. Len(f.posted) BY <2>3, LenProperties
  <2>5. Posted(n) <=> n \in Waiting(f.posted) BY <2>4 DEF Posted, Waiting, IssueOp
  <2>6. (Pending(n) # {}) <=> n \in AppIds(f.pit)
    BY <2>2 DEF Pending, AppIds
  <2>7. Cardinality(Pending(n)) <= 1
    <3>1. CASE Pending(n) = {} BY <3>1, FS_EmptySet
    <3>2. CASE Pending(n) # {}
      <4>1. PICK e \in Pending(n) : TRUE BY <3>2
      <4>2. Pending(n) = {e} BY <4>1, <2>1 DEF Pending, PendingOnce
      <4> QED BY <4>2, FS_Singleton
    <3> QED BY <3>1, <3>2
  <2> DEFINE holds(w) == CASE w = "posted" -> Posted(n)
                           [] w = "pending" -> Pending(n) # {}
                           [] w = "told" -> n \in f.told
                           [] w = "dropped" -> n \in f.dropped
             outcomes == {w \in {"posted", "pending", "told", "dropped"} : holds(w)}
  <2>8. /\ holds("posted") = Posted(n)
        /\ holds("pending") = (Pending(n) # {})
        /\ holds("told") = (n \in f.told)
        /\ holds("dropped") = (n \in f.dropped)
    OBVIOUS
  <2>9. /\ "posted" \in outcomes <=> n \in Waiting(f.posted)
        /\ "pending" \in outcomes <=> n \in AppIds(f.pit)
        /\ "told" \in outcomes <=> n \in f.told
        /\ "dropped" \in outcomes <=> n \in f.dropped
        /\ outcomes \subseteq {"posted", "pending", "told", "dropped"}
    <3> HIDE DEF holds
    <3> QED BY <2>5, <2>6, <2>8
  <2> HIDE DEF outcomes
  <2>10. \/ /\ n \in Waiting(f.posted)
            /\ n \notin AppIds(f.pit) /\ n \notin f.told /\ n \notin f.dropped
         \/ /\ n \in AppIds(f.pit)
            /\ n \notin Waiting(f.posted) /\ n \notin f.told /\ n \notin f.dropped
         \/ /\ n \in f.told
            /\ n \notin Waiting(f.posted) /\ n \notin AppIds(f.pit) /\ n \notin f.dropped
         \/ /\ n \in f.dropped
            /\ n \notin Waiting(f.posted) /\ n \notin AppIds(f.pit) /\ n \notin f.told
    BY <2>1 DEF Divided
  <2>11. \/ outcomes = {"posted"} \/ outcomes = {"pending"}
         \/ outcomes = {"told"} \/ outcomes = {"dropped"}
    BY <2>9, <2>10
  <2>12. Cardinality(outcomes) = 1 BY <2>11, FS_Singleton
  <2> QED BY <2>7, <2>12 DEF outcomes, holds
<1> QED BY <1>1, ClientInvariant, PTL

=============================================================================
