----------------------------- MODULE RibManager -----------------------------
(***************************************************************************)
(* The RIB at work: rib/rib-manager takes registrations and face events,   *)
(* rib/rib queues the updates and applies one at a time, rib/fib-updater   *)
(* sends the FIB updates of each as commands to mgmt/fib-manager and waits *)
(* for the answers. Commands are answered in any order; an answer may come *)
(* too late, whether or not the command was executed.                      *)
(*                                                                         *)
(* The RIB service is a record s; an operator on it stands for a member    *)
(* function and returns the record after it:                               *)
(*   rib, faceMap            the tree and m_faceMap                        *)
(*   queue, busy             m_updateBatches and m_isUpdateInProgress      *)
(*   batchFace, batchUpdates, otherUpdates, inhUpdates                     *)
(*                           the FibUpdater's members for the last batch   *)
(*   sent                    commands that wait for an answer, with the    *)
(*                           batch that their callbacks are bound to       *)
(*   timers                  scheduled expirations of routes               *)
(*   results                 what the callbacks of each request were told  *)
(*   running                 FALSE once NFD has terminated                 *)
(*   odd                     history, read by the properties alone: kinds  *)
(*                           of event that the FIB updater does not handle *)
(*                           in all cases (see FibFollowsRib)              *)
(*                                                                         *)
(* Name leaves out the prefixes of the management itself: at the start     *)
(* registerTopPrefix puts /localhost/nfd into the RIB without an update of *)
(* the FIB, and a next hop for /localhost/nfd/rib into the FIB without a   *)
(* route (/localhop/nfd likewise, if enabled).                             *)
(***************************************************************************)
EXTENDS FibUpdater

CONSTANTS
    MaxRequests,        \* registrations and unregistrations in a behaviour
    MaxFetches,         \* fetches of the face dataset in a behaviour
    MAX_NUM_TIMEOUTS,
    FIB_MAX_DEPTH,
    Expiring,           \* whether a registration may have an expiration period
    Permanent           \* faces that exist from the start and are never destroyed

ASSUME RibManagerAssumption ==
    /\ MaxRequests \in Nat
    /\ MaxFetches \in Nat
    /\ MAX_NUM_TIMEOUTS \in Nat
    /\ FIB_MAX_DEPTH \in Nat
    /\ Expiring \subseteq BOOLEAN
    /\ Permanent \subseteq Face

VARIABLES
    s,              \* the RIB service
    fib,            \* the FIB: <<name, face>> to cost
    faces,          \* of each face "new", "up" or "down"
    registered,     \* m_registeredFaces
    destroyed,      \* faces for which onFaceDestroyedEvent is scheduled
    fetched,        \* face datasets that are on their way
    fetches,        \* number of fetches so far
    requests        \* number of requests so far

vars == <<s, fib, faces, registered, destroyed, fetched, fetches, requests>>

Init ==
    /\ s = [rib |-> NoChange, faceMap |-> [f \in Face |-> <<>>], queue |-> <<>>, busy |-> FALSE,
            batchFace |-> 0, batchUpdates |-> {}, otherUpdates |-> {}, inhUpdates |-> NoChange,
            sent |-> {}, timers |-> {}, results |-> <<>>, running |-> TRUE, odd |-> {}]
    /\ fib = NoChange
    /\ faces = [f \in Face |-> IF f \in Permanent THEN "up" ELSE "new"]
    /\ registered = {}
    /\ destroyed = {}
    /\ fetched = {}
    /\ fetches = 0
    /\ requests = 0

Update(action, n, route, id) == [action |-> action, name |-> n, route |-> route, id |-> id]

\* The callbacks of request id, if the update has any.
Tell(t, id, result) ==
    IF id = 0 THEN t ELSE [t EXCEPT !.results[id] = Append(@, result)]

Cancel(t, ev) == [t EXCEPT !.timers = {x \in @ : x.ev # ev}]

EventOf(t, n, route) ==
    IF n \in DOMAIN t.rib /\ hasRoute(t.rib[n], route)
      THEN t.rib[n].routes[CHOOSE i \in findRoute(t.rib[n], route) : TRUE].ev ELSE 0

(***************************************************************************)
(* Applying a batch                                                        *)
(***************************************************************************)
\* Mutant: the event of the new route is cancelled with that of the old one.
InsertCancelling(t, n, route) ==
    LET isNew == n \notin DOMAIN t.rib \/ ~hasRoute(t.rib[n], route)
    IN  [(IF isNew THEN t ELSE Cancel(t, route.ev)) EXCEPT
            !.rib = Insert(@, n, route),
            !.faceMap[route.face] = IF isNew THEN Append(@, n) ELSE @]

\* Rib::insert with the face map; the event of an overwritten route is cancelled.
RibInsert(t, n, route) ==
    LET isNew == n \notin DOMAIN t.rib \/ ~hasRoute(t.rib[n], route)
    IN  [Cancel(t, EventOf(t, n, route)) EXCEPT
            !.rib = Insert(@, n, route),
            !.faceMap[route.face] = IF isNew THEN Append(@, n) ELSE @]

\* Rib::erase: the entry leaves the list of the face with its last route for it.
RibErase(t, n, route) ==
    LET rib == Erase(t.rib, n, route)
        keeps == n \in DOMAIN rib /\ hasFaceId(rib[n], route.face)
    IN  [Cancel(t, EventOf(t, n, route)) EXCEPT
            !.rib = rib,
            !.faceMap[route.face] = IF keeps THEN @ ELSE SeqWithout(@, {n})]

\* An inherited route of a name without entry fails an assertion.
modifyInheritedRoutes(t) ==
    LET inh == t.inhUpdates
        names == {x[1] : x \in DOMAIN inh}
        gained(n) == {f \in Face : <<n, f>> \in DOMAIN inh /\ inh[<<n, f>>]}
        lost(n) == {f \in Face : <<n, f>> \in DOMAIN inh /\ ~inh[<<n, f>>]}
        entry(n) == [t.rib[n] EXCEPT !.inherited = (@ \ lost(n)) \cup gained(n)]
    IN  IF names \subseteq DOMAIN t.rib
          THEN [t EXCEPT !.rib = [n \in DOMAIN t.rib |-> entry(n)]]
          ELSE [t EXCEPT !.running = FALSE]

onFibUpdateSuccess(t, batch) ==
    LET applied == IF batch.action = "register" THEN RibInsert(t, batch.name, batch.route)
                                                ELSE RibErase(t, batch.name, batch.route)
    IN  Tell([modifyInheritedRoutes(applied) EXCEPT !.busy = FALSE], batch.id, "ok")

\* Mutant: a failed batch stays in progress.
FailureStaysBusy(t, batch) == Tell(t, batch.id, "error")

onFibUpdateFailure(t, batch) == Tell([t EXCEPT !.busy = FALSE], batch.id, "error")

(***************************************************************************)
(* Sending a batch                                                         *)
(***************************************************************************)
Verb(update) == IF update.action = "add" THEN "add-nexthop" ELSE "remove-nexthop"

sendUpdates(t, updates, batch) ==
    [t EXCEPT !.sent = @ \cup {[update |-> x, verb |-> Verb(x), batch |-> batch, nTimeouts |-> 0]
                               : x \in updates}]

sendUpdatesForNonBatchFaceId(t, batch) ==
    IF t.otherUpdates # {} THEN sendUpdates(t, t.otherUpdates, batch)
                           ELSE onFibUpdateSuccess(t, batch)

computeUpdates(rib, batch) ==
    IF batch.action = "register"
      THEN computeUpdatesForRegistration(rib, batch.name, batch.route)
      ELSE computeUpdatesForUnregistration(rib, batch.name, batch.route)

Odd(t, kind) == [t EXCEPT !.odd = @ \cup {kind}]

\* A registration without capture, on a face for which the entry has no inherited
\* route and no route of another origin.
IsPlain(rib, batch) ==
    batch.action = "register" =>
        /\ ~batch.route.cap
        /\ batch.name \in DOMAIN rib =>
              LET e == rib[batch.name]
              IN  /\ batch.route.face \notin e.inherited
                  /\ OnFace(e, batch.route.face) \subseteq findRoute(e, batch.route)

sendUpdatesForBatchFaceId(t, batch) ==
    IF t.batchUpdates # {} THEN sendUpdates(t, t.batchUpdates, batch)
                           ELSE sendUpdatesForNonBatchFaceId(t, batch)

\* The updates u sorted into those for the face of the batch and the others.
addFibUpdates(t, batch, u) ==
    LET updates == {[name |-> x[1], face |-> x[2], action |-> u.fib[x].action,
                     cost |-> u.fib[x].cost] : x \in DOMAIN u.fib}
        own(x) == x.face = batch.route.face
    IN  [t EXCEPT !.batchFace = batch.route.face,
                  !.batchUpdates = {x \in updates : own(x) /\ batch.action # "remove-face"},
                  !.otherUpdates = {x \in updates : ~own(x)},
                  !.inhUpdates = u.inh,
                  !.running = ~u.invalid,
                  !.odd = IF IsPlain(t.rib, batch) THEN @ ELSE @ \cup {"update"}]

\* Removing the route from a copy of its entry already cancels its expiration.
computeAndSendFibUpdates(t, batch) ==
    sendUpdatesForBatchFaceId(
        addFibUpdates(IF batch.action = "register" THEN t
                      ELSE Cancel(t, EventOf(t, batch.name, batch.route)),
                      batch, computeUpdates(t.rib, batch)),
        batch)

\* The update at the head of the queue, if none is in progress.
sendNextBatch(v) ==
    IF v.busy \/ ~v.running THEN v
    ELSE computeAndSendFibUpdates([v EXCEPT !.busy = TRUE, !.queue = Tail(@)], Head(v.queue))

\* sendBatchFromQueue, called again by a batch that needs no FIB update.
sendBatchFromQueue(t) ==
    LET after[i \in 0 .. Len(t.queue)] == IF i = 0 THEN t ELSE sendNextBatch(after[i - 1])
    IN  after[Len(t.queue)]

Enqueue(t, update) == [t EXCEPT !.queue = Append(@, update)]

beginApplyUpdate(t, update) == sendBatchFromQueue(Enqueue(t, update))

\* The removals of the routes of face f, in the order of its list of entries.
FaceRemovals(t, f) ==
    LET names == t.faceMap[f]
        mine(e) == SeqWithout(e.routes, {r \in ToSet(e.routes) : r.face # f})
        ofEntry(n) == [i \in 1 .. Len(mine(t.rib[n])) |->
                          Update("remove-face", n, mine(t.rib[n])[i], 0)]
        upTo[i \in 0 .. Len(names)] == IF i = 0 THEN <<>> ELSE upTo[i - 1] \o ofEntry(names[i])
    IN  upTo[Len(names)]

beginRemoveFace(t, f) == sendBatchFromQueue([t EXCEPT !.queue = @ \o FaceRemovals(t, f)])

(***************************************************************************)
(* Answers from the FIB                                                    *)
(***************************************************************************)
onUpdateSuccess(t, c) ==
    IF c.update.face = t.batchFace
      THEN LET v == [t EXCEPT !.batchUpdates = @ \ {c.update}]
           IN  IF v.batchUpdates = {} THEN sendUpdatesForNonBatchFaceId(v, c.batch) ELSE v
      ELSE LET v == [t EXCEPT !.otherUpdates = @ \ {c.update}]
           IN  IF v.otherUpdates = {} THEN onFibUpdateSuccess(v, c.batch) ELSE v

\* The face is not found.
onFaceNotFound(t, c) ==
    IF c.update.face = t.batchFace
      THEN onFibUpdateFailure(IF t.sent = {} THEN t ELSE Odd(t, "answer"), c.batch)
    ELSE LET v == [t EXCEPT !.otherUpdates = @ \ {c.update}]
         IN  IF v.otherUpdates = {} THEN onFibUpdateSuccess(v, c.batch) ELSE v

\* A command that timed out is sent again, as an addition.
onUpdateTimeout(t, c) ==
    IF c.nTimeouts < MAX_NUM_TIMEOUTS
      THEN [(IF c.verb = "add-nexthop" THEN t ELSE Odd(t, "retry")) EXCEPT
                !.sent = @ \cup {[c EXCEPT !.verb = "add-nexthop", !.nTimeouts = @ + 1]}]
      ELSE [t EXCEPT !.running = FALSE]

\* fib-manager: the FIB after the command and the code of the answer.
addNextHop(c) ==
    LET x == <<c.update.name, c.update.face>>
    IN  CASE Len(c.update.name) > FIB_MAX_DEPTH -> [fib |-> fib, code |-> 414]
          [] Len(c.update.name) <= FIB_MAX_DEPTH /\ faces[c.update.face] # "up" ->
                [fib |-> fib, code |-> 410]
          [] OTHER -> [fib |-> Over(Single(x, c.update.cost), fib), code |-> 200]

removeNextHop(c) ==
    [fib |-> [x \in DOMAIN fib \ {<<c.update.name, c.update.face>>} |-> fib[x]], code |-> 200]

Execute(c) == IF c.verb = "add-nexthop" THEN addNextHop(c) ELSE removeNextHop(c)

Answered(c) == [s EXCEPT !.sent = @ \ {c}]

Respond(c) ==
    \E r \in {Execute(c)} :
        /\ fib' = r.fib
        /\ s' = sendBatchFromQueue(
                    CASE r.code = 200 -> onUpdateSuccess(Answered(c), c)
                      [] r.code = 410 -> onFaceNotFound(Answered(c), c)
                      [] OTHER -> [s EXCEPT !.running = FALSE])
        /\ UNCHANGED <<faces, registered, destroyed, fetched, fetches, requests>>

Timeout(c) ==
    /\ fib' \in {fib, Execute(c).fib}
    /\ s' = onUpdateTimeout(Answered(c), c)
    /\ UNCHANGED <<faces, registered, destroyed, fetched, fetches, requests>>

(***************************************************************************)
(* Requests, expirations and faces                                         *)
(***************************************************************************)
beginRibUpdate(t, update) == beginApplyUpdate([t EXCEPT !.results = Append(@, <<>>)], update)

beginAddRoute(t, n, route, id) ==
    LET x == [ev |-> id, name |-> n, route |-> route]
    IN  beginRibUpdate(IF route.ev = 0 THEN t ELSE [t EXCEPT !.timers = @ \cup {x}],
                       Update("register", n, route, id))

beginRemoveRoute(t, n, route, id) == beginRibUpdate(t, Update("unregister", n, route, id))

registerEntry(n, f, o, cost, ci, cap, expires) ==
    /\ requests < MaxRequests
    /\ Len(n) <= FIB_MAX_DEPTH
    /\ requests' = requests + 1
    /\ s' = beginAddRoute(s, n, [face |-> f, origin |-> o, cost |-> cost, ci |-> ci, cap |-> cap,
                                 ev |-> IF expires THEN requests' ELSE 0], requests')
    /\ registered' = registered \cup {f}
    /\ UNCHANGED <<fib, faces, destroyed, fetched, fetches>>

unregisterEntry(n, f, o) ==
    /\ requests < MaxRequests
    /\ requests' = requests + 1
    /\ s' = beginRemoveRoute(s, n, [face |-> f, origin |-> o], requests')
    /\ UNCHANGED <<fib, faces, registered, destroyed, fetched, fetches>>

onRouteExpiration(x) ==
    /\ x \in s.timers
    /\ s' = beginApplyUpdate([s EXCEPT !.timers = @ \ {x}],
                             Update("unregister", x.name, x.route, 0))
    /\ UNCHANGED <<fib, faces, registered, destroyed, fetched, fetches, requests>>

CreateFace(f) ==
    /\ faces[f] = "new"
    /\ faces' = [faces EXCEPT ![f] = "up"]
    /\ UNCHANGED <<s, fib, registered, destroyed, fetched, fetches, requests>>

\* The next hops of the face go with it. Its notification may be missed.
DestroyFace(f) ==
    /\ faces[f] = "up" /\ f \notin Permanent
    /\ faces' = [faces EXCEPT ![f] = "down"]
    /\ fib' = [x \in {x \in DOMAIN fib : x[2] # f} |-> fib[x]]
    /\ destroyed' \in {destroyed, destroyed \cup {f}}
    /\ UNCHANGED <<s, registered, fetched, fetches, requests>>

\* The face may be one that was created after the dataset was made.
onFaceDestroyedEvent(f) ==
    /\ f \in destroyed
    /\ destroyed' = destroyed \ {f}
    /\ s' = beginRemoveFace(IF faces[f] = "down" THEN s ELSE Odd(s, "stale"), f)
    /\ registered' = registered \ {f}
    /\ UNCHANGED <<fib, faces, fetched, fetches, requests>>

fetchActiveFaces ==
    /\ fetches < MaxFetches
    /\ fetches' = fetches + 1
    /\ fetched' = fetched \cup {{f \in Face : faces[f] = "up"}}
    /\ UNCHANGED <<s, fib, faces, registered, destroyed, requests>>

removeInvalidFaces(active) ==
    /\ active \in fetched
    /\ destroyed' = destroyed \cup (registered \ active)
    /\ fetched' = fetched \ {active}
    /\ UNCHANGED <<s, fib, faces, registered, fetches, requests>>

onFetchActiveFacesFailure(active) ==
    /\ active \in fetched
    /\ fetched' = fetched \ {active}
    /\ UNCHANGED <<s, fib, faces, registered, destroyed, fetches, requests>>

Next ==
    /\ s.running
    /\ \/ \E c \in s.sent : Respond(c) \/ Timeout(c)
       \/ \E x \in s.timers : onRouteExpiration(x)
       \/ \E n \in Name, f \in Face, o \in Origin :
            \/ unregisterEntry(n, f, o)
            \/ \E cost \in Cost, ci, cap \in BOOLEAN, expires \in Expiring :
                 registerEntry(n, f, o, cost, ci, cap, expires)
       \/ \E f \in Face : CreateFace(f) \/ DestroyFace(f) \/ onFaceDestroyedEvent(f)
       \/ fetchActiveFaces
       \/ \E active \in fetched : removeInvalidFaces(active) \/ onFetchActiveFacesFailure(active)

Spec == Init /\ [][Next]_vars

-----------------------------------------------------------------------------
(* What insert and erase maintain piecemeal agrees with the names and routes: the
   pointers between parents and children are those of the longest registered
   prefixes, an entry goes with its last route, and m_faceMap, from which
   beginRemoveFace takes the routes of a face that is gone, lists every entry with a
   route for the face and no other. *)
TreeMatchesNames ==
    /\ \A n \in DOMAIN s.rib : s.rib[n].parent = findParent(s.rib, n) /\ s.rib[n].routes # <<>>
    /\ \A f \in Face : ToSet(s.faceMap[f]) = {n \in DOMAIN s.rib : hasFaceId(s.rib[n], f)}

(* m_isUpdateInProgress is cleared and the queue sent on whatever the answers and
   their order: updates only wait while a command is under way. *)
NeverStuck == s.running /\ s.sent = {} => ~s.busy /\ s.queue = <<>>

(* Every route with an expiration period on a face that exists has its event pending,
   or its removal is queued or under way, unless a late answer applied a failed
   batch. *)
ExpirationPending ==
    s.running /\ "answer" \notin s.odd => \A n \in DOMAIN s.rib : \A x \in ToSet(s.rib[n].routes) :
        LET removes(b) == /\ b.action # "register" /\ b.name = n
                          /\ SameFaceAndOrigin(b.route, x)
        IN  x.ev # 0 /\ faces[x.face] = "up" =>
              \/ \E y \in s.timers : y.ev = x.ev
              \/ \E i \in DOMAIN s.queue : removes(s.queue[i])
              \/ \E c \in s.sent : removes(c.batch)

Quiescent == s.running /\ ~s.busy /\ s.queue = <<>> /\ s.sent = {}

(* The reference: the entry that gives n its next hop for f is n itself if it has
   a route for f, otherwise the nearest ancestor with an inheritable one, no
   further up than the first entry with capture, n included. *)
Captures(e) == \E i \in DOMAIN e.routes : e.routes[i].cap

Giving(n, f) ==
    LET above == {m \in DOMAIN s.rib : IsPrefix(m, n)}
        visible(m) == \A k \in above : Captures(s.rib[k]) /\ k # n => Len(k) <= Len(m)
        offers(m) == IF m = n THEN OnFace(s.rib[n], f) # {}
                     ELSE /\ ~Captures(s.rib[n]) /\ visible(m)
                          /\ InheritableOnFace(s.rib[m], f) # {}
        from == {m \in above : offers(m)}
    IN  {m \in from : \A k \in from : Len(k) <= Len(m)}

(* When all updates are done the FIB has exactly the next hops of the RIB on the
   faces that exist, each route with its own cost, as long as none of four things
   happened: a registration that is not plain, a batch that failed while another
   command of it was under way, a removal that timed out, and the removal of a live
   face that is missing from an old dataset. *)
FibFollowsRib ==
    Quiescent /\ s.odd = {} =>
        /\ DOMAIN fib = {x \in (DOMAIN s.rib) \X Face :
                            faces[x[2]] = "up" /\ Giving(x[1], x[2]) # {}}
        /\ \A x \in DOMAIN fib :
              LET e == s.rib[x[1]]
              IN  OnFace(e, x[2]) # {} => fib[x] = Cheapest(e, OnFace(e, x[2])).cost

(* Whatever the registrations, no next hop stays in the FIB that the RIB does not
   know as a route or an inherited route, and would never remove. *)
NoOrphanNextHop ==
    Quiescent /\ s.odd \subseteq {"update"} =>
        \A x \in DOMAIN fib :
            /\ x[1] \in DOMAIN s.rib
            /\ hasFaceId(s.rib[x[1]], x[2]) \/ x[2] \in s.rib[x[1]].inherited

\* "If the FIB update fails, onFibUpdateFailure() will be called, and the RIB will not
\* be updated" (rib/rib.hpp:123): no update is reported as failed and as applied.
FailedNotApplied == \A i \in DOMAIN s.results : ToSet(s.results[i]) # {"ok", "error"}

=============================================================================
