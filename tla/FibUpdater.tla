----------------------------- MODULE FibUpdater -----------------------------
(***************************************************************************)
(* How rib/fib-updater computes the FIB updates and the changes of         *)
(* inherited routes that an update of the RIB asks for.                    *)
(*                                                                         *)
(* The updates under computation are a record: fib maps <<name, face>> to  *)
(* the FIB update for it and inh to whether the entry of that name will    *)
(* inherit a route for that face. A later update for the same name and     *)
(* face replaces an earlier one, as addFibUpdate does and as applying the  *)
(* changes of inherited routes in order amounts to. invalid says that the  *)
(* computation dereferenced a null pointer.                                *)
(***************************************************************************)
EXTENDS RibEntry

NoChange == [f \in {} |-> {}]
NoUpdates == [fib |-> NoChange, inh |-> NoChange, invalid |-> FALSE]

AddNexthop(cost) == [action |-> "add", cost |-> cost]
RemoveNexthop == [action |-> "remove", cost |-> 0]

Then(u, v) ==
    [fib |-> Over(v.fib, u.fib), inh |-> Over(v.inh, u.inh), invalid |-> u.invalid \/ v.invalid]

\* addFibUpdate for the entry's own routes.
Install(n, f, cost) == [NoUpdates EXCEPT !.fib = Single(<<n, f>>, AddNexthop(cost))]
Uninstall(n, f) == [NoUpdates EXCEPT !.fib = Single(<<n, f>>, RemoveNexthop)]

\* addInheritedRoute or removeInheritedRoute, with the FIB update that goes with it.
\* routes is a RouteSet, faces a set of faces.
AddInherited(n, routes) ==
    [NoUpdates EXCEPT !.fib = [x \in {n} \X DOMAIN routes |-> AddNexthop(routes[x[2]])],
                      !.inh = [x \in {n} \X DOMAIN routes |-> TRUE]]
RemoveInherited(n, faces) ==
    [NoUpdates EXCEPT !.fib = [x \in {n} \X faces |-> RemoveNexthop],
                      !.inh = [x \in {n} \X faces |-> FALSE]]

Only(routes, faces) == [f \in DOMAIN routes \cap faces |-> routes[f]]

addInheritedRoutes(n, e, routesToAdd) ==
    AddInherited(n, Only(routesToAdd, {f \in Face : ~hasFaceId(e, f)}))

removeInheritedRoutes(n, e, routesToRemove) ==
    RemoveInherited(n, DOMAIN routesToRemove \cap e.inherited)

(* modifyChildrensInheritedRoutes and traverseSubTree. The traversal stops at
   entries with capture, and a face is dropped from both sets for an entry that
   has its own inheritable route for it, and for all below. For every entry d
   below, path is the part of its ancestry that the traversal went through. *)
modifyChildrensInheritedRoutes(rib, roots, routesToAdd, routesToRemove) ==
    LET path(d) == {x \in AncestorsAndSelf(rib, d) : AncestorsAndSelf(rib, x) \cap roots # {}}
        reached == {d \in DOMAIN rib : path(d) # {} /\ \A x \in path(d) : ~hasCapture(rib[x])}
        passes(d, f) == \A x \in path(d) : ~hasChildInheritOnFaceId(rib[x], f)
        removed == {x \in reached \X routesToRemove :
                        passes(x[1], x[2]) /\ x[2] \in rib[x[1]].inherited}
        added == {x \in reached \X DOMAIN routesToAdd :
                        passes(x[1], x[2]) /\ ~hasFaceId(rib[x[1]], x[2])}
    IN  Then([NoUpdates EXCEPT !.fib = [x \in removed |-> RemoveNexthop],
                               !.inh = [x \in removed |-> FALSE]],
             [NoUpdates EXCEPT !.fib = [x \in added |-> AddNexthop(routesToAdd[x[2]])],
                               !.inh = [x \in added |-> TRUE]])

createFibUpdatesForNewRibEntry(rib, n, route) ==
    LET parent == findParent(rib, n)
        ancestorRoutes == getAncestorRoutes(rib, parent)
        below == {m \in Below(rib, n) : rib[m].parent = parent}
        self == Single(route.face, route.cost)
        own == Install(n, route.face, route.cost)
        inherit == AddInherited(n, Only(ancestorRoutes, Face \ {route.face}))
        blocked == DOMAIN ancestorRoutes
    IN  CASE ~route.ci /\ ~route.cap -> Then(own, inherit)
          [] route.ci /\ route.cap ->
                Then(own, modifyChildrensInheritedRoutes(rib, below, self, blocked))
          [] route.ci /\ ~route.cap ->
                Then(Then(own, inherit),
                     modifyChildrensInheritedRoutes(rib, below, Over(self, ancestorRoutes), {}))
          [] ~route.ci /\ route.cap ->
                Then(own, modifyChildrensInheritedRoutes(rib, below, NoRoutes, blocked))

createFibUpdatesForNewRoute(rib, n, e, route, captureWasTurnedOn) ==
    LET f == route.face
        cheaper(S) == S # {} /\ Cheapest(e, S).cost < route.cost
        routesToAdd == IF route.ci /\ ~cheaper(InheritableOnFace(e, f))
                         THEN Single(f, route.cost) ELSE NoRoutes
        routesToRemove == IF captureWasTurnedOn THEN getAncestorRoutes(rib, e.parent) ELSE NoRoutes
        below == modifyChildrensInheritedRoutes(rib, children(rib, n), routesToAdd,
                                                DOMAIN routesToRemove)
        own == IF cheaper(OnFace(e, f)) THEN NoUpdates ELSE Install(n, f, route.cost)
    IN  Then(Then(removeInheritedRoutes(n, e, routesToRemove), below), own)

(* The entry e already has the new fields of the route. A route that was the
   cheapest of its face and is no longer gives way to the cheapest inheritable
   one: there may be none, and the pointer to it is null. *)
createFibUpdatesForUpdatedRoute(rib, n, e, route, existing) ==
    LET f == route.face
        lowest == getRouteWithLowestCostByFaceId(e, f).cost
        inheritable == InheritableOnFace(e, f)
        prevRoute == getRouteWithLowestCostAndChildInheritByFaceId(e, f)
        isLowestInheritable == inheritable = {} \/ route.cost <= prevRoute.cost
        costDidChange == route.cost # existing.cost
        flagsDidChange == <<route.ci, route.cap>> # <<existing.ci, existing.cap>>
        ancestorRoutes == getAncestorRoutes(rib, e.parent)
        toChildren(add, remove) ==
            modifyChildrensInheritedRoutes(rib, children(rib, n), add, remove)
        own == CASE ~costDidChange -> NoUpdates
                 [] costDidChange /\ route.cost <= lowest -> Install(n, f, route.cost)
                 [] costDidChange /\ existing.cost < lowest /\ lowest < route.cost ->
                        IF inheritable = {} THEN [NoUpdates EXCEPT !.invalid = TRUE]
                                            ELSE Install(n, f, prevRoute.cost)
                 [] OTHER -> NoUpdates
        cost == IF costDidChange /\ isLowestInheritable /\ ~flagsDidChange /\ route.ci
                  THEN toChildren(Single(f, route.cost), {}) ELSE NoUpdates
        inherit == CASE ~existing.ci /\ route.ci /\ isLowestInheritable ->
                            toChildren(Single(f, route.cost), {})
                     [] existing.ci /\ ~route.ci ->
                            toChildren(IF inheritable # {} THEN Single(f, prevRoute.cost)
                                                           ELSE Only(ancestorRoutes, {f}), {f})
                     [] OTHER -> NoUpdates
        capture == CASE ~existing.cap /\ route.cap ->
                            Then(removeInheritedRoutes(n, e, ancestorRoutes),
                                 toChildren(NoRoutes, DOMAIN ancestorRoutes))
                     [] existing.cap /\ ~route.cap ->
                            Then(addInheritedRoutes(n, e, ancestorRoutes),
                                 toChildren(ancestorRoutes, {}))
                     [] OTHER -> NoUpdates
    IN  Then(Then(own, cost), Then(inherit, capture))

\* temp is the entry without the erased route.
createFibUpdatesForErasedRoute(rib, n, temp, route, captureWasTurnedOff) ==
    LET f == route.face
        ancestorRoutes == getAncestorRoutes(rib, temp.parent)
        unblocks == captureWasTurnedOff /\ temp.routes # <<>>
        routesToAdd == IF (route.cap /\ unblocks) \/ (route.ci /\ ~route.cap /\ ~hasCapture(temp))
                         THEN ancestorRoutes ELSE NoRoutes
        self == IF route.cap /\ unblocks THEN addInheritedRoutes(n, temp, ancestorRoutes)
                                         ELSE NoUpdates
        below == IF route.ci \/ route.cap
                   THEN modifyChildrensInheritedRoutes(rib, children(rib, n), routesToAdd,
                                                       IF route.ci THEN {f} ELSE {})
                   ELSE NoUpdates
        uncovered == IF ~hasCapture(temp) /\ temp.routes # <<>>
                       THEN AddInherited(n, Only(ancestorRoutes, {f})) ELSE NoUpdates
    IN  Then(Then(Uninstall(n, f), self), Then(below, uncovered))

\* Mutant: the inherited next hops of an erased entry are left in the FIB.
ErasedWithoutInherited(n, e) == NoUpdates

createFibUpdatesForErasedRibEntry(n, e) ==
    [NoUpdates EXCEPT !.fib = [x \in {n} \X e.inherited |-> RemoveNexthop]]

computeUpdatesForRegistration(rib, n, route) ==
    IF n \notin DOMAIN rib THEN createFibUpdatesForNewRibEntry(rib, n, route)
    ELSE IF ~hasRoute(rib[n], route)
      THEN createFibUpdatesForNewRoute(rib, n, rib[n], route, ~hasCapture(rib[n]) /\ route.cap)
    ELSE LET i == CHOOSE i \in findRoute(rib[n], route) : TRUE
         IN  createFibUpdatesForUpdatedRoute(rib, n, [rib[n] EXCEPT !.routes[i] = route], route,
                                             rib[n].routes[i])

computeUpdatesForUnregistration(rib, n, route) ==
    IF n \notin DOMAIN rib \/ ~hasRoute(rib[n], route) THEN NoUpdates
    ELSE LET e == rib[n]
             existing == e.routes[CHOOSE i \in findRoute(e, route) : TRUE]
             temp == eraseRoute(e, route)
             erased == createFibUpdatesForErasedRoute(rib, n, temp, existing,
                                                      hasCapture(e) /\ ~hasCapture(temp))
             next == IF Cardinality(OnFace(e, route.face)) > 1
                       THEN createFibUpdatesForNewRoute(rib, n, temp,
                                getRouteWithSecondLowestCostByFaceId(e, route.face), FALSE)
                       ELSE NoUpdates
             last == IF Len(e.routes) = 1 THEN createFibUpdatesForErasedRibEntry(n, e)
                                          ELSE NoUpdates
         IN  Then(Then(erased, next), last)

=============================================================================
