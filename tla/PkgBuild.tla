------------------------------ MODULE PkgBuild ------------------------------
(***************************************************************************)
(* bpkg pkg-build (src/bpkg/bpkg/pkg-build.cxx): given packages to hold    *)
(* and dependencies to up/down-grade, collect the packages to be built,    *)
(* order them, simulate the plan on the database, refine it with the       *)
(* dependencies that are to be changed or dropped, and execute it, one     *)
(* transaction after the other.  Execution may fail at any of them, and    *)
(* the user goes on with any other request.                                *)
(*                                                                         *)
(* A constraint is the set of versions that satisfy it.  All packages come *)
(* from one archive-based repository that does not change; there are no    *)
(* system packages, configuration variables, patch or recursive upgrades.  *)
(* The order in which a map or a query returns packages is that of Order.  *)
(***************************************************************************)
EXTENDS Naturals, Sequences, SequencesExt, FiniteSets, FiniteSetsExt

CONSTANTS
    Order,          \* the package names
    Versions,       \* the versions
    Depends,        \* for the available <<name, version>>s: the <<dependency, constraint>>s
    Requests,       \* the requests: [hold, dep], sequences of <<name, constraint>>s
    MaxRequests,    \* how many of them are made
    MaxDepth        \* a recursion deeper than that is taken never to end

Names == Range(Order)

\* "No constraint" is every version.
AnyVersion == Versions

\* What is asked for or needed: a name and a constraint.
Dependencies == Names \X SUBSET Versions

\* The names of dependencies.
NamesIn(seq) == [i \in DOMAIN seq |-> seq[i][1]]

\* The packages that a request names; it names none twice.
RequestedBy(r) == r.hold \o r.dep

ASSUME PkgBuildAssumption ==
    /\ Order \in Seq(Range(Order))
    /\ Versions \subseteq Nat \ {0} /\ IsFiniteSet(Versions)
    /\ DOMAIN Depends \subseteq Names \X Versions
    /\ \A nv \in DOMAIN Depends : Depends[nv] \in Seq(Dependencies)
    /\ \A r \in Requests :
          /\ r.hold \in Seq(Dependencies) /\ r.dep \in Seq(Dependencies)
          /\ \A i, j \in DOMAIN RequestedBy(r) : RequestedBy(r)[i][1] = RequestedBy(r)[j][1] => i = j
    /\ MaxRequests \in Nat /\ MaxDepth \in Nat

VARIABLES
    selected,   \* the database: the selected_package of each name
    phase,      \* "idle", "plan", "disfigure", "build", "hold", "end"
    request,    \* its arguments
    pkgs,       \* the build_packages object: the map and the ordered list
    deps,       \* the decisions on dependencies, as <<name, version>>s (0 is drop)
    scratch,    \* is the plan to be rebuilt from scratch?
    pos,        \* the position on the list
    outcome,    \* of the last pkg-build: see End()
    held,       \* the packages configured and held when it was started
    requests    \* the number of requests so far

plan == <<request, pkgs, deps, scratch, held, requests>>
vars == <<selected, phase, plan, pos, outcome>>

NotSelected == [state |-> "none", version |-> 0, hold_package |-> FALSE, hold_version |-> FALSE,
                prerequisites |-> {}]

\* optional<bool>.
Null == 0
False == 1
True == 2

\* A build_package; "absent" if it is not in the map, "entered" if it has no action.
Absent ==
    [action |-> "absent", available |-> 0, hold_package |-> Null, hold_version |-> Null,
     constraints |-> {}, user |-> FALSE, unhold |-> FALSE, reconfigure |-> FALSE]

NoPackages == [map |-> [n \in Names |-> Absent], list |-> <<>>, status |-> "ok"]

NoRequest == [hold |-> <<>>, dep |-> <<>>]

Init ==
    /\ selected = [n \in Names |-> NotSelected]
    /\ phase = "idle" /\ pos = 0
    /\ request = NoRequest
    /\ pkgs = NoPackages /\ deps = <<>> /\ scratch = TRUE
    /\ outcome = "none" /\ held = {} /\ requests = 0

\* The databases, the entries of the map, and the plans.
Packages ==
    [state : {"none", "fetched", "unpacked", "configured"}, version : Versions \cup {0},
     hold_package : BOOLEAN, hold_version : BOOLEAN, prerequisites : SUBSET Dependencies]

Databases == [Names -> Packages]

Entries ==
    [action : {"absent", "entered", "adjust", "build", "drop"}, available : Versions \cup {0},
     hold_package : {Null, False, True}, hold_version : {Null, False, True},
     constraints : SUBSET SUBSET Versions, user : BOOLEAN, unhold : BOOLEAN, reconfigure : BOOLEAN]

Statuses == {"ok", "failed", "assertion", "refused", "endless"}

Plans == [map : [Names -> Entries], list : Seq(Names), status : Statuses]

\* Where F leads from s: F[e] is the step for the element e of seq.
Fold(F, s, seq) ==
    LET after[i \in 0 .. Len(seq)] == IF i = 0 THEN s ELSE F[seq[i]][after[i - 1]]
    IN  after[Len(seq)]

\* The elements of seq that are in the set, and all but the one at i.
Those(seq, set) ==
    Fold([e \in Range(seq) |-> [t \in Seq(Range(seq)) |-> IF e \in set THEN Append(t, e) ELSE t]],
         <<>>, seq)

Available(n) == {v \in Versions : <<n, v>> \in DOMAIN Depends}

\* find_available_one(): the latest version, 0 if there is none.
FindAvailable(n, constraint) == Max({0} \cup (Available(n) \cap constraint))

\* The dependencies of a version.
DependenciesOf(n, v) ==
    LET nv == <<n, v>> IN IF nv \in DOMAIN Depends THEN Depends[nv] ELSE <<>>

InOrder(names) == Those(Order, names)

Configured(db, n) == db[n].state = "configured"
PrerequisitesOf(db, n) == {d[1] : d \in db[n].prerequisites}
Dependents(db, n) == {m \in Names : n \in PrerequisitesOf(db, m)}

\* The constraint that m has on its prerequisite n.
ConstraintOf(db, m, n) == (CHOOSE d \in db[m].prerequisites : d[1] = n)[2]

\* build_package::reconfigure().
Reconfigure(db, n, p) ==
    /\ Configured(db, n)
    /\ p.reconfigure \/ (p.action = "build" /\ db[n].version # p.available)

Disfigures(db, n, p) ==
    p.action = "drop" \/ (p.action \in {"build", "adjust"} /\ Reconfigure(db, n, p))

\* build_package::merge(): q is merged into p.
Merge(p, q) ==
    [p EXCEPT !.user = @ \/ q.user, !.constraints = @ \cup q.constraints,
              !.hold_package = Max({@, q.hold_package}), !.hold_version = Max({@, q.hold_version}),
              !.unhold = @ \/ q.unhold, !.reconfigure = @ \/ q.reconfigure]

Stopped(s, status) == [s EXCEPT !.status = status]
Put(s, n, p) == [s EXCEPT !.map[n] = p]

-----------------------------------------------------------------------------
(***************************************************************************)
(* Collection: build_packages::collect_build() and its kin.                *)
(***************************************************************************)
Satisfies(p, q) == \A c \in q.constraints : p.available \in c

\* Which of the entry in the map and the new one is kept?
Pick(old, new) ==
    IF old.action # "build" THEN "new"
    ELSE IF old.available = new.available THEN IF new.user \/ ~old.user THEN "new" ELSE "old"
    ELSE LET first == IF new.available > old.available THEN "new" ELSE "old"
             ok == [new |-> Satisfies(new, old), old |-> Satisfies(old, new)]
         IN  IF ok[first] THEN first
             ELSE IF \E w \in {"new", "old"} : ok[w] THEN CHOOSE w \in {"new", "old"} : ok[w]
             ELSE "conflict"

\* collect_build() without the prerequisites.
Collect(s, n, new) ==
    LET old == s.map[n]
    IN  IF old.action = "drop" THEN Stopped(s, "assertion")
        ELSE IF Pick(old, new) = "conflict" THEN Stopped(s, "failed")
        ELSE Put(s, n, IF Pick(old, new) = "new" THEN Merge(new, old) ELSE Merge(old, new))

\* The prerequisites of a package that is configured as it is are not looked at.
Pruned(db, n, p) == Configured(db, n) /\ db[n].version = p.available

\* The version of a dependency: the selected one if it is good enough.
DependencyVersion(db, d, constraint) ==
    IF db[d].state # "none" /\ db[d].version \in constraint THEN db[d].version
                                                            ELSE FindAvailable(d, constraint)

\* Mutant: a held version is changed for a dependent.
HeldNot(db, d, constraint) == FALSE

\* Is the version held that would have to be changed?
Held(db, d, constraint) == db[d].hold_version /\ db[d].version \notin constraint

\* collect_build_prerequisites() for one of the dependencies; Below is what it
\* does, recursively, for an entry that is going to be kept.
CollectDependency(Below, s, db, d) ==
    LET old == s.map[d[1]]
        constrained == old.action = "entered" /\ old.hold_version = True
        user == CHOOSE c \in old.constraints : TRUE
        constraint == IF constrained THEN user ELSE d[2]
        new == [Absent EXCEPT !.action = "build", !.constraints = {d[2]},
                              !.available = DependencyVersion(db, d[1], constraint)]
        collected == Below[d[1]][Collect(s, d[1], new)]
    IN  IF s.status # "ok" THEN s
        ELSE IF (constrained /\ ~(user \subseteq d[2])) \/ new.available = 0 THEN Stopped(s, "failed")
        ELSE IF Pick(old, new) # "new" \/ old.action = "drop" THEN Collect(s, d[1], new)
        ELSE IF Held(db, d[1], constraint) /\ old.action # "entered" /\ collected.status = "ok"
          THEN Stopped(collected, "failed")
        ELSE collected

\* The step for a package below the deepest level of a recursion.
Endless == [n \in Names |-> [s \in Plans |-> IF s.status # "ok" THEN s ELSE Stopped(s, "endless")]]

\* collect_build_prerequisites() of a package in the map, but for the recursion.
CollectLevel(Below, db) ==
    [n \in Names |-> [s \in Plans |->
        IF s.status # "ok" \/ Pruned(db, n, s.map[n]) THEN s
        ELSE Fold([d \in Dependencies |-> [t \in Plans |-> CollectDependency(Below, t, db, d)]],
                  s, DependenciesOf(n, s.map[n].available))]]

\* The whole of it.
CollectPrerequisites(db) ==
    LET collect[k \in 0 .. MaxDepth] == IF k = 0 THEN Endless ELSE CollectLevel(collect[k - 1], db)
    IN  collect[MaxDepth]

\* The steps of the collection for the arguments.
HoldVersion(db, h) ==
    Max({FindAvailable(h[1], h[2])} \cup (IF h[2] = AnyVersion THEN {db[h[1]].version} ELSE {}))

CollectHold(s, db, h) ==
    IF HoldVersion(db, h) = 0 THEN Stopped(s, "failed")
    ELSE Collect(s, h[1],
                 [Absent EXCEPT !.action = "build", !.available = HoldVersion(db, h), !.hold_package = True,
                                !.hold_version = IF h[2] = AnyVersion THEN False ELSE True,
                                !.constraints = IF h[2] = AnyVersion THEN {} ELSE {h[2]},
                                !.user = TRUE])

Enter(s, d) ==
    Put(s, d[1], [Absent EXCEPT !.action = "entered", !.hold_package = False,
                                !.hold_version = IF d[2] = AnyVersion THEN False ELSE True,
                                !.constraints = IF d[2] = AnyVersion THEN {} ELSE {d[2]},
                                !.user = TRUE])

\* collect_unhold(): a dependency that was held no longer is.
CollectUnhold(s, db, d) ==
    LET p == s.map[d[1]]
    IN  IF ~db[d[1]].hold_package THEN s
        ELSE Put(s, d[1], IF p.action = "entered"
                            THEN Merge([Absent EXCEPT !.action = "adjust", !.unhold = TRUE], p)
                            ELSE [p EXCEPT !.unhold = TRUE])

\* The plan that the arguments call for.
CollectRequest(db, r) ==
    LET enter == [d \in Dependencies |-> [s \in Plans |-> Enter(s, d)]]
        hold == [h \in Dependencies |-> [s \in Plans |-> CollectHold(s, db, h)]]
        unhold == [d \in Dependencies |-> [s \in Plans |-> CollectUnhold(s, db, d)]]
        held_plan == Fold(hold, Fold(enter, NoPackages, r.dep), r.hold)
    IN  Fold(unhold, Fold(CollectPrerequisites(db), held_plan, NamesIn(r.hold)), r.dep)

\* A decision that was made on a previous iteration is added to it
\* (collect_drop() or collect_build()).
CollectDecision(s, db, d) ==
    LET new == [Absent EXCEPT !.action = "build", !.available = d[2], !.user = TRUE]
    IN  IF s.status # "ok" THEN s
        ELSE IF d[2] = 0
          THEN IF s.map[d[1]].action = "build" THEN Stopped(s, "assertion")
               ELSE Put(s, d[1], [Absent EXCEPT !.action = "drop"])
        ELSE IF Pick(s.map[d[1]], new) = "new" /\ s.map[d[1]].action # "drop"
          THEN CollectPrerequisites(db)[d[1]][Collect(s, d[1], new)]
        ELSE Collect(s, d[1], new)

-----------------------------------------------------------------------------
(***************************************************************************)
(* Ordering: every package is before those it depends on.                  *)
(***************************************************************************)
\* The first position of n on the list, end() if it is not there.
Position(list, n) == Min({Len(list) + 1} \cup {i \in DOMAIN list : list[i] = n})

InsertBefore(list, n, i) == SubSeq(list, 1, i - 1) \o <<n>> \o SubSeq(list, i, Len(list))

\* The list without n, if it is there.
Without(list, n) == IF n \in Range(list) THEN RemoveAt(list, Position(list, n)) ELSE list

\* Mutant: only the new dependencies are ordered.
OldPrerequisitesNot(s, db, n) == {}

\* The current dependencies of n that have to be disfigured after it.
OldPrerequisites(s, db, n) ==
    IF Configured(db, n) /\ Disfigures(db, n, s.map[n])
      THEN {m \in PrerequisitesOf(db, n) : Disfigures(db, m, s.map[m])}
      ELSE {}

\* What order() orders before it inserts n.
Before(s, db, n) ==
    LET p == s.map[n]
    IN  IF p.action = "build" /\ Pruned(db, n, p)
          THEN InOrder({m \in PrerequisitesOf(db, n) :
                          s.map[m].action \notin {"absent", "entered"}})
          ELSE (IF p.action = "build" THEN Reverse(NamesIn(DependenciesOf(n, p.available))) ELSE <<>>)
               \o InOrder(OldPrerequisites(s, db, n))

\* n is inserted before the earliest of the names, unless something has failed.
Insert(n, names) ==
    [s \in Plans |->
        IF s.status # "ok" THEN s
        ELSE [s EXCEPT !.list = InsertBefore(@, n, Min({Len(@) + 1} \cup {Position(@, m) : m \in names}))]]

\* order(): n is inserted before the earliest of its prerequisites, which are
\* ordered first; chain is what we are at.
OrderLevel(Below, db) ==
    [chain \in SUBSET Names |-> [reorder \in BOOLEAN |-> [n \in Names |-> [s \in Plans |->
        IF s.status # "ok" THEN s
        ELSE IF s.map[n].action \in {"absent", "entered"} THEN Stopped(s, "assertion")
        ELSE IF n \in chain THEN Stopped(s, "failed")
        ELSE IF n \in Range(s.list) /\ ~reorder THEN s
        ELSE Insert(n, Range(Before(s, db, n)))[
                 Fold(Below[chain \cup {n}][FALSE],
                      [s EXCEPT !.list = Without(@, n)], Before(s, db, n))]]]]]

\* A chain without repetition has at most the length of Order.
OrderIn(db) ==
    LET order[k \in 0 .. Len(Order) + 1] ==
            IF k = 0 THEN [chain \in SUBSET Names |-> [reorder \in BOOLEAN |-> Endless]]
                     ELSE OrderLevel(order[k - 1], db)
    IN  order[Len(Order) + 1]

\* The entry of a dependent that has to be reconfigured.
Adjusted(s, m) ==
    LET p == s.map[m]
    IN  IF p.action = "build" /\ m \in Range(s.list) THEN [p EXCEPT !.reconfigure = TRUE]
        ELSE Merge([Absent EXCEPT !.action = "adjust", !.reconfigure = TRUE], p)

\* A dependent m of n is before it on the list.
Moved(list, m, n) ==
    IF m \in Range(list) /\ Position(list, m) < Position(list, n) THEN list
    ELSE InsertBefore(Without(list, m), m, Position(Without(list, m), n))

\* Is the dependent m of n, which is up/down-graded, not itself?
Stays(s, db, m, n) ==
    /\ s.map[n].available \notin {0, db[n].version}
    /\ m \in Range(s.list) => s.map[m].available \in {0, db[m].version}

\* Then it has to be fine with the new version.
Accepts(s, db, m, n) ==
    Stays(s, db, m, n) => s.map[n].available \in ConstraintOf(db, m, n)

\* And its constraint is added.
AddedConstraint(s, db, m, n) ==
    IF ~Stays(s, db, m, n) THEN s
    ELSE Put(s, n, [s.map[n] EXCEPT !.constraints = @ \cup {ConstraintOf(db, m, n)}])

\* collect_order_dependents() for the dependent m of n; Below is what it does
\* for the dependents of m.
OrderDependent(Below, s, db, n, m) ==
    LET t == AddedConstraint(s, db, m, n)
    IN  IF s.status # "ok" THEN s
        ELSE IF ~Accepts(s, db, m, n) THEN Stopped(s, "failed")
        ELSE IF s.map[m].action = "drop" THEN t
        ELSE Below[m][[t EXCEPT !.map[m] = Adjusted(s, m), !.list = Moved(s.list, m, n)]]

\* And for all of them.
OrderDependentsLevel(Below, db) ==
    [n \in Names |-> [s \in Plans |->
        Fold([m \in Names |-> [t \in Plans |-> OrderDependent(Below, t, db, n, m)]],
             s, InOrder(Dependents(db, n)))]]

OrderDependents(db) ==
    LET order[k \in 0 .. Len(Order)] == IF k = 0 THEN Endless ELSE OrderDependentsLevel(order[k - 1], db)
    IN  order[Len(Order)]

\* The same for those on the list from position i.
OrderAllLevel(Below, db) ==
    [i \in Nat |-> [s \in Plans |->
        IF s.status # "ok" \/ i \notin DOMAIN s.list THEN s
        ELSE LET n == s.list[i]
                 rest == [t \in Plans |-> IF t.status # "ok" THEN t ELSE Below[Position(t.list, n) + 1][t]]
             IN  rest[IF s.map[n].action # "drop" /\ Reconfigure(db, n, s.map[n])
                        THEN OrderDependents(db)[n][s] ELSE s]]]

\* There are at most as many of them as there are names.
OrderAllDependents(db) ==
    LET order[k \in 0 .. Len(Order) + 1] ==
            IF k = 0 THEN [i \in Nat |-> [s \in Plans |-> Stopped(s, "endless")]]
                     ELSE OrderAllLevel(order[k - 1], db)
    IN  order[Len(Order) + 1]

\* The list of the plan.
OrderRequest(s, db, r, decisions) ==
    LET order == OrderIn(db)[{}]
        decided == Fold(order[FALSE], s, NamesIn(decisions))
        requested == Fold(order[TRUE], decided, Reverse(NamesIn(r.hold)))
        unheld == Those(NamesIn(r.dep), {n \in Names : db[n].hold_package})
    IN  Fold(order[FALSE], OrderAllDependents(db)[1][requested], unheld)

-----------------------------------------------------------------------------
(***************************************************************************)
(* The transactions of execute_plan(), on a database.                      *)
(***************************************************************************)
\* Mutant: it does not matter what else depends on the package.
MayDisfigureNot(db, n) == TRUE

\* pkg_disfigure() refuses, and so do pkg_configure() and pkg_fetch().
MayDisfigure(db, n) == Dependents(db, n) = {}

MayConfigure(db, n) ==
    \A d \in Range(DependenciesOf(n, db[n].version)) : Configured(db, d[1]) /\ db[d[1]].version \in d[2]

Disfigured(db, n) == [db EXCEPT ![n].state = "unpacked", ![n].prerequisites = {}]

Purged(db, n) == [db EXCEPT ![n] = NotSelected]

Fetched(db, n, v) == [db EXCEPT ![n].state = "fetched", ![n].version = v]

Unpacked(db, n) == [db EXCEPT ![n].state = "unpacked"]

ConfiguredNow(db, n) ==
    [db EXCEPT ![n].state = "configured", ![n].prerequisites = Range(DependenciesOf(n, db[n].version))]

\* Mutant: a package that is to be unheld is only no longer to be held.
HoldStateKept(db, n, p) ==
    [db EXCEPT ![n].hold_package = @ \/ p.hold_package = True,
               ![n].hold_version = IF p.hold_version = Null THEN @ ELSE p.hold_version = True]

\* The hold state of a package is updated.
HoldState(db, n, p) ==
    [db EXCEPT ![n].hold_package = IF p.unhold THEN FALSE
                                   ELSE IF p.hold_package = Null THEN @ ELSE p.hold_package = True,
               ![n].hold_version = IF p.hold_version = Null THEN @ ELSE p.hold_version = True]

\* The next transaction for an entry of the plan in the second pass: what it
\* does, and whether it is refused.
Todo(db, n, p) ==
    IF p.action = "drop" THEN IF db[n].state = "none" THEN "nothing" ELSE "purge"
    ELSE IF p.action = "build" /\ db[n].version # p.available THEN "fetch"
    ELSE IF p.action = "build" /\ db[n].state = "fetched" THEN "unpack"
    ELSE IF Configured(db, n) THEN "nothing"
    ELSE IF db[n].state = "unpacked" THEN "configure"
    ELSE "assertion"

Refused(db, n, todo) ==
    \/ todo = "purge" /\ Configured(db, n)
    \/ todo = "fetch" /\ Configured(db, n)
    \/ todo = "configure" /\ ~MayConfigure(db, n)

Did(db, n, p, todo) ==
    CASE todo = "purge" -> Purged(db, n)
      [] todo = "fetch" -> Fetched(db, n, p.available)
      [] todo = "unpack" -> Unpacked(db, n)
      [] todo = "configure" -> ConfiguredNow(db, n)

Simulations == [status : Statuses, db : Databases]

\* Mutant: the simulation does not look at the dependents.
SimulateDisfigureNot(x, n, p) ==
    IF x.status # "ok" \/ ~Disfigures(x.db, n, p) THEN x
    ELSE IF ~Configured(x.db, n) THEN Stopped(x, "assertion")
    ELSE [x EXCEPT !.db = Disfigured(x.db, n)]

\* The simulation: all of them at once, or the reason why not.
SimulateDisfigure(x, n, p) ==
    IF x.status # "ok" \/ ~Disfigures(x.db, n, p) THEN x
    ELSE IF ~Configured(x.db, n) THEN Stopped(x, "assertion")
    ELSE IF ~MayDisfigure(x.db, n) THEN Stopped(x, "refused")
    ELSE [x EXCEPT !.db = Disfigured(x.db, n)]

SimulateTransaction(n, p) ==
    [x \in Simulations |->
        LET todo == Todo(x.db, n, p)
        IN  IF x.status # "ok" \/ todo = "nothing" THEN x
            ELSE IF todo = "assertion" THEN Stopped(x, "assertion")
            ELSE IF Refused(x.db, n, todo) THEN Stopped(x, "refused")
            ELSE [x EXCEPT !.db = Did(x.db, n, p, todo)]]

\* There are three of them at most: fetch, unpack, configure.
SimulateBuild(x, n, p) ==
    LET transaction == SimulateTransaction(n, p) IN transaction[transaction[transaction[x]]]

SimulateHold(x, n, p) ==
    IF x.status # "ok" \/ p.action = "drop" THEN x
    ELSE [x EXCEPT !.db = HoldState(x.db, n, p)]

Simulated(s, db) ==
    LET disfigure == [n \in Names |-> [x \in Simulations |-> SimulateDisfigure(x, n, s.map[n])]]
        build == [n \in Names |-> [x \in Simulations |-> SimulateBuild(x, n, s.map[n])]]
        hold == [n \in Names |-> [x \in Simulations |-> SimulateHold(x, n, s.map[n])]]
        start == [status |-> s.status, db |-> db]
    IN  Fold(hold, Fold(build, Fold(disfigure, start, s.list), Reverse(s.list)), Reverse(s.list))

-----------------------------------------------------------------------------
(***************************************************************************)
(* Refinement.                                                             *)
(***************************************************************************)

\* What the user wants of a dependency, if anything.
Wish(r, n) == {r.dep[i][2] : i \in {j \in DOMAIN r.dep : r.dep[j][1] = n}}

\* evaluate_dependency(): the versions that the user allows and the dependents
\* accept.
Acceptable(db, n, wish) ==
    {v \in Available(n) \cap wish : \A m \in Dependents(db, n) : v \in ConstraintOf(db, m, n)}

\* eval_dep(): the version that the dependency should have, 0 if it is unused.
Evaluate(db, r, n) ==
    IF db[n].hold_package THEN db[n].version
    ELSE IF Dependents(db, n) = {} THEN 0
    ELSE IF Wish(r, n) = {} THEN db[n].version
    ELSE LET wish == CHOOSE c \in Wish(r, n) : TRUE
             best == Max({0} \cup Acceptable(db, n, wish))
         IN  IF wish # AnyVersion /\ db[n].version \in wish THEN db[n].version
             ELSE IF best = 0 \/ (wish = AnyVersion /\ best < db[n].version) THEN db[n].version
             ELSE best

Unsatisfiable(db, r, n) ==
    /\ ~db[n].hold_package /\ Dependents(db, n) # {}
    /\ \E wish \in Wish(r, n) : /\ wish # AnyVersion /\ db[n].version \notin wish
                                /\ Acceptable(db, n, wish) = {}

\* Mutant: a package that is gone is evaluated like the others.
StandsGone(db, r, d) == db[d[1]].state # "none" /\ d[2] = Evaluate(db, r, d[1])

Decided == Names \X (Versions \cup {0})

\* Is a decision still what it was?
Stands(db, r, d) ==
    IF db[d[1]].state = "none" THEN d[2] = 0 ELSE d[2] = Evaluate(db, r, d[1])

\* New decisions.
Decisions(db, r) ==
    LET changes == InOrder({n \in Names : Configured(db, n) /\ ~db[n].hold_package
                                             /\ Evaluate(db, r, n) # db[n].version})
    IN  [i \in DOMAIN changes |-> <<changes[i], Evaluate(db, r, changes[i])>>]

-----------------------------------------------------------------------------
(***************************************************************************)
(* The command.                                                            *)
(***************************************************************************)
Request(r) ==
    /\ phase = "idle" /\ requests < MaxRequests
    /\ request' = r /\ requests' = requests + 1
    /\ held' = {n \in Names : Configured(selected, n) /\ selected[n].hold_package}
    /\ phase' = "plan"
    /\ UNCHANGED <<selected, pkgs, deps, scratch, pos, outcome>>

\* pkg-build ends: it is "done", has "failed" with diagnostics for the user, was
\* "aborted" by the failure of a transaction, or ended as it never should: one
\* of its own steps was "refused", an "assertion" failed, the recursion is
\* "endless".
End(how) == phase' = "end" /\ outcome' = how /\ pos' = 0

Exit ==
    /\ phase = "end" /\ phase' = "idle" /\ outcome' = "none"
    /\ request' = NoRequest /\ held' = {}
    /\ pkgs' = NoPackages /\ deps' = <<>> /\ scratch' = TRUE
    /\ UNCHANGED <<selected, pos, requests>>

\* The plan of an iteration, as far as it gets.
Planned ==
    LET s0 == IF scratch THEN CollectRequest(selected, request) ELSE [pkgs EXCEPT !.list = <<>>]
        decide == [d \in Decided |-> [s \in Plans |-> CollectDecision(s, selected, d)]]
        s1 == Fold(decide, s0, deps)
    IN  IF s1.status = "ok" THEN OrderRequest(s1, selected, request, deps) ELSE s1

\* One iteration of the refinement: the plan is simulated, and if that gives no
\* reason to change any decision or to make another, it is the one.
Refine ==
    /\ phase = "plan"
    /\ \E s \in {Planned} : \E x \in {Simulated(s, selected)} :
         LET stand == Those(deps, {d \in Range(deps) : Stands(x.db, request, d)})
             new == Decisions(x.db, request)
         IN  /\ pkgs' = s
             /\ \/ /\ x.status # "ok"
                   /\ End(x.status)
                   /\ UNCHANGED <<deps, scratch>>
                \/ /\ x.status = "ok" /\ stand # deps
                   /\ deps' = stand /\ scratch' = TRUE
                   /\ UNCHANGED <<phase, pos, outcome>>
                \/ /\ x.status = "ok" /\ stand = deps /\ new # <<>>
                   /\ deps' = deps \o new /\ scratch' = FALSE
                   /\ UNCHANGED <<phase, pos, outcome>>
                \/ /\ x.status = "ok" /\ stand = deps /\ new = <<>>
                   /\ IF \E n \in Names : Configured(x.db, n) /\ Unsatisfiable(x.db, request, n)
                      THEN End("failed")
                      ELSE phase' = "disfigure" /\ pos' = 1 /\ UNCHANGED outcome
                   /\ UNCHANGED <<deps, scratch>>
    /\ UNCHANGED <<selected, request, held, requests>>

Name == pkgs.list[pos]
Entry == pkgs.map[Name]
ListLength == Len(pkgs.list)

ExecuteDisfigure ==
    /\ phase = "disfigure" /\ pos <= ListLength /\ Disfigures(selected, Name, Entry)
    /\ IF ~Configured(selected, Name) THEN End("assertion") /\ UNCHANGED selected
       ELSE IF ~MayDisfigure(selected, Name) THEN End("refused") /\ UNCHANGED selected
       ELSE /\ selected' = Disfigured(selected, Name)
            /\ pos' = pos + 1 /\ UNCHANGED <<phase, outcome>>
    /\ UNCHANGED plan

ExecuteBuild ==
    /\ phase = "build" /\ pos > 0 /\ Todo(selected, Name, Entry) # "nothing"
    /\ LET todo == Todo(selected, Name, Entry)
       IN  IF todo = "assertion" THEN End("assertion") /\ UNCHANGED selected
           ELSE IF Refused(selected, Name, todo) THEN End("refused") /\ UNCHANGED selected
           ELSE /\ selected' = Did(selected, Name, Entry, todo)
                /\ UNCHANGED <<phase, pos, outcome>>
    /\ UNCHANGED plan

ExecuteHold ==
    /\ phase = "hold" /\ pos > 0
    /\ selected' = IF Entry.action = "drop" THEN selected ELSE HoldState(selected, Name, Entry)
    /\ pos' = pos - 1
    /\ UNCHANGED <<phase, outcome, plan>>

\* The next package, and the next pass.
ExecuteNext ==
    /\ \/ /\ phase = "disfigure"
          /\ IF pos > ListLength THEN phase' = "build" /\ pos' = ListLength
             ELSE ~Disfigures(selected, Name, Entry) /\ pos' = pos + 1 /\ UNCHANGED phase
       \/ /\ phase = "build"
          /\ IF pos = 0 THEN phase' = "hold" /\ pos' = ListLength
             ELSE Todo(selected, Name, Entry) = "nothing" /\ pos' = pos - 1 /\ UNCHANGED phase
    /\ UNCHANGED <<selected, plan, outcome>>

ExecuteDone == phase = "hold" /\ pos = 0 /\ End("done") /\ UNCHANGED <<selected, plan>>

\* A transaction fails and is rolled back, or bpkg is killed.
Abort ==
    /\ phase \in {"disfigure", "build", "hold"}
    /\ End("aborted")
    /\ UNCHANGED <<selected, plan>>

Step == Refine \/ ExecuteDisfigure \/ ExecuteBuild \/ ExecuteHold \/ ExecuteNext \/ ExecuteDone
          \/ Exit

Next == Step \/ Abort \/ \E r \in Requests : Request(r)

Spec == Init /\ [][Next]_vars

\* pkg-build goes on for as long as it can.
FairSpec == Spec /\ WF_vars(Step)

-----------------------------------------------------------------------------
(***************************************************************************)
(* Properties.                                                             *)
(***************************************************************************)

TypeOK ==
    /\ selected \in Databases
    /\ phase \in {"idle", "plan", "disfigure", "build", "hold", "end"}
    /\ request \in Requests \cup {NoRequest}
    /\ pkgs \in Plans /\ deps \in Seq(Decided) /\ scratch \in BOOLEAN
    /\ pos \in 0 .. Len(pkgs.list) + 1
    /\ outcome \in {"none", "done", "aborted"} \cup (Statuses \ {"ok"})
    /\ held \subseteq Names /\ requests \in 0 .. MaxRequests

\* The packages that the request names.
Requested == {(request.hold \o request.dep)[i][1] : i \in DOMAIN (request.hold \o request.dep)}

\* A plan is arranged "in the 'dependency order', that is, with every package on
\* the list only possibly depending on the ones after it": it is not refused by
\* the checks of its own steps.
PlanNotRefused == outcome # "refused"

\* A package that is dropped comes after one of its prerequisites, which is only
\* reconfigured: collect_order_dependents() skips the dropped dependents.
DroppedTooLate ==
    \E i, j \in DOMAIN pkgs.list :
        /\ i < j /\ pkgs.map[pkgs.list[j]].action = "drop"
        /\ pkgs.map[pkgs.list[i]].action = "adjust"
        /\ pkgs.list[i] \in PrerequisitesOf(selected, pkgs.list[j])

\* A package is to be unheld or dropped that an earlier failure has left half built.
UnheldHalfBuilt ==
    \E n \in Requested :
        /\ ~Configured(selected, n)
        /\ (pkgs.map[n].action = "adjust" /\ pkgs.map[n].unhold) \/ pkgs.map[n].action = "drop"

\* With these exceptions a plan is never refused, in the simulation or in the
\* execution: packages are disfigured after all of their dependents and
\* configured after all of their prerequisites, in versions that satisfy all of
\* the constraints, from whatever state earlier requests that failed have left.
\* And no assertion of the collection, the ordering or the execution fails
\* ("Can't think of the scenario when this happens").
PlanSound ==
    outcome \in {"refused", "assertion"} => DroppedTooLate \/ UnheldHalfBuilt

\* "It feels impossible that a package version can 'return' into the map being
\* replaced once": the recursion of the collection ends.
CollectEnds == outcome # "endless"

\* A version that the user has asked for is never changed on behalf of other
\* packages, neither of a new dependent nor by the refinement, except that a
\* dependency that nobody needs any more goes.
HeldVersionKept ==
    [][\A n \in Names : selected[n].hold_version /\ n \notin Requested =>
          selected'[n].version \in {0, selected[n].version}]_vars

\* Every configured package has the prerequisites of its version, and they are
\* configured in versions that it accepts.
Standing(db) ==
    \A n \in Names : Configured(db, n) =>
        /\ db[n].prerequisites = Range(DependenciesOf(n, db[n].version))
        /\ \A d \in db[n].prerequisites : Configured(db, d[1]) /\ db[d[1]].version \in d[2]

\* "Each package is disfigured in its own transaction, so that we always leave the
\* configuration in a valid state": the prerequisites of a configured package
\* are those of its version, and are configured in versions that it accepts, whatever the
\* plan is and wherever its execution fails.
PackagesStand == Standing(selected)

\* A plan that has been simulated can be executed: no transaction is refused and
\* no assertion fails once the plan has been offered to the user.
ExecutionNotRefused ==
    [][outcome' \in {"refused", "assertion"} => phase = "plan"]_vars

\* What the user asked for is there and is held.
HoldHonoured(db) ==
    \A i \in DOMAIN request.hold :
        LET h == request.hold[i]
        IN  Configured(db, h[1]) /\ db[h[1]].version \in h[2] /\ db[h[1]].hold_package

\* A dependency that is there has a version that was asked for, and is not held.
DependencyHonoured(db) ==
    \A i \in DOMAIN request.dep :
        LET d == request.dep[i]
        IN  Configured(db, d[1]) => ~db[d[1]].hold_package /\ db[d[1]].version \in d[2]

\* What was held is there, unless it was made a dependency.
HeldThere(db) == \A n \in held : Configured(db, n) \/ Wish(request, n) # {}

\* Nothing is there that nobody needs.
NothingUnused(db) ==
    \A n \in Names : Configured(db, n) /\ Dependents(db, n) = {} => db[n].hold_package

Honoured(db) == HoldHonoured(db) /\ DependencyHonoured(db) /\ HeldThere(db) /\ NothingUnused(db)

\* After success what the user asked for is there, nothing that was held is
\* gone unless it was made a dependency, and nothing is left that nobody needs.
RequestHonoured == outcome = "done" => Honoured(selected)

\* The refinement of a plan comes to an end.
RefinementEnds == phase = "plan" ~> phase # "plan"
=============================================================================
