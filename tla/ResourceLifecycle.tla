------------------------- MODULE ResourceLifecycle -------------------------
(***************************************************************************)
(* Starting and stopping the resources of a server: Resource::Start and    *)
(* Stop (Resource.cpp), the dependency loader that starts what a resource  *)
(* needs and stops what needs it (ResourceDependencyLoader.cpp), and the   *)
(* build tasks that put a start off (ResourceBuildTasks.cpp).              *)
(*                                                                         *)
(* All of it runs on the main thread, and one call makes the next: a start *)
(* starts dependencies from OnBeforeStart and those that waited for it     *)
(* from OnStart, a stop stops dependants from OnStop.  The model has the   *)
(* stack of these calls.  The order of a manifest's entries and of names   *)
(* is left open.  No resource provides the name of another, none is        *)
(* removed, and scripts call neither Start nor Stop from these events.     *)
(***************************************************************************)
EXTENDS Naturals, Sequences, FiniteSets

CONSTANTS
  Resource,  \* resources of the manager
  Needs,     \* Needs[r]: names in the "dependency" entries of r
  Unmet,     \* resources with a constraint that fails
  Foreign,   \* resources whose manifest does not suit the game
  Builds,    \* resources a build task provider may want to build
  MaxBuilds  \* bound: builds of a resource under way at once

\* The manifests do not make resources depend on each other in a circle
\* ("potentially recursive, bad for cyclic dependencies").
ASSUME ConstantsAssumption ==
  /\ DOMAIN Needs = Resource
  /\ Unmet \subseteq Resource
  /\ Foreign \subseteq Resource
  /\ Builds \subseteq Resource
  /\ MaxBuilds \in Nat
  /\ \A group \in (SUBSET Resource) \ {{}} : \E r \in group : Needs[r] \cap group = {}

VARIABLES
  state,       \* m_state
  dependants,  \* resourceDependants: <<d, r>> when r needs d
  waiting,     \* resourceDependencies: <<d, r>> when r waits for d
  builds,      \* builds[r]: builds of r that have begun and not ended
  stack,       \* calls of Start and Stop under way, the last one on top
  rushed,      \* resources that went on, since they were last stopped, in the
               \* middle of their own start (history)
  trusted,     \* <<d, r>>: r was set up while d was, and took it for one that
               \* runs; d has not started since (history)
  restarted       \* waiting pairs whose waiter was started for it (history)

vars == <<state, dependants, waiting, builds, stack, rushed, trusted, restarted>>

\* What only the ends of starts and stops change.
ends == <<state, waiting, rushed, trusted, restarted>>

Init ==
  /\ state = [r \in Resource |-> "Stopped"]
  /\ dependants = {} /\ waiting = {}
  /\ builds = [r \in Resource |-> 0]
  /\ stack = <<>>
  /\ rushed = {} /\ trusted = {} /\ restarted = {}

---------------------------------------------------------------------------
(* Calls.                                                                  *)

Idle == stack = <<>>
Top  == stack[Len(stack)]
Rest == SubSeq(stack, 1, Len(stack) - 1)

At(op, stage) == stack # <<>> /\ Top.op = op /\ Top.at = stage

Frame(op, r, stage, left) == [op |-> op, res |-> r, at |-> stage, left |-> left]

\* The call on top goes on to a stage, with some resources left to serve ...
Goto(stage, left) == stack' = Append(Rest, Frame(Top.op, Top.res, stage, left))

\* ... or calls op of another resource before it does.
Call(op, r, stage, left) ==
  stack' = Append(Append(Rest, Frame(Top.op, Top.res, stage, left)),
                  Frame(op, r, "enter", {}))

Return == stack' = Rest

\* The call returns true or false to a call of Start that needs the resource,
\* which goes on or is refused as well, or to one that does not care.
Needed == Len(stack) > 1 /\ stack[Len(stack) - 1].at = "await"

Answer(stage) ==
  IF Needed THEN stack' = [Rest EXCEPT ![Len(Rest)].at = stage] ELSE Return

\* OnStart was raised for a resource whose call of Start has not returned.
Past(r) ==
  \E i \in 1 .. Len(stack) : stack[i].res = r /\ stack[i].at = "wake"

---------------------------------------------------------------------------
(* Start.                                                                  *)

\* "skip the starting stage if we're already started" - or starting.
StartEnter ==
  /\ At("start", "enter")
  /\ LET r == Top.res
     IN  \/ /\ state[r] = "Started"
            /\ Answer("deps")
            /\ UNCHANGED <<state, rushed>>
         \/ /\ state[r] = "Starting"
            /\ rushed' = rushed \union {r}
            /\ Goto("run", {})
            /\ UNCHANGED state
         \/ /\ state[r] = "Stopped"
            /\ state' = [state EXCEPT ![r] = "Starting"]
            /\ Goto("starting", {})
            /\ UNCHANGED rushed
  /\ UNCHANGED <<dependants, waiting, builds, trusted, restarted>>

\* onResourceStarting, which scripts may cancel, comes before the loader.
Starting ==
  /\ At("start", "starting")
  /\ Goto("deps", Needs[Top.res])
  /\ UNCHANGED <<dependants, builds, ends>>

StartCanceled ==
  /\ At("start", "starting")
  /\ Goto("refused", {})
  /\ UNCHANGED <<dependants, builds, ends>>

\* loadDeps: a dependency there is no resource for ends the start ...
DependencyMissing ==
  /\ At("start", "deps")
  /\ Top.left \ Resource # {}
  /\ Goto("refused", {})
  /\ UNCHANGED <<dependants, builds, ends>>

\* ... one that runs, or is being started, is only noted, and another is
\* started first.
Runs(d) == state[d] \in {"Starting", "Started"}

Noted_Not(d) == dependants
Noted(d) == dependants \union {<<d, Top.res>>}

Dependency(d) ==
  /\ At("start", "deps")
  /\ d \in Top.left \cap Resource
  /\ dependants' = Noted(d)
  /\ \/ /\ Runs(d)
        /\ Goto("deps", Top.left \ {d})
        /\ trusted' = trusted \union
             {p \in {<<d, Top.res>>} : state[d] = "Starting" /\ ~Past(d)}
     \/ /\ ~Runs(d)
        /\ Call("start", d, "await", Top.left \ {d})
        /\ UNCHANGED trusted
  /\ UNCHANGED <<state, waiting, builds, rushed, restarted>>

Dependencies ==
  /\ At("start", "deps")
  /\ Top.left = {}
  /\ Goto(IF Top.res \in Unmet THEN "refused" ELSE "build", {})
  /\ UNCHANGED <<dependants, builds, ends>>

\* TriggerBuild asks the providers on every start, also while an earlier build
\* of the resource is under way.
Wanted_Unasked(r) == TRUE
Wanted(r) == r \in Builds

NoBuild ==
  /\ At("start", "build")
  /\ Goto("run", {})
  /\ UNCHANGED <<dependants, builds, ends>>

\* A build that fails at once leaves nothing, one that takes its time starts the
\* resource again at its end ...
BuildWanted ==
  /\ At("start", "build")
  /\ Wanted(Top.res)
  /\ \/ UNCHANGED builds
     \/ /\ builds[Top.res] < MaxBuilds
        /\ builds' = [builds EXCEPT ![Top.res] = @ + 1]
  /\ Goto("refused", {})
  /\ UNCHANGED <<dependants, ends>>

\* ... and one that is done at once does so from inside the start.
BuildAtOnce ==
  /\ At("start", "build")
  /\ Wanted(Top.res)
  /\ Call("start", Top.res, "refused", {})
  /\ UNCHANGED <<dependants, builds, ends>>

\* OnBeforeStart was false, or OnStart was: its first handler sorts out what is
\* made for another game, before the scripts run.
Denied ==
  \/ At("start", "refused")
  \/ At("start", "run") /\ Top.res \in Foreign

\* A resource that needs this one is remembered as one that waits.
Refusal_Starting(r) == state
Refusal(r) == IF state[r] # "Started" THEN [state EXCEPT ![r] = "Stopped"] ELSE state

Refusing == IF Needed THEN {<<Top.res, stack[Len(stack) - 1].res>>} ELSE {}

Refused ==
  /\ Denied
  /\ LET r == Top.res
     IN  /\ state' = Refusal(r)
         /\ \/ /\ state'[r] = "Stopped"
               /\ rushed' = rushed \ {r}
               /\ trusted' = {p \in trusted : p[2] # r}
            \/ /\ state'[r] # "Stopped"
               /\ UNCHANGED <<rushed, trusted>>
  /\ waiting' = waiting \union Refusing
  /\ restarted' = restarted \ Refusing
  /\ Answer("refused")
  /\ UNCHANGED <<dependants, builds>>

\* OnStart: the scripts run, then those that wait for the resource, as the
\* list has them now, are started one by one.
Waiters(r) == {a \in Resource : <<r, a>> \in waiting}

Run ==
  /\ At("start", "run")
  /\ Top.res \notin Foreign
  /\ Goto("wake", Waiters(Top.res))
  /\ UNCHANGED <<dependants, builds, ends>>

Woken_Again(a) == Top.left
Woken_Alone(a) == {}
Woken(a) == Top.left \ {a}

Wake(a) ==
  /\ At("start", "wake")
  /\ a \in Top.left
  /\ Call("start", a, "wake", Woken(a))
  /\ restarted' = restarted \union {<<Top.res, a>>}
  /\ UNCHANGED <<state, dependants, waiting, builds, rushed, trusted>>

Answered_Not(r) == waiting
Answered(r) == {w \in waiting : w[1] # r}

\* The call returns true, and a caller that needs the resource goes on.
Started ==
  /\ At("start", "wake")
  /\ Top.left = {}
  /\ LET r == Top.res
     IN  /\ waiting' = Answered(r)
         /\ restarted' = {w \in restarted : w[1] # r}
         /\ state' = [state EXCEPT ![r] = "Started"]
         /\ trusted' = {p \in trusted : p[1] # r}
  /\ Answer("deps")
  /\ UNCHANGED <<dependants, builds, rushed>>

---------------------------------------------------------------------------
(* Stop.                                                                   *)

Dependants_EitherWay(r) ==
  {a \in Resource : <<r, a>> \in dependants \/ <<a, r>> \in dependants}
Dependants(r) == {a \in Resource : <<r, a>> \in dependants}

StopEnter ==
  /\ At("stop", "enter")
  /\ IF state[Top.res] = "Stopped" THEN Return
     ELSE Goto("stopping", Dependants(Top.res))
  /\ UNCHANGED <<dependants, builds, ends>>

\* OnStop: the dependants first, as the list has them now ...
StopDependant(a) ==
  /\ At("stop", "stopping")
  /\ a \in Top.left
  /\ Call("stop", a, "stopping", Top.left \ {a})
  /\ UNCHANGED <<dependants, builds, ends>>

\* ... then the resource itself.
Served_Early == TRUE
Served == Top.left = {}

Stopped ==
  /\ At("stop", "stopping")
  /\ Served
  /\ LET r == Top.res
     IN  /\ dependants' = {p \in dependants : p[1] # r}
         /\ state' = [state EXCEPT ![r] = "Stopped"]
         /\ rushed' = rushed \ {r}
         /\ trusted' = {p \in trusted : p[2] # r}
  /\ Return
  /\ UNCHANGED <<waiting, builds, restarted>>

---------------------------------------------------------------------------
(* Who calls: commands, natives, and builds that end.                      *)

Command(op, r) ==
  /\ Idle
  /\ stack' = <<Frame(op, r, "enter", {})>>
  /\ UNCHANGED <<dependants, builds, ends>>

\* A build ends by starting the resource, or not at all.
BuildEnds(r) ==
  /\ Idle
  /\ builds[r] > 0
  /\ builds' = [builds EXCEPT ![r] = @ - 1]
  /\ UNCHANGED <<dependants, ends>>

BuildCompleted(r) == BuildEnds(r) /\ stack' = <<Frame("start", r, "enter", {})>>

BuildFailed(r) == BuildEnds(r) /\ UNCHANGED stack

\* What the call on top does next.
Continue ==
  \/ StartEnter \/ Starting \/ StartCanceled \/ DependencyMissing \/ Dependencies
  \/ NoBuild \/ BuildWanted \/ BuildAtOnce \/ Refused \/ Run \/ Started
  \/ StopEnter \/ Stopped
  \/ \E r \in Resource : Dependency(r) \/ Wake(r) \/ StopDependant(r)

Next ==
  \/ Continue
  \/ \E r \in Resource :
       \/ Command("start", r) \/ Command("stop", r)
       \/ BuildCompleted(r) \/ BuildFailed(r)

Spec == Init /\ [][Next]_vars

\* A call goes on until it returns.
FairSpec == Spec /\ WF_vars(Continue)

---------------------------------------------------------------------------
(* Properties.                                                             *)

Ops    == {"start", "stop"}
Stages == {"enter", "starting", "deps", "await", "build", "refused", "run", "wake",
           "stopping"}

\* Every variable has its type, and only what a provider builds is being built.
TypeOK ==
  /\ state \in [Resource -> {"Stopped", "Starting", "Started"}]
  /\ dependants \subseteq Resource \X Resource
  /\ waiting \subseteq Resource \X Resource
  /\ builds \in [Resource -> 0 .. MaxBuilds]
  /\ \A r \in Resource : builds[r] > 0 => r \in Builds
  /\ stack \in Seq([op : Ops, res : Resource, at : Stages,
                    left : SUBSET (Resource \union UNION {Needs[r] : r \in Resource})])
  /\ rushed \subseteq Resource
  /\ trusted \subseteq Resource \X Resource
  /\ restarted \subseteq Resource \X Resource

\* No resource is left half started.
NoneHalfStarted == Idle => \A r \in Resource : state[r] # "Starting"

\* There are two ways only for a resource to run without one that it needs: a
\* start that goes on in the middle of its own start (rushed), and a dependency
\* that was refused after it had been taken for one that runs because its start
\* was under way (trusted).  Whatever else a start, a stop, a refusal of a
\* dependency or a restart does, what a running resource needs runs.
DependenciesRun ==
  \A r \in Resource \ rushed : state[r] = "Started" =>
    \A d \in Needs[r] : state[d] = "Started" \/ Past(d) \/ <<d, r>> \in trusted

\* "store in a list for use in OnStop": a stop finds all that must stop first,
\* also when what it stops was stopped and started again since.
StopReachesDependants ==
  \A r \in Resource \ rushed : state[r] = "Started" =>
    \A d \in Needs[r] : <<d, r>> \in dependants

\* Whoever waits for a resource that runs was told to by a start of it that was
\* overtaken by another in the middle (rushed): a start that is put off before
\* its dependency runs is not left behind when it does.
WaitersWoken ==
  Idle => \A w \in waiting : state[w[1]] # "Started" \/ w[1] \in rushed

\* However the starts end, by a script, a dependency, a constraint, a build or
\* the game, they leave no resource half started, and none waiting for one that
\* has run since it was put off.
NothingLeftOver == NoneHalfStarted /\ WaitersWoken

\* "store for deferred use", "copy in case the container gets mutated": a start
\* that was put off is taken off the list only after it was made again.
PutOffKept == [][\A w \in waiting \ waiting' : w \in restarted]_vars

\* Calls that are nested by one relation, starts of dependencies, of waiters or
\* stops of dependants, do not come back to a resource: the recursion of the
\* loader goes no deeper than there are resources.
NoRecursion ==
  \A i, j \in 1 .. Len(stack) :
    /\ i < j
    /\ stack[i].at \in {"await", "wake", "stopping"}
    /\ \A k \in i .. j - 1 : stack[k].at = stack[i].at
    => stack[i].res # stack[j].res

\* Every call returns: starts that wake starts and stops that stop dependants
\* end, when the manifests have no circle.
CallsReturn == (~Idle) ~> Idle

===========================================================================
