--------------------- MODULE ResourceLifecycle_proofs ---------------------
(***************************************************************************)
(* Proofs about starting and stopping resources, for every set of          *)
(* resources and manifests.                                                *)
(***************************************************************************)
EXTENDS ResourceLifecycle, SequenceTheorems, TLAPS

---------------------------------------------------------------------------
(* What each way to go on does to the stack.                               *)

Names == Resource \union UNION {Needs[r] : r \in Resource}

Frames == [op : Ops, res : Resource, at : Stages, left : SUBSET Names]

LEMMA StackTyped ==
  ASSUME TypeOK
  PROVE  stack \in Seq(Frames)
BY DEF TypeOK, Frames, Names

LEMMA TopFacts ==
  ASSUME TypeOK, stack # <<>>
  PROVE  /\ Len(stack) \in Nat /\ Len(stack) >= 1
         /\ Top \in Frames
         /\ \A i \in 1 .. Len(stack) : stack[i] \in Frames
         /\ Rest \in Seq(Frames)
         /\ Len(Rest) = Len(stack) - 1
         /\ \A i \in 1 .. Len(stack) - 1 : Rest[i] = stack[i]
<1>1. stack \in Seq(Frames) BY StackTyped
<1>2. Len(stack) \in Nat /\ Len(stack) >= 1 BY <1>1
<1>3. \A i \in 1 .. Len(stack) : stack[i] \in Frames BY <1>1
<1>4. /\ Rest \in Seq(Frames)
      /\ Len(Rest) = Len(stack) - 1
      /\ \A i \in 1 .. Len(stack) - 1 : Rest[i] = stack[i]
  <2> DEFINE n == Len(stack) - 1
  <2>1. 1 \in Int /\ n \in Int BY <1>2
  <2>2. \A i \in 1 .. n : stack[i] \in Frames BY <1>2, <1>3
  <2>3. /\ SubSeq(stack, 1, n) \in Seq(Frames)
        /\ Len(SubSeq(stack, 1, n)) = IF 1 <= n THEN n - 1 + 1 ELSE 0
        /\ \A i \in 1 .. n - 1 + 1 : SubSeq(stack, 1, n)[i] = stack[1 + i - 1]
    BY <2>1, <2>2, SubSeqProperties
  <2>4. ASSUME NEW i \in 1 .. n PROVE stack[1 + i - 1] = stack[i]
    <3>1. 1 + i - 1 = i BY <2>1
    <3> QED BY <3>1
  <2>5. n - 1 + 1 = n /\ (IF 1 <= n THEN n - 1 + 1 ELSE 0) = n
    <3>1. n \in Nat BY <1>2
    <3> HIDE DEF n
    <3> QED BY <3>1
  <2> QED BY <2>3, <2>4, <2>5 DEF Rest
<1> QED BY <1>1, <1>2, <1>3, <1>4 DEF Top

LEMMA FrameTyped ==
  ASSUME NEW op \in Ops, NEW r \in Resource, NEW stage \in Stages, NEW left \in SUBSET Names
  PROVE  /\ Frame(op, r, stage, left) \in Frames
         /\ Frame(op, r, stage, left).op = op
         /\ Frame(op, r, stage, left).res = r
         /\ Frame(op, r, stage, left).at = stage
         /\ Frame(op, r, stage, left).left = left
BY DEF Frame, Frames

LEMMA GotoShape ==
  ASSUME TypeOK, stack # <<>>, NEW stage \in Stages, NEW left \in SUBSET Names,
         Goto(stage, left)
  PROVE  /\ stack' \in Seq(Frames)
         /\ Len(stack') = Len(stack)
         /\ \A i \in 1 .. Len(stack) - 1 : stack'[i] = stack[i]
         /\ stack'[Len(stack)].op = Top.op
         /\ stack'[Len(stack)].res = Top.res
         /\ stack'[Len(stack)].at = stage
         /\ stack'[Len(stack)].left = left
<1> DEFINE f == Frame(Top.op, Top.res, stage, left)
<1>1. Top.op \in Ops /\ Top.res \in Resource BY TopFacts DEF Frames
<1>2. /\ f \in Frames /\ f.op = Top.op /\ f.res = Top.res
      /\ f.at = stage /\ f.left = left
  BY <1>1, FrameTyped
<1>3. stack' = Append(Rest, f) BY DEF Goto
<1> HIDE DEF f
<1>4. /\ stack' \in Seq(Frames) /\ Len(stack') = Len(Rest) + 1
      /\ \A i \in 1 .. Len(Rest) : stack'[i] = Rest[i]
      /\ stack'[Len(Rest) + 1] = f
  BY <1>2, <1>3, TopFacts
<1> QED BY <1>2, <1>4, TopFacts

LEMMA CallShape ==
  ASSUME TypeOK, stack # <<>>, NEW stage \in Stages, NEW left \in SUBSET Names,
         NEW op \in Ops, NEW r \in Resource, Call(op, r, stage, left)
  PROVE  /\ stack' \in Seq(Frames)
         /\ Len(stack') = Len(stack) + 1
         /\ \A i \in 1 .. Len(stack) - 1 : stack'[i] = stack[i]
         /\ stack'[Len(stack)].op = Top.op
         /\ stack'[Len(stack)].res = Top.res
         /\ stack'[Len(stack)].at = stage
         /\ stack'[Len(stack)].left = left
         /\ stack'[Len(stack) + 1].op = op
         /\ stack'[Len(stack) + 1].res = r
         /\ stack'[Len(stack) + 1].at = "enter"
<1> DEFINE f == Frame(Top.op, Top.res, stage, left)
           g == Frame(op, r, "enter", {})
           mid == Append(Rest, f)
<1>1. Top.op \in Ops /\ Top.res \in Resource BY TopFacts DEF Frames
<1>2. /\ f \in Frames /\ f.op = Top.op /\ f.res = Top.res
      /\ f.at = stage /\ f.left = left
  BY <1>1, FrameTyped
<1>3. g \in Frames /\ g.op = op /\ g.res = r /\ g.at = "enter"
  <2>1. "enter" \in Stages /\ {} \in SUBSET Names BY DEF Stages
  <2> QED BY <2>1, FrameTyped
<1>4. stack' = Append(mid, g) BY DEF Call
<1> HIDE DEF f, g
<1>5. /\ mid \in Seq(Frames) /\ Len(mid) = Len(Rest) + 1
      /\ \A i \in 1 .. Len(Rest) : mid[i] = Rest[i]
      /\ mid[Len(Rest) + 1] = f
  BY <1>2, TopFacts
<1> HIDE DEF mid
<1>6. /\ stack' \in Seq(Frames) /\ Len(stack') = Len(mid) + 1
      /\ \A i \in 1 .. Len(mid) : stack'[i] = mid[i]
      /\ stack'[Len(mid) + 1] = g
  BY <1>3, <1>4, <1>5
<1>7. /\ Len(mid) = Len(stack) /\ Len(Rest) + 1 = Len(stack)
      /\ Len(stack) \in Nat /\ Len(stack) >= 1
      /\ \A i \in 1 .. Len(stack) - 1 : Rest[i] = stack[i]
  BY <1>5, TopFacts
<1>8. \A i \in 1 .. Len(stack) - 1 : stack'[i] = stack[i] BY <1>5, <1>6, <1>7
<1>9. stack'[Len(stack)] = f /\ stack'[Len(stack) + 1] = g BY <1>5, <1>6, <1>7
<1> QED BY <1>2, <1>3, <1>6, <1>7, <1>8, <1>9

LEMMA ReturnShape ==
  ASSUME TypeOK, stack # <<>>, Return
  PROVE  /\ stack' \in Seq(Frames)
         /\ Len(stack') = Len(stack) - 1
         /\ \A i \in 1 .. Len(stack) - 1 : stack'[i] = stack[i]
BY TopFacts DEF Return

\* The frame of a caller that needs the resource goes on, that of another one
\* stays as it is.
LEMMA AnswerShape ==
  ASSUME TypeOK, stack # <<>>, NEW stage \in Stages, Answer(stage)
  PROVE  /\ stack' \in Seq(Frames)
         /\ Len(stack') = Len(stack) - 1
         /\ \A i \in 1 .. Len(stack) - 1 :
              /\ stack'[i].op = stack[i].op
              /\ stack'[i].res = stack[i].res
              /\ stack'[i].left = stack[i].left
              /\ stack'[i].at = IF i = Len(stack) - 1 /\ stack[i].at = "await"
                                THEN stage ELSE stack[i].at
<1> USE TopFacts
<1>1. CASE ~Needed
  <2>1. Return BY <1>1 DEF Answer
  <2>2. \A i \in 1 .. Len(stack) - 1 : i = Len(stack) - 1 => stack[i].at # "await"
    BY <1>1 DEF Needed
  <2> QED BY <2>1, <2>2, ReturnShape
<1>2. CASE Needed
  <2> DEFINE m == Len(Rest)
             g == [Rest[m] EXCEPT !.at = stage]
  <2>1. Len(stack) > 1 /\ m = Len(stack) - 1 /\ m \in 1 .. Len(Rest) /\ m \in Nat
    BY <1>2 DEF Needed
  <2>2. Rest[m] = stack[m] /\ stack[m].at = "await" /\ stack[m] \in Frames
    BY <1>2, <2>1 DEF Needed
  <2>3. stack' = [Rest EXCEPT ![m] = g] BY <1>2 DEF Answer
  <2>4. /\ g \in Frames /\ g.op = stack[m].op /\ g.res = stack[m].res
        /\ g.left = stack[m].left /\ g.at = stage
    BY <2>2 DEF Frames
  <2> HIDE DEF g
  <2>5. stack' \in Seq(Frames) /\ Len(stack') = Len(Rest) BY <2>1, <2>3, <2>4
  <2>6. stack'[m] = g BY <2>1, <2>3
  <2>7. \A i \in 1 .. Len(Rest) : i # m => stack'[i] = Rest[i] BY <2>3
  <2> QED BY <2>1, <2>2, <2>4, <2>5, <2>6, <2>7
<1> QED BY <1>1, <1>2

---------------------------------------------------------------------------
(* Types.                                                                  *)

\* Everything but the stack.
RestTyped ==
  /\ state \in [Resource -> {"Stopped", "Starting", "Started"}]
  /\ dependants \subseteq Resource \X Resource
  /\ waiting \subseteq Resource \X Resource
  /\ builds \in [Resource -> 0 .. MaxBuilds]
  /\ \A r \in Resource : builds[r] > 0 => r \in Builds
  /\ rushed \subseteq Resource
  /\ trusted \subseteq Resource \X Resource
  /\ restarted \subseteq Resource \X Resource

LEMMA TypesOf == TypeOK <=> RestTyped /\ stack \in Seq(Frames)
BY DEF TypeOK, RestTyped, Frames, Names

LEMMA TypesOfNext ==
  ASSUME RestTyped', stack' \in Seq(Frames)
  PROVE  TypeOK'
BY DEF TypeOK, RestTyped, Frames, Names

\* What the top of the stack may leave to serve.
LEMMA LeftTyped ==
  ASSUME TypeOK, stack # <<>>
  PROVE  /\ Top.op \in Ops /\ Top.res \in Resource /\ Top.at \in Stages
         /\ Needs[Top.res] \in SUBSET Names
         /\ \A x : Top.left \ {x} \in SUBSET Names
         /\ Waiters(Top.res) \in SUBSET Names
         /\ Dependants(Top.res) \in SUBSET Names
         /\ {} \in SUBSET Names
<1>1. Top.op \in Ops /\ Top.res \in Resource /\ Top.at \in Stages /\ Top.left \in SUBSET Names
  BY TopFacts DEF Frames
<1>2. Needs[Top.res] \in SUBSET Names BY <1>1 DEF Names
<1>3. \A x : Top.left \ {x} \in SUBSET Names BY <1>1
<1>4. Waiters(Top.res) \in SUBSET Names /\ Dependants(Top.res) \in SUBSET Names
  BY DEF Waiters, Dependants, Names
<1> QED BY <1>1, <1>2, <1>3, <1>4

LEMMA CommandShape ==
  ASSUME NEW op \in Ops, NEW r \in Resource,
         stack' = <<Frame(op, r, "enter", {})>>
  PROVE  /\ stack' \in Seq(Frames)
         /\ Len(stack') = 1
         /\ stack'[1].op = op /\ stack'[1].res = r /\ stack'[1].at = "enter"
<1> DEFINE f == Frame(op, r, "enter", {})
<1>1. f \in Frames /\ f.op = op /\ f.res = r /\ f.at = "enter"
  <2>1. "enter" \in Stages /\ {} \in SUBSET Names BY DEF Stages
  <2> QED BY <2>1, FrameTyped
<1> HIDE DEF f
<1>2. stack' = <<f>> BY DEF f
<1> QED BY <1>1, <1>2

LEMMA StagesAre ==
  /\ {"enter", "starting", "deps", "await", "build", "refused", "run", "wake",
      "stopping"} = Stages
  /\ {"start", "stop"} = Ops
BY DEF Stages, Ops

LEMMA BoundTyped == MaxBuilds \in Nat /\ Builds \subseteq Resource
BY ConstantsAssumption

LEMMA TypesNext ==
  ASSUME TypeOK, [Next]_vars
  PROVE  TypeOK'
<1>0. RestTyped /\ stack \in Seq(Frames) BY TypesOf
<1> SUFFICES RestTyped' /\ stack' \in Seq(Frames) BY TypesOfNext
<1> DEFINE Goal == RestTyped' /\ stack' \in Seq(Frames)
<1> USE StagesAre
<1>1. CASE StartEnter
  <2>1. stack # <<>> BY <1>1 DEF StartEnter, At
  <2>2. stack' \in Seq(Frames)
    <3>1. Answer("deps") \/ Goto("run", {}) \/ Goto("starting", {}) BY <1>1 DEF StartEnter
    <3> QED BY <2>1, <3>1, AnswerShape, GotoShape
  <2>3. RestTyped' BY <1>0, <1>1, <2>1, LeftTyped DEF StartEnter, RestTyped
  <2> QED BY <2>2, <2>3
<1>2. CASE \/ Starting \/ StartCanceled \/ DependencyMissing \/ Dependencies
           \/ NoBuild \/ BuildWanted \/ Run
  <2>1. stack # <<>>
    BY <1>2 DEF Starting, StartCanceled, DependencyMissing, Dependencies, NoBuild,
                BuildWanted, Run, At
  <2>2. PICK stage \in Stages, left \in SUBSET Names : Goto(stage, left)
    BY <1>2, <2>1, LeftTyped
    DEF Starting, StartCanceled, DependencyMissing, Dependencies, NoBuild,
        BuildWanted, Run
  <2>3. UNCHANGED <<dependants, ends>>
    BY <1>2 DEF Starting, StartCanceled, DependencyMissing, Dependencies, NoBuild,
        BuildWanted, Run
  <2>4. /\ builds' \in [Resource -> 0 .. MaxBuilds]
        /\ \A r \in Resource : builds'[r] > 0 => r \in Builds
    <3>1. CASE builds' = builds BY <1>0, <3>1 DEF RestTyped
    <3>2. CASE /\ Top.res \in Builds /\ builds[Top.res] < MaxBuilds
               /\ builds' = [builds EXCEPT ![Top.res] = @ + 1]
      BY <1>0, <2>1, <3>2, LeftTyped, BoundTyped DEF RestTyped
    <3> QED
      BY <1>2, <3>1, <3>2 DEF Starting, StartCanceled, DependencyMissing, Dependencies,
         NoBuild, BuildWanted, Run, Wanted
  <2>5. RestTyped' BY <1>0, <2>3, <2>4 DEF RestTyped, ends
  <2> QED BY <2>1, <2>2, <2>5, GotoShape
<1>3. ASSUME NEW d \in Resource, Dependency(d) PROVE Goal
  <2>1. stack # <<>> BY <1>3 DEF Dependency, At
  <2>2. \/ Goto("deps", Top.left \ {d})
        \/ Call("start", d, "await", Top.left \ {d})
    BY <1>3 DEF Dependency
  <2>3. stack' \in Seq(Frames) BY <2>1, <2>2, LeftTyped, GotoShape, CallShape
  <2>4. RestTyped' BY <1>0, <1>3, <2>1, LeftTyped DEF Dependency, RestTyped, Noted
  <2> QED BY <2>3, <2>4
<1>4. CASE BuildAtOnce
  <2>1. stack # <<>> BY <1>4 DEF BuildAtOnce, At
  <2>2. stack' \in Seq(Frames) BY <1>4, <2>1, LeftTyped, CallShape DEF BuildAtOnce
  <2> QED BY <1>0, <1>4, <2>2 DEF BuildAtOnce, RestTyped, ends
<1>5. CASE Refused
  <2>1. stack # <<>> BY <1>5 DEF Refused, Denied, At
  <2>2. stack' \in Seq(Frames) BY <1>5, <2>1, AnswerShape DEF Refused
  <2>3. Refusing \subseteq Resource \X Resource
    <3>1. CASE Needed
      <4>1. Len(stack) - 1 \in 1 .. Len(stack) BY <2>1, <3>1, TopFacts DEF Needed
      <4>2. stack[Len(stack) - 1].res \in Resource BY <2>1, <4>1, TopFacts DEF Frames
      <4> QED BY <2>1, <4>2, LeftTyped DEF Refusing
    <3> QED BY <3>1 DEF Refusing
  <2>4. state' \in [Resource -> {"Stopped", "Starting", "Started"}]
    BY <1>0, <1>5 DEF Refused, Refusal, RestTyped
  <2>5. rushed' \subseteq Resource /\ trusted' \subseteq Resource \X Resource
    BY <1>0, <1>5 DEF Refused, RestTyped
  <2> QED BY <1>0, <1>5, <2>2, <2>3, <2>4, <2>5 DEF Refused, RestTyped
<1>6. ASSUME NEW a \in Resource, Wake(a) PROVE Goal
  <2>1. stack # <<>> BY <1>6 DEF Wake, At
  <2>2. stack' \in Seq(Frames) BY <1>6, <2>1, LeftTyped, CallShape DEF Wake, Woken
  <2> QED BY <1>0, <1>6, <2>1, <2>2, LeftTyped DEF Wake, RestTyped
<1>7. CASE Started
  <2>1. stack # <<>> BY <1>7 DEF Started, At
  <2>2. stack' \in Seq(Frames) BY <1>7, <2>1, AnswerShape DEF Started
  <2> QED BY <1>0, <1>7, <2>2 DEF Started, Answered, RestTyped
<1>8. CASE StopEnter
  <2>1. stack # <<>> BY <1>8 DEF StopEnter, At
  <2>2. Return \/ Goto("stopping", Dependants(Top.res)) BY <1>8 DEF StopEnter
  <2>3. stack' \in Seq(Frames) BY <2>1, <2>2, LeftTyped, GotoShape, ReturnShape
  <2> QED BY <1>0, <1>8, <2>3 DEF StopEnter, RestTyped, ends
<1>9. ASSUME NEW a \in Resource, StopDependant(a) PROVE Goal
  <2>1. stack # <<>> BY <1>9 DEF StopDependant, At
  <2>2. stack' \in Seq(Frames) BY <1>9, <2>1, LeftTyped, CallShape DEF StopDependant
  <2> QED BY <1>0, <1>9, <2>2 DEF StopDependant, RestTyped, ends
<1>10. CASE Stopped
  <2>1. stack # <<>> BY <1>10 DEF Stopped, At
  <2>2. stack' \in Seq(Frames) BY <1>10, <2>1, ReturnShape DEF Stopped
  <2> QED BY <1>0, <1>10, <2>2 DEF Stopped, RestTyped
<1>11. ASSUME NEW op \in Ops, NEW r \in Resource, Command(op, r) PROVE Goal
  BY <1>0, <1>11, CommandShape DEF Command, RestTyped, ends
<1>12. ASSUME NEW r \in Resource, BuildEnds(r) PROVE RestTyped'
  <2>1. /\ builds' \in [Resource -> 0 .. MaxBuilds]
        /\ \A x \in Resource : builds'[x] > 0 => x \in Builds
    BY <1>0, <1>12, BoundTyped DEF BuildEnds, RestTyped
  <2> QED BY <1>0, <1>12, <2>1 DEF BuildEnds, RestTyped, ends
<1>13. ASSUME NEW r \in Resource, BuildCompleted(r) \/ BuildFailed(r) PROVE Goal
  BY <1>0, <1>12, <1>13, CommandShape DEF BuildCompleted, BuildFailed
<1>14. CASE UNCHANGED vars BY <1>0, <1>14 DEF vars, RestTyped
<1> QED
  BY <1>1, <1>2, <1>3, <1>4, <1>5, <1>6, <1>7, <1>8, <1>9, <1>10, <1>11, <1>12, <1>13, <1>14
  DEF Next, Continue

LEMMA TypesInit == Init => TypeOK
BY TypesOf, BoundTyped DEF Init, RestTyped

\* Every variable has its type.
THEOREM TypeCorrect == Spec => []TypeOK
BY TypesInit, TypesNext, PTL DEF Spec

---------------------------------------------------------------------------
(* The calls under way.                                                    *)

\* Stages of a start before and after OnBeforeStart was true, and those in
\* which it must have seen to its dependencies.
Setup  == {"starting", "deps", "await", "build", "refused"}
Late   == {"run", "wake"}
Checks == {"deps", "await", "build", "run", "wake"}

Calls == 1 .. Len(stack)

\* Starts call only starts, and stops only stops.
OpsInv ==
  /\ \A i \in Calls : stack[i].at \in Setup \union Late => stack[i].op = "start"
  /\ \A i \in Calls : stack[i].at = "stopping" => stack[i].op = "stop"
  /\ \A i, j \in Calls : stack[i].op = stack[j].op

\* A call that awaits a dependency is not on top.
AwaitInv == \A i \in Calls : stack[i].at = "await" => i + 1 \in Calls

\* What is made for another game never comes past the first handler of OnStart.
FitInv ==
  /\ \A r \in Foreign : state[r] # "Started"
  /\ \A i \in Calls : stack[i].at = "wake" => stack[i].res \notin Foreign

\* Any other resource is set up by one call at a time ...
OneSetup ==
  \A i, j \in Calls : stack[i].at \in Setup /\ stack[j].at \in Setup
                      /\ stack[i].res = stack[j].res /\ stack[i].res \notin Foreign => i = j

\* ... and a call that goes on past that one is nested in it, and counted.
RushedNested ==
  \A i, j \in Calls : stack[i].at \in Setup /\ stack[j].at \in Late
                      /\ stack[i].res = stack[j].res /\ stack[i].res \notin Foreign =>
                        i < j /\ stack[i].res \in rushed

\* A start under way is that of a resource which is starting, or was rushed.
StartsInv ==
  \A i \in Calls : stack[i].at \in Setup \union Late /\ stack[i].res \notin Foreign =>
    /\ state[stack[i].res] # "Stopped"
    /\ stack[i].at \in Setup /\ state[stack[i].res] = "Started" => stack[i].res \in rushed

\* A resource is starting only while a call starts it.
HalfInv ==
  \A r \in Resource : state[r] = "Starting" =>
    \E i \in Calls : stack[i].res = r /\ stack[i].at \in Setup \union Late

WaitersInv == \A w \in waiting : state[w[1]] = "Started" => w[1] \in rushed

\* A dependency of a start that still has to be served, or just is.
Open(i, d) == stack[i].at \in {"deps", "await"} /\ d \in stack[i].left
Awaited(i, d) == stack[i].at = "await" /\ stack[i + 1].res = d

Met(d, r) == state[d] = "Started" \/ Past(d) \/ <<d, r>> \in trusted

\* A start has noted the dependencies that it is done with, and they run.
ChecksInv ==
  \A i \in Calls : stack[i].at \in Checks /\ stack[i].res \notin rushed \union Foreign =>
    \A d \in Needs[stack[i].res] :
      /\ Open(i, d) \/ <<d, stack[i].res>> \in dependants
      /\ Open(i, d) \/ Awaited(i, d) \/ Met(d, stack[i].res)

\* A stop has stopped the dependants that it is done with.
StopInv ==
  \A i \in Calls : stack[i].at = "stopping" =>
    \A a \in Resource : <<stack[i].res, a>> \in dependants /\ state[a] # "Stopped" =>
      a \in stack[i].left \/ (i + 1 \in Calls /\ stack[i + 1].res = a)

CallsInv ==
  /\ TypeOK
  /\ OpsInv /\ AwaitInv /\ FitInv /\ OneSetup /\ RushedNested /\ StartsInv /\ HalfInv

LifecycleInv ==
  /\ CallsInv
  /\ WaitersInv /\ ChecksInv /\ StopInv
  /\ DependenciesRun /\ StopReachesDependants

LEMMA TopCall ==
  ASSUME TypeOK, stack # <<>>
  PROVE  /\ Len(stack) \in Calls /\ Top = stack[Len(stack)]
         /\ Len(stack) \in Nat /\ Len(stack) >= 1
         /\ \A i \in Calls : /\ i \in Nat /\ i <= Len(stack) /\ i >= 1
                             /\ i # Len(stack) => i \in 1 .. Len(stack) - 1
                             /\ stack[i].res \in Resource
BY TopFacts DEF Calls, Top, Frames

LEMMA StageSets ==
  /\ "enter" \notin Setup \union Late /\ "stopping" \notin Setup \union Late
  /\ "await" \in Setup /\ "refused" \in Setup /\ "deps" \in Setup
  /\ Setup \cap Late = {}
BY DEF Setup, Late

\* The call of Start on top goes on, and may call another: the frames below
\* stay, that of the call moves on, and a new one enters.
GoesOn(stage) ==
  /\ Len(stack') \in {Len(stack), Len(stack) + 1}
  /\ \A i \in 1 .. Len(stack) - 1 : stack'[i] = stack[i]
  /\ stack'[Len(stack)].op = Top.op
  /\ stack'[Len(stack)].res = Top.res
  /\ stack'[Len(stack)].at = stage
  /\ Len(stack') = Len(stack) + 1 =>
       stack'[Len(stack) + 1].at = "enter" /\ stack'[Len(stack) + 1].op = Top.op

LEMMA StartGoesOn ==
  ASSUME CallsInv, stack # <<>>, Top.op = "start", NEW stage, GoesOn(stage),
         \/ Top.at \in Setup /\ stage \in Setup \union Late
         \/ Top.at \in Late /\ stage \in Late,
         stage = "await" => Len(stack') = Len(stack) + 1,
         stage = "wake" => Top.res \notin Foreign,
         state' = state, rushed \subseteq rushed'
  PROVE  /\ OpsInv' /\ AwaitInv' /\ FitInv' /\ OneSetup' /\ RushedNested'
         /\ StartsInv' /\ HalfInv'
<1> DEFINE n == Len(stack)
<1>1. n \in Calls /\ Top = stack[n] /\ n \in Nat /\ n >= 1 BY TopCall DEF CallsInv
<1>2. ASSUME NEW i \in Calls'
      PROVE  \/ i = n + 1 /\ stack'[i].at = "enter" /\ stack'[i].op = "start"
                /\ n + 1 = Len(stack')
             \/ i = n /\ stack'[i].op = "start" /\ stack'[i].res = stack[n].res
                /\ stack'[i].at = stage
             \/ i \in Calls /\ i < n /\ i \in Nat /\ stack'[i] = stack[i]
  BY <1>1 DEF Calls, GoesOn
<1>3. \A i \in Calls : i \in Calls' /\ i \in Nat /\ i <= n BY <1>1 DEF Calls, GoesOn
<1>4. n \in Calls' BY <1>1, <1>3
<1>5. \A i \in Calls : stack[i].op = "start" BY <1>1 DEF CallsInv, OpsInv
<1> USE <1>1, <1>2, <1>3, <1>4, <1>5, StageSets DEF CallsInv
<1> HIDE DEF n
<1>6. OpsInv'
  <2>1. \A i \in Calls' : stack'[i].op = "start" OBVIOUS
  <2>2. \A i \in Calls' : stack'[i].at # "stopping" BY DEF OpsInv
  <2> QED BY <2>1, <2>2 DEF OpsInv
<1>7. AwaitInv'
  <2> SUFFICES ASSUME NEW i \in Calls', stack'[i].at = "await" PROVE i + 1 \in Calls'
    BY DEF AwaitInv
  <2>1. CASE i = n BY <2>1 DEF Calls, n, GoesOn
  <2>2. CASE i < n /\ i \in Nat BY <2>2, <1>4 DEF Calls
  <2> QED BY <2>1, <2>2
<1>8. OneSetup' BY DEF OneSetup
<1>9. RushedNested' BY DEF RushedNested, OneSetup
<1>10. StartsInv' BY DEF StartsInv
<1>11. HalfInv' BY DEF HalfInv
<1>12. FitInv' BY DEF FitInv
<1> QED BY <1>6, <1>7, <1>8, <1>9, <1>10, <1>11, <1>12

\* A call returns, and may move on the one that awaited it.
Returns(stage) ==
  /\ Len(stack') = Len(stack) - 1
  /\ \A i \in 1 .. Len(stack) - 1 :
       /\ stack'[i].op = stack[i].op
       /\ stack'[i].res = stack[i].res
       /\ stack'[i].left = stack[i].left
       /\ stack'[i].at = IF i = Len(stack) - 1 /\ stack[i].at = "await"
                         THEN stage ELSE stack[i].at

\* What returning keeps, whatever becomes of the resource of the call on top,
\* as long as no call is left that still sets it up.
LEMMA StartReturns ==
  ASSUME CallsInv, stack # <<>>, NEW stage \in {"deps", "refused"}, Returns(stage),
         NEW r \in Resource, Top.res = r,
         \A x \in Resource \ {r} : state'[x] = state[x],
         \A x \in Resource \ {r} : x \in rushed' <=> x \in rushed,
         state'[r] # "Starting",
         r \in Foreign => state'[r] # "Started",
         \A i \in Calls : i # Len(stack) /\ stack[i].at \in Setup \union Late /\ stack[i].res = r
                         /\ r \notin Foreign =>
           /\ state'[r] # "Stopped"
           /\ r \in rushed => r \in rushed'
           /\ stack[i].at \in Setup => r \in rushed'
  PROVE  /\ OpsInv' /\ AwaitInv' /\ FitInv' /\ OneSetup' /\ RushedNested'
         /\ StartsInv' /\ HalfInv'
<1> DEFINE n == Len(stack)
<1>1. n \in Calls /\ Top = stack[n] /\ n \in Nat /\ n >= 1 BY TopCall DEF CallsInv
<1>2. ASSUME NEW i \in Calls'
      PROVE  /\ i \in Calls /\ i < n /\ i \in Nat
             /\ stack'[i].op = stack[i].op /\ stack'[i].res = stack[i].res
             /\ stack[i].res \in Resource
             /\ stack'[i].at \in Setup <=> stack[i].at \in Setup
             /\ stack'[i].at \in Late <=> stack[i].at \in Late
             /\ stack'[i].at = "stopping" <=> stack[i].at = "stopping"
  <2>1. i \in 1 .. n - 1 /\ i \in Calls BY <1>1 DEF Calls, Returns
  <2>2. \/ stack'[i].at = stack[i].at
        \/ stack[i].at = "await" /\ stack'[i].at = stage
    BY <2>1 DEF Returns
  <2>3. stack[i].res \in Resource BY <2>1, TopCall DEF CallsInv
  <2> QED BY <1>1, <2>1, <2>2, <2>3 DEF Returns, Setup, Late
<1>3. \A i \in Calls : i \in Calls' \/ i = n BY <1>1 DEF Calls, Returns
<1>4. ASSUME NEW i \in Calls', stack'[i].at = "await" PROVE i + 1 \in Calls'
  <2>1. i \in 1 .. n - 1 BY <1>1 DEF Calls, Returns
  <2>2. i # n - 1 /\ stack[i].at = "await" BY <1>4, <2>1 DEF Returns
  <2> QED BY <1>1, <2>1, <2>2 DEF Calls, Returns
<1> USE <1>1, <1>2, <1>3, StageSets DEF CallsInv
<1> HIDE DEF n
<1>5. OpsInv' BY DEF OpsInv
<1>6. AwaitInv' BY <1>4 DEF AwaitInv
<1>7. OneSetup' BY DEF OneSetup
<1>11. FitInv'
  <2>1. Foreign \subseteq Resource BY ConstantsAssumption
  <2>2. \A i \in Calls' : stack'[i].at = "wake" => stack[i].at = "wake"
    BY DEF Returns, n, Calls
  <2> QED BY <2>1, <2>2 DEF FitInv
<1>8. RushedNested'
  <2> SUFFICES ASSUME NEW i \in Calls', NEW j \in Calls', stack'[i].at \in Setup,
                      stack'[j].at \in Late, stack'[i].res = stack'[j].res,
                      stack'[i].res \notin Foreign
               PROVE  i < j /\ stack'[i].res \in rushed'
    BY DEF RushedNested
  <2>1. i < j /\ stack[i].res \in rushed BY DEF RushedNested
  <2>2. i \in Calls /\ i # Len(stack) BY DEF n
  <2> QED BY <2>1, <2>2
<1>9. StartsInv'
  <2> SUFFICES ASSUME NEW i \in Calls', stack'[i].at \in Setup \union Late,
                      stack'[i].res \notin Foreign
               PROVE  /\ state'[stack'[i].res] # "Stopped"
                      /\ stack'[i].at \in Setup /\ state'[stack'[i].res] = "Started" =>
                           stack'[i].res \in rushed'
    BY DEF StartsInv
  <2>1. i \in Calls /\ i # Len(stack) /\ stack[i].at \in Setup \union Late BY DEF n
  <2>2. CASE stack[i].res = r BY <2>1, <2>2
  <2>3. CASE stack[i].res # r BY <2>1, <2>3 DEF StartsInv
  <2> QED BY <2>2, <2>3
<1>10. HalfInv'
  <2> SUFFICES ASSUME NEW x \in Resource, state'[x] = "Starting"
               PROVE  \E i \in Calls' : stack'[i].res = x /\ stack'[i].at \in Setup \union Late
    BY DEF HalfInv
  <2>1. x # r /\ state[x] = "Starting" OBVIOUS
  <2>2. PICK i \in Calls : stack[i].res = x /\ stack[i].at \in Setup \union Late
    BY <2>1 DEF HalfInv
  <2>3. i \in Calls' BY <2>1, <2>2
  <2> QED BY <2>2, <2>3
<1> QED BY <1>5, <1>6, <1>7, <1>8, <1>9, <1>10, <1>11

\* A resource starts, or goes on in the middle of its start.
LEMMA StartEnters ==
  ASSUME CallsInv, stack # <<>>, Top.op = "start", Top.at = "enter",
         NEW r \in Resource, Top.res = r, NEW stage, GoesOn(stage), Len(stack') = Len(stack),
         \/ /\ stage = "starting" /\ state[r] = "Stopped"
            /\ state' = [state EXCEPT ![r] = "Starting"] /\ rushed' = rushed
         \/ /\ stage = "run" /\ state[r] = "Starting"
            /\ state' = state /\ rushed' = rushed \union {r}
  PROVE  /\ OpsInv' /\ AwaitInv' /\ FitInv' /\ OneSetup' /\ RushedNested'
         /\ StartsInv' /\ HalfInv'
<1> DEFINE n == Len(stack)
<1>1. n \in Calls /\ Top = stack[n] /\ n \in Nat /\ n >= 1 BY TopCall DEF CallsInv
<1>2. ASSUME NEW i \in Calls'
      PROVE  \/ i = n /\ stack'[i].op = "start" /\ stack'[i].res = r /\ stack'[i].at = stage
             \/ i \in Calls /\ i < n /\ i \in Nat /\ stack'[i] = stack[i]
  BY <1>1 DEF Calls, GoesOn
<1>3. Calls' = Calls BY DEF Calls
<1>4. \A i \in Calls : stack[i].op = "start" /\ stack[i].res \in Resource
  BY <1>1, TopCall DEF CallsInv, OpsInv
<1>5. /\ stage = "starting" => stage \in Setup /\ stage \notin Late
      /\ stage = "run" => stage \in Late /\ stage \notin Setup
      /\ stage # "await" /\ stage # "stopping"
  BY DEF Setup, Late
<1>6. state \in [Resource -> {"Stopped", "Starting", "Started"}] BY DEF CallsInv, TypeOK
<1> USE <1>1, <1>2, <1>3, <1>4, <1>5, <1>6, StageSets DEF CallsInv
<1> HIDE DEF n
<1>7. OpsInv'
  <2>1. \A i \in Calls' : stack'[i].op = "start" OBVIOUS
  <2>2. \A i \in Calls' : stack'[i].at # "stopping" BY DEF OpsInv
  <2> QED BY <2>1, <2>2 DEF OpsInv
<1>8. AwaitInv' BY DEF AwaitInv
<1>9. OneSetup' BY DEF OneSetup, StartsInv
<1>10. RushedNested' BY DEF RushedNested, StartsInv
<1>13. FitInv'
  <2>1. \A x \in Foreign : state'[x] # "Started"
    BY ConstantsAssumption DEF FitInv
  <2>2. \A i \in Calls' : stack'[i].at = "wake" => i \in Calls /\ stack'[i] = stack[i]
    OBVIOUS
  <2> QED BY <2>1, <2>2 DEF FitInv
<1>11. StartsInv'
  <2> SUFFICES ASSUME NEW i \in Calls', stack'[i].at \in Setup \union Late,
                      stack'[i].res \notin Foreign
               PROVE  /\ state'[stack'[i].res] # "Stopped"
                      /\ stack'[i].at \in Setup /\ state'[stack'[i].res] = "Started" =>
                           stack'[i].res \in rushed'
    BY DEF StartsInv
  <2>1. state'[r] = "Starting" OBVIOUS
  <2>2. CASE stack'[i].res = r BY <2>1, <2>2
  <2>3. CASE stack'[i].res # r
    <3>1. i \in Calls /\ stack'[i] = stack[i] BY <2>3
    <3>2. state'[stack[i].res] = state[stack[i].res] BY <2>3, <3>1
    <3>3. rushed \subseteq rushed' OBVIOUS
    <3> QED BY <3>1, <3>2, <3>3 DEF StartsInv
  <2> QED BY <2>2, <2>3
<1>12. HalfInv'
  <2> SUFFICES ASSUME NEW x \in Resource, state'[x] = "Starting"
               PROVE  \E i \in Calls' : stack'[i].res = x /\ stack'[i].at \in Setup \union Late
    BY DEF HalfInv
  <2>1. CASE x = r
    <3>1. n \in Calls' /\ stack'[n].res = r /\ stack'[n].at \in Setup \union Late
      BY DEF GoesOn, n
    <3> QED BY <2>1, <3>1
  <2>2. CASE x # r
    <3>1. PICK i \in Calls : stack[i].res = x /\ stack[i].at \in Setup \union Late
      BY <2>2 DEF HalfInv
    <3>2. i # n BY <2>2, <3>1
    <3> QED BY <3>1, <3>2
  <2> QED BY <2>1, <2>2
<1> QED BY <1>7, <1>8, <1>9, <1>10, <1>11, <1>12, <1>13

\* Stops neither make nor disturb a start.
LEMMA StopStep ==
  ASSUME CallsInv, stack # <<>>, Top.op = "stop", NEW r \in Resource,
         state' = state \/ state' = [state EXCEPT ![r] = "Stopped"],
         \A i \in Calls' : stack'[i].op = "stop" /\ stack'[i].at \notin Setup \union Late
  PROVE  /\ OpsInv' /\ AwaitInv' /\ FitInv' /\ OneSetup' /\ RushedNested'
         /\ StartsInv' /\ HalfInv'
<1>1. \A i \in Calls : stack[i].at \notin Setup \union Late
  BY TopCall DEF CallsInv, OpsInv
<1>2. state \in [Resource -> {"Stopped", "Starting", "Started"}] BY DEF CallsInv, TypeOK
<1>3. \A x \in Resource : state[x] # "Starting" BY <1>1 DEF CallsInv, HalfInv
<1>4. HalfInv' BY <1>2, <1>3 DEF HalfInv
<1>6. FitInv'
  <2>1. \A x \in Foreign : x \in Resource BY ConstantsAssumption
  <2>2. \A x \in Foreign : state'[x] # "Started" BY <1>2, <2>1 DEF CallsInv, FitInv
  <2> QED BY <2>2 DEF FitInv, Late
<1>5. OpsInv' /\ AwaitInv' /\ OneSetup' /\ RushedNested' /\ StartsInv'
  BY StageSets DEF OpsInv, AwaitInv, OneSetup, RushedNested, StartsInv
<1> QED BY <1>4, <1>5, <1>6

LEMMA GotoGoesOn ==
  ASSUME TypeOK, stack # <<>>, NEW stage \in Stages, NEW left \in SUBSET Names,
         Goto(stage, left)
  PROVE  GoesOn(stage) /\ Len(stack') = Len(stack) /\ stack'[Len(stack)].left = left
BY GotoShape, TopFacts DEF GoesOn

LEMMA CallGoesOn ==
  ASSUME TypeOK, stack # <<>>, NEW stage \in Stages, NEW left \in SUBSET Names,
         NEW op \in Ops, NEW r \in Resource, Call(op, r, stage, left), Top.op = op
  PROVE  /\ GoesOn(stage) /\ Len(stack') = Len(stack) + 1
         /\ stack'[Len(stack)].left = left
         /\ stack'[Len(stack) + 1].res = r
BY CallShape DEF GoesOn

LEMMA AnswerReturns ==
  ASSUME TypeOK, stack # <<>>, NEW stage \in Stages, Answer(stage)
  PROVE  Returns(stage)
BY AnswerShape DEF Returns

\* The setup of a resource by the call on top is the only one, and no call is
\* past it.
LEMMA OnlyTopStarts ==
  ASSUME CallsInv, stack # <<>>, Top.at \in Setup, Top.res \notin Foreign,
         NEW i \in Calls, i # Len(stack),
         stack[i].at \in Setup \union Late
  PROVE  stack[i].res # Top.res
<1>1. Len(stack) \in Calls /\ Top = stack[Len(stack)] /\ i < Len(stack) /\ i \in Nat
  BY TopCall DEF CallsInv
<1>2. Len(stack) \in Nat BY TopCall DEF CallsInv
<1> QED BY <1>1, <1>2 DEF CallsInv, OneSetup, RushedNested

LEMMA CallsNext ==
  ASSUME CallsInv, [Next]_vars
  PROVE  CallsInv'
<1>t. TypeOK /\ TypeOK' BY TypesNext DEF CallsInv
<1>s. state \in [Resource -> {"Stopped", "Starting", "Started"}] BY <1>t DEF TypeOK
<1> DEFINE Goal == /\ OpsInv' /\ AwaitInv' /\ FitInv' /\ OneSetup' /\ RushedNested'
                   /\ StartsInv' /\ HalfInv'
<1> SUFFICES Goal BY <1>t DEF CallsInv
<1> HIDE DEF Goal
<1> USE <1>t, <1>s, StagesAre
<1>1. CASE StartEnter
  <2>1. stack # <<>> /\ Top.op = "start" /\ Top.at = "enter" /\ Top.res \in Resource
    BY <1>1, LeftTyped DEF StartEnter, At
  <2>2. CASE state[Top.res] = "Started" /\ Answer("deps") /\ UNCHANGED <<state, rushed>>
    <3>1. Returns("deps") BY <2>1, <2>2, AnswerReturns
    <3>2. Top.res \notin Foreign BY <2>2 DEF CallsInv, FitInv
    <3>3. \A i \in Calls : stack[i].at \in Setup /\ stack[i].res = Top.res => Top.res \in rushed
      BY <2>2, <3>2, StageSets DEF CallsInv, StartsInv
    <3> QED BY <2>1, <2>2, <3>1, <3>2, <3>3, StartReturns DEF Goal
  <2>3. CASE state[Top.res] = "Starting" /\ Goto("run", {}) /\ state' = state
             /\ rushed' = rushed \union {Top.res}
    <3>1. GoesOn("run") /\ Len(stack') = Len(stack) BY <2>1, <2>3, LeftTyped, GotoGoesOn
    <3> QED BY <2>1, <2>3, <3>1, StartEnters DEF Goal
  <2>4. CASE state[Top.res] = "Stopped" /\ Goto("starting", {}) /\ rushed' = rushed
             /\ state' = [state EXCEPT ![Top.res] = "Starting"]
    <3>1. GoesOn("starting") /\ Len(stack') = Len(stack) BY <2>1, <2>4, LeftTyped, GotoGoesOn
    <3> QED BY <2>1, <2>4, <3>1, StartEnters DEF Goal
  <2> QED BY <1>1, <2>2, <2>3, <2>4 DEF StartEnter
<1>2. CASE \/ Starting \/ StartCanceled \/ DependencyMissing \/ Dependencies
           \/ NoBuild \/ BuildWanted
  <2>1. /\ stack # <<>> /\ Top.op = "start" /\ Top.at \in Setup
        /\ state' = state /\ rushed' = rushed
    BY <1>2 DEF Starting, StartCanceled, DependencyMissing, Dependencies, NoBuild,
                BuildWanted, At, Setup, ends
  <2>2. PICK stage \in (Stages \cap (Setup \union Late)) \ {"await", "wake"}, left \in SUBSET Names :
          Goto(stage, left)
    BY <1>2, <2>1, LeftTyped
    DEF Starting, StartCanceled, DependencyMissing, Dependencies, NoBuild, BuildWanted,
        Setup, Late
  <2>3. GoesOn(stage) BY <2>1, <2>2, GotoGoesOn
  <2> QED BY <2>1, <2>2, <2>3, StartGoesOn DEF Goal
<1>3. ASSUME NEW d \in Resource, Dependency(d) PROVE Goal
  <2>1. /\ stack # <<>> /\ Top.op = "start" /\ Top.at \in Setup
        /\ state' = state /\ rushed \subseteq rushed'
    BY <1>3 DEF Dependency, At, Setup
  <2>2. CASE Goto("deps", Top.left \ {d})
    <3>1. GoesOn("deps") BY <2>1, <2>2, LeftTyped, GotoGoesOn
    <3> QED BY <2>1, <3>1, StartGoesOn, StageSets DEF Goal
  <2>3. CASE Call("start", d, "await", Top.left \ {d})
    <3>1. GoesOn("await") /\ Len(stack') = Len(stack) + 1
      BY <2>1, <2>3, LeftTyped, CallGoesOn
    <3> QED BY <2>1, <3>1, StartGoesOn, StageSets DEF Goal
  <2> QED BY <1>3, <2>2, <2>3 DEF Dependency
<1>4. CASE BuildAtOnce
  <2>1. /\ stack # <<>> /\ Top.op = "start" /\ Top.at \in Setup
        /\ state' = state /\ rushed' = rushed
    BY <1>4 DEF BuildAtOnce, At, Setup, ends
  <2>2. GoesOn("refused") BY <1>4, <2>1, LeftTyped, CallGoesOn DEF BuildAtOnce
  <2> QED BY <2>1, <2>2, StartGoesOn, StageSets DEF Goal
<1>5. CASE Refused
  <2>1. /\ stack # <<>> /\ Top.res \in Resource
        /\ Top.at \in Setup \/ Top.res \in Foreign
    BY <1>5, LeftTyped DEF Refused, Denied, At, Setup
  <2>2. Returns("refused") BY <1>5, <2>1, AnswerReturns DEF Refused
  <2>3. /\ \A x \in Resource \ {Top.res} : state'[x] = state[x]
        /\ \A x \in Resource \ {Top.res} : x \in rushed' <=> x \in rushed
        /\ state'[Top.res] # "Starting"
    BY <1>5, <2>1 DEF Refused, Refusal
  <2>4. \A i \in Calls : i # Len(stack) /\ stack[i].at \in Setup \union Late
                         /\ Top.res \notin Foreign => stack[i].res # Top.res
    BY <2>1, OnlyTopStarts
  <2>5. Top.res \in Foreign => state'[Top.res] # "Started"
    BY <1>5, <2>1 DEF Refused, Refusal, CallsInv, FitInv
  <2> QED BY <2>1, <2>2, <2>3, <2>4, <2>5, StartReturns DEF Goal
<1>6. CASE Run \/ \E a \in Resource : Wake(a)
  <2>1. /\ stack # <<>> /\ Top.op = "start" /\ Top.at \in Late
        /\ state' = state /\ rushed' = rushed
    BY <1>6 DEF Run, Wake, At, Late, ends
  <2>2. CASE Run
    <3>1. GoesOn("wake") BY <2>1, <2>2, LeftTyped, GotoGoesOn DEF Run
    <3>2. Top.res \notin Foreign BY <2>2 DEF Run
    <3> QED BY <2>1, <3>1, <3>2, StartGoesOn DEF Goal, Late
  <2>3. ASSUME NEW a \in Resource, Wake(a) PROVE Goal
    <3>1. GoesOn("wake") BY <2>1, <2>3, LeftTyped, CallGoesOn DEF Wake, Woken
    <3>2. Top.res \notin Foreign BY <2>1, <2>3, TopCall DEF Wake, At, CallsInv, FitInv
    <3> QED BY <2>1, <3>1, <3>2, StartGoesOn DEF Goal, Late
  <2> QED BY <1>6, <2>2, <2>3
<1>7. CASE Started
  <2>1. stack # <<>> /\ Top.at \in Late /\ Top.res \in Resource
    BY <1>7, LeftTyped DEF Started, At, Late
  <2>2. Returns("deps") BY <1>7, <2>1, AnswerReturns DEF Started
  <2>3. state' = [state EXCEPT ![Top.res] = "Started"] /\ rushed' = rushed
    BY <1>7 DEF Started
  <2>4. /\ Len(stack) \in Calls /\ Top = stack[Len(stack)]
        /\ Top.res \notin Foreign
    BY <1>7, <2>1, TopCall DEF Started, At, CallsInv, FitInv
  <2>5. \A i \in Calls : stack[i].at \in Setup /\ stack[i].res = Top.res => Top.res \in rushed
    BY <2>1, <2>4 DEF CallsInv, RushedNested
  <2>6. state'[Top.res] = "Started" /\ \A x \in Resource \ {Top.res} : state'[x] = state[x]
    BY <2>1, <2>3
  <2> QED BY <2>1, <2>2, <2>3, <2>4, <2>5, <2>6, StartReturns DEF Goal
<1>8. CASE StopEnter \/ Stopped \/ \E a \in Resource : StopDependant(a)
  <2>1. /\ stack # <<>> /\ Top.op = "stop" /\ Top.res \in Resource
        /\ state' = state \/ state' = [state EXCEPT ![Top.res] = "Stopped"]
    BY <1>8, LeftTyped DEF StopEnter, Stopped, StopDependant, At, ends
  <2>2. \A i \in Calls : stack[i].op = "stop" /\ stack[i].at \notin Setup \union Late
    BY <2>1, TopCall DEF CallsInv, OpsInv
  <2>3. ASSUME NEW i \in Calls' PROVE stack'[i].op = "stop" /\ stack'[i].at \notin Setup \union Late
    <3>1. CASE Return
      <4>1. i \in Calls /\ stack'[i] = stack[i]
        BY <2>1, <3>1, TopCall, ReturnShape DEF Calls
      <4> QED BY <2>2, <4>1
    <3>2. CASE Goto("stopping", Dependants(Top.res))
                \/ \E a \in Resource : Call("stop", a, "stopping", Top.left \ {a})
      <4>1. GoesOn("stopping")
        <5>1. CASE Goto("stopping", Dependants(Top.res))
          BY <2>1, <5>1, LeftTyped, GotoGoesOn
        <5>2. ASSUME NEW a \in Resource, Call("stop", a, "stopping", Top.left \ {a})
              PROVE  GoesOn("stopping")
          BY <2>1, <5>2, LeftTyped, CallGoesOn
        <5> QED BY <3>2, <5>1, <5>2
      <4>2. \/ i = Len(stack) + 1 /\ Len(stack') = Len(stack) + 1
            \/ i = Len(stack)
            \/ i \in Calls /\ stack'[i] = stack[i]
        BY <2>1, <4>1, TopCall DEF Calls, GoesOn
      <4> QED BY <2>1, <2>2, <4>1, <4>2, StageSets DEF GoesOn
    <3> QED BY <1>8, <3>1, <3>2 DEF StopEnter, Stopped, StopDependant
  <2> QED BY <2>1, <2>3, StopStep DEF Goal
<1>9. CASE \E r \in Resource : \/ Command("start", r) \/ Command("stop", r)
                               \/ BuildCompleted(r)
  <2>1. PICK op \in Ops, r \in Resource : stack' = <<Frame(op, r, "enter", {})>>
    BY <1>9 DEF Command, BuildCompleted
  <2>2. stack = <<>> /\ state' = state
    BY <1>9 DEF Command, BuildCompleted, BuildEnds, Idle, ends
  <2>3. Calls' = {1} /\ Calls = {} BY <2>1, <2>2, CommandShape DEF Calls
  <2>4. stack'[1].at = "enter" BY <2>1, CommandShape
  <2> QED BY <2>2, <2>3, <2>4, StageSets
          DEF Goal, CallsInv, OpsInv, AwaitInv, FitInv, OneSetup, RushedNested, StartsInv, HalfInv
<1>10. CASE (\E r \in Resource : BuildFailed(r)) \/ UNCHANGED vars
  <2>1. state' = state /\ stack' = stack /\ rushed' = rushed
    BY <1>10 DEF BuildFailed, BuildEnds, ends, vars
  <2>2. Calls' = Calls BY <2>1 DEF Calls
  <2>3. OpsInv' /\ AwaitInv' /\ FitInv' /\ OneSetup'
    BY <2>1, <2>2 DEF CallsInv, OpsInv, AwaitInv, FitInv, OneSetup
  <2>4. RushedNested' /\ StartsInv' BY <2>1, <2>2 DEF CallsInv, RushedNested, StartsInv
  <2>5. HalfInv' BY <2>1, <2>2 DEF CallsInv, HalfInv
  <2> QED BY <2>3, <2>4, <2>5 DEF Goal
<1> QED
  BY <1>1, <1>2, <1>3, <1>4, <1>5, <1>6, <1>7, <1>8, <1>9, <1>10 DEF Next, Continue

LEMMA CallsInit == Init => CallsInv
<1> SUFFICES ASSUME Init PROVE CallsInv OBVIOUS
<1>1. Calls = {} BY DEF Init, Calls
<1>2. OpsInv /\ AwaitInv /\ FitInv /\ OneSetup /\ RushedNested /\ StartsInv
  BY <1>1, ConstantsAssumption
  DEF Init, OpsInv, AwaitInv, FitInv, OneSetup, RushedNested, StartsInv
<1>3. HalfInv BY DEF Init, HalfInv
<1> QED BY <1>2, <1>3, TypesInit DEF CallsInv

\* A resource is starting only while a call starts it: however a start ends, it
\* leaves none half started.
THEOREM StartsFinish == Spec => []NoneHalfStarted
<1>1. CallsInv => NoneHalfStarted
  <2> SUFFICES ASSUME CallsInv, Idle PROVE \A r \in Resource : state[r] # "Starting"
    BY DEF NoneHalfStarted
  <2>1. Calls = {} BY DEF Idle, Calls
  <2> QED BY <2>1 DEF CallsInv, HalfInv
<1> QED BY <1>1, CallsInit, CallsNext, PTL DEF Spec

---------------------------------------------------------------------------
(* Dependencies.                                                           *)

ServesInv ==
  /\ WaitersInv /\ ChecksInv /\ StopInv
  /\ DependenciesRun /\ StopReachesDependants

\* Open and Awaited of a frame, and Met of a dependency, after the step.
OpenNext(i, d) == stack'[i].at \in {"deps", "await"} /\ d \in stack'[i].left
AwaitedNext(i, d) == stack'[i].at = "await" /\ stack'[i + 1].res = d
MetNext(d, r) == state'[d] = "Started" \/ Past(d)' \/ <<d, r>> \in trusted'

\* A call of Start goes on: what was met stays met, and it remains to look at
\* the frame that moved.
LEMMA ServesGoesOn ==
  ASSUME LifecycleInv, CallsInv', stack # <<>>, Top.op = "start", NEW stage, GoesOn(stage),
         Top.at = "wake" => stage = "wake",
         state' \in [Resource -> {"Stopped", "Starting", "Started"}],
         \A x \in Resource : state'[x] = "Started" <=> state[x] = "Started",
         rushed \subseteq rushed', dependants \subseteq dependants', waiting' = waiting,
         trusted \subseteq trusted',
         dependants' \subseteq Resource \X Resource,
         stage \in Checks /\ Top.res \notin rushed' \union Foreign => \A d \in Needs[Top.res] :
           /\ OpenNext(Len(stack), d) \/ <<d, Top.res>> \in dependants'
           /\ \/ OpenNext(Len(stack), d) \/ AwaitedNext(Len(stack), d) \/ Met(d, Top.res)
              \/ <<d, Top.res>> \in trusted'
  PROVE  ServesInv'
<1> DEFINE n == Len(stack)
<1>1. n \in Calls /\ Top = stack[n] /\ n \in Nat /\ n >= 1 BY TopCall DEF LifecycleInv, CallsInv
<1>2. ASSUME NEW i \in Calls'
      PROVE  \/ i = n + 1 /\ stack'[i].at = "enter"
             \/ i = n /\ stack'[i].res = stack[n].res /\ stack'[i].at = stage
             \/ i \in Calls /\ i < n /\ i \in Nat /\ stack'[i] = stack[i]
  BY <1>1 DEF Calls, GoesOn
<1>3. \A i \in Calls : i \in Calls' /\ i \in Nat /\ i <= n BY <1>1 DEF Calls, GoesOn
<1>4. ASSUME NEW d \in Resource, NEW x, Met(d, x) PROVE MetNext(d, x)
  <2>1. CASE state[d] = "Started" BY <2>1 DEF MetNext
  <2>2. CASE Past(d)
    <3>1. PICK i \in Calls : stack[i].res = d /\ stack[i].at = "wake" BY <2>2 DEF Past, Calls
    <3>2. i \in Calls' /\ stack'[i].res = d /\ stack'[i].at = "wake"
      BY <1>1, <1>2, <1>3, <3>1 DEF GoesOn
    <3> QED BY <3>2 DEF MetNext, Past, Calls
  <2>3. CASE <<d, x>> \in trusted BY <2>3 DEF MetNext
  <2> QED BY <1>4, <2>1, <2>2, <2>3 DEF Met
<1>5. WaitersInv'
  <2>1. \A w \in waiting : w[1] \in Resource BY DEF LifecycleInv, CallsInv, TypeOK
  <2> QED BY <2>1 DEF WaitersInv, LifecycleInv
<1>6. ChecksInv'
  <2> SUFFICES ASSUME NEW i \in Calls', stack'[i].at \in Checks, stack'[i].res \notin rushed' \union Foreign,
                      NEW d \in Needs[stack'[i].res]
               PROVE  /\ Open(i, d)' \/ <<d, stack'[i].res>> \in dependants'
                      /\ Open(i, d)' \/ Awaited(i, d)' \/ MetNext(d, stack'[i].res)
    BY DEF ChecksInv, Met, MetNext
  <2>1. CASE i = n
    <3>1. /\ OpenNext(n, d) \/ <<d, stack[n].res>> \in dependants'
          /\ \/ OpenNext(n, d) \/ AwaitedNext(n, d) \/ Met(d, stack[n].res)
             \/ <<d, stack[n].res>> \in trusted'
      BY <1>1, <1>2, <2>1
    <3>2. OpenNext(n, d) \/ d \in Resource BY <3>1
    <3>3. stack'[i].res = stack[n].res BY <1>1, <1>2, <2>1
    <3>4. CASE OpenNext(n, d) BY <2>1, <3>4 DEF Open, OpenNext
    <3>5. CASE ~OpenNext(n, d)
      <4>1. <<d, stack'[i].res>> \in dependants' BY <3>1, <3>3, <3>5
      <4>2. AwaitedNext(n, d) \/ MetNext(d, stack[n].res) BY <1>4, <3>1, <3>2, <3>5 DEF MetNext
      <4> QED BY <2>1, <3>3, <4>1, <4>2 DEF Awaited, AwaitedNext
    <3> QED BY <3>4, <3>5
  <2>2. CASE i \in Calls /\ i < n /\ i \in Nat /\ stack'[i] = stack[i]
    <3>1. /\ Open(i, d) \/ <<d, stack[i].res>> \in dependants
          /\ Open(i, d) \/ Awaited(i, d) \/ Met(d, stack[i].res)
      BY <2>2 DEF LifecycleInv, ChecksInv
    <3>2. Open(i, d) => Open(i, d)' BY <2>2 DEF Open
    <3>3. Awaited(i, d) => Awaited(i, d)'
      <4>1. i + 1 \in Calls BY <1>1, <2>2 DEF Calls
      <4>2. stack'[i + 1].res = stack[i + 1].res
        <5>1. CASE i + 1 = n BY <1>1, <5>1 DEF GoesOn
        <5>2. CASE i + 1 # n BY <1>1, <2>2, <5>2 DEF GoesOn
        <5> QED BY <5>1, <5>2
      <4> QED BY <2>2, <4>2 DEF Awaited
    <3>4. <<d, stack[i].res>> \in dependants => d \in Resource
      BY DEF LifecycleInv, CallsInv, TypeOK
    <3> QED BY <1>4, <2>2, <3>1, <3>2, <3>3, <3>4
  <2>3. CASE stack'[i].at = "enter" BY <2>3 DEF Checks
  <2> QED BY <1>2, <2>1, <2>2, <2>3
<1>7. StopInv'
  <2>1. n \in Calls' /\ stack'[n].op = "start" BY <1>1, <1>3 DEF GoesOn
  <2>2. \A i \in Calls' : stack'[i].at # "stopping" BY <2>1 DEF CallsInv, OpsInv
  <2> QED BY <2>2 DEF StopInv
<1>8. DependenciesRun' /\ StopReachesDependants'
  <2> SUFFICES ASSUME NEW x \in Resource, x \notin rushed', state'[x] = "Started",
                      NEW d \in Needs[x]
               PROVE  MetNext(d, x) /\ <<d, x>> \in dependants'
    BY DEF DependenciesRun, StopReachesDependants, MetNext
  <2>1. Met(d, x) /\ <<d, x>> \in dependants
    BY DEF LifecycleInv, DependenciesRun, StopReachesDependants, Met
  <2>2. d \in Resource BY <2>1 DEF LifecycleInv, CallsInv, TypeOK
  <2> QED BY <1>4, <2>1, <2>2
<1> QED BY <1>5, <1>6, <1>7, <1>8 DEF ServesInv

\* What a call of Start of r leaves when it returns: others stay as they are, a
\* caller goes on only when r runs, and none that starts r is left behind.
Outcome(stage, r) ==
  /\ dependants' = dependants
  /\ \A x \in Resource \ {r} : state'[x] = state[x]
  /\ \A x \in Resource \ {r} : x \in rushed' <=> x \in rushed
  /\ state[r] = "Started" \/ Top.at = "wake" => state'[r] = "Started"
  /\ stage = "deps" => state'[r] = "Started"
  /\ state'[r] = "Started" => state[r] = "Started" \/ Top.at = "wake"
  /\ state'[r] = "Started" => (r \in rushed' <=> r \in rushed)
  /\ \A i \in Calls : i # Len(stack) /\ stack[i].at \in Setup \union Late /\ stack[i].res = r
                     /\ r \notin Foreign =>
       state'[r] # "Stopped" /\ (r \in rushed => r \in rushed')
  /\ \A p \in trusted : \/ p \in trusted'
                        \/ p[1] = r /\ state'[r] = "Started"
                        \/ p[2] = r /\ state'[r] = "Stopped"
  /\ \A w \in waiting' : w \in waiting \/ w[1] = r
  /\ \A w \in waiting' : w[1] = r /\ state'[r] = "Started" => r \in rushed'

LEMMA ServesReturns ==
  ASSUME LifecycleInv, CallsInv', stack # <<>>, Top.op = "start",
         NEW stage \in {"deps", "refused"}, Returns(stage),
         NEW r \in Resource, Top.res = r, Outcome(stage, r)
  PROVE  ServesInv'
<1> USE DEF Outcome
<1> DEFINE n == Len(stack)
<1>1. n \in Calls /\ Top = stack[n] /\ n \in Nat /\ n >= 1 BY TopCall DEF LifecycleInv, CallsInv
<1>2. ASSUME NEW i \in Calls'
      PROVE  /\ i \in Calls /\ i < n /\ i \in Nat /\ i # n
             /\ stack'[i].op = stack[i].op /\ stack'[i].res = stack[i].res
             /\ stack'[i].left = stack[i].left
             /\ stack'[i].at = IF i = n - 1 /\ stack[i].at = "await"
                               THEN stage ELSE stack[i].at
  BY <1>1 DEF Calls, Returns
<1>3. \A i \in Calls : i \in Calls' \/ i = n BY <1>1 DEF Calls, Returns
<1>4. ASSUME NEW d \in Resource, NEW x \in Resource, Met(d, x),
             ~(x = r /\ state'[r] = "Stopped")
      PROVE  MetNext(d, x)
  <2>1. CASE state[d] = "Started" BY <2>1 DEF MetNext
  <2>2. CASE Past(d)
    <3>1. PICK i \in Calls : stack[i].res = d /\ stack[i].at = "wake" BY <2>2 DEF Past, Calls
    <3>2. CASE i = n BY <1>1, <3>1, <3>2 DEF MetNext
    <3>3. CASE i # n
      <4>1. i \in Calls' /\ stack'[i].res = d /\ stack'[i].at = "wake"
        BY <1>2, <1>3, <3>1, <3>3
      <4> QED BY <4>1 DEF MetNext, Past, Calls
    <3> QED BY <3>2, <3>3
  <2>3. CASE <<d, x>> \in trusted BY <1>4, <2>3 DEF MetNext
  <2> QED BY <1>4, <2>1, <2>2, <2>3 DEF Met
<1>5. WaitersInv'
  <2>1. \A w \in waiting : w[1] \in Resource BY DEF LifecycleInv, CallsInv, TypeOK
  <2> SUFFICES ASSUME NEW w \in waiting', state'[w[1]] = "Started" PROVE w[1] \in rushed'
    BY DEF WaitersInv
  <2>2. CASE w[1] = r BY <2>2
  <2>3. CASE w[1] # r BY <2>1, <2>3 DEF WaitersInv, LifecycleInv
  <2> QED BY <2>2, <2>3
<1>6. ChecksInv'
  <2> SUFFICES ASSUME NEW i \in Calls', stack'[i].at \in Checks, stack'[i].res \notin rushed' \union Foreign,
                      NEW d \in Needs[stack'[i].res]
               PROVE  /\ Open(i, d)' \/ <<d, stack'[i].res>> \in dependants'
                      /\ Open(i, d)' \/ Awaited(i, d)' \/ MetNext(d, stack'[i].res)
    BY DEF ChecksInv, Met, MetNext
  <2>1. i \in Calls /\ i \in Nat /\ i < n BY <1>2
  <2>2. stack[i].at \in Checks BY <1>2 DEF Checks
  <2>3. stack[i].res \in Resource BY <2>1, TopCall DEF LifecycleInv, CallsInv
  <2>4. /\ stack[i].res \notin rushed \union Foreign
        /\ ~(stack[i].res = r /\ state'[r] = "Stopped")
    <3>1. stack[i].at \in Setup \union Late BY <2>2 DEF Checks, Setup, Late
    <3> QED BY <1>2, <2>1, <2>3, <3>1
  <2>5. /\ Open(i, d) \/ <<d, stack[i].res>> \in dependants
        /\ Open(i, d) \/ Awaited(i, d) \/ Met(d, stack[i].res)
    BY <1>2, <2>1, <2>2, <2>4 DEF LifecycleInv, ChecksInv
  <2>6. CASE i = n - 1 /\ stack[i].at = "await"
    <3>1. stage = "deps" BY <1>2, <2>6 DEF Checks
    <3>2. Open(i, d) => Open(i, d)' BY <1>2, <2>6, <3>1 DEF Open
    <3>3. Awaited(i, d) => d = r BY <1>1, <2>6 DEF Awaited
    <3>4. Awaited(i, d) => MetNext(d, stack[i].res) BY <3>1, <3>3 DEF MetNext
    <3>5. <<d, stack[i].res>> \in dependants => d \in Resource
      BY DEF LifecycleInv, CallsInv, TypeOK
    <3> QED BY <1>2, <1>4, <2>3, <2>4, <2>5, <3>2, <3>4, <3>5
  <2>7. CASE ~(i = n - 1 /\ stack[i].at = "await")
    <3>1. stack'[i].at = stack[i].at BY <1>2, <2>7
    <3>2. Open(i, d) => Open(i, d)' BY <1>2, <3>1 DEF Open
    <3>3. Awaited(i, d) => Awaited(i, d)'
      <4> SUFFICES ASSUME Awaited(i, d) PROVE Awaited(i, d)' OBVIOUS
      <4>1. i + 1 \in 1 .. n - 1 BY <1>1, <2>1, <2>7 DEF Awaited
      <4>2. stack'[i + 1].res = stack[i + 1].res BY <4>1 DEF Returns
      <4> QED BY <3>1, <4>2 DEF Awaited
    <3>4. <<d, stack[i].res>> \in dependants => d \in Resource
      BY DEF LifecycleInv, CallsInv, TypeOK
    <3> QED BY <1>2, <1>4, <2>3, <2>4, <2>5, <3>2, <3>3, <3>4
  <2> QED BY <2>6, <2>7
<1>7. StopInv'
  <2>1. \A i \in Calls : stack[i].op = "start" BY <1>1 DEF LifecycleInv, CallsInv, OpsInv
  <2>2. \A i \in Calls' : stack'[i].at # "stopping" BY <1>2, <2>1 DEF CallsInv, OpsInv
  <2> QED BY <2>2 DEF StopInv
<1>8. DependenciesRun' /\ StopReachesDependants'
  <2> SUFFICES ASSUME NEW x \in Resource, x \notin rushed', state'[x] = "Started",
                      NEW d \in Needs[x]
               PROVE  MetNext(d, x) /\ <<d, x>> \in dependants'
    BY DEF DependenciesRun, StopReachesDependants, MetNext
  <2>1. Met(d, x) /\ <<d, x>> \in dependants
    <3>1. CASE state[x] = "Started" /\ x \notin rushed
      BY <3>1 DEF LifecycleInv, DependenciesRun, StopReachesDependants, Met
    <3>2. CASE ~(state[x] = "Started" /\ x \notin rushed)
      <4>1. x = r /\ x \notin rushed /\ Top.at = "wake" BY <3>2
      <4>3. x \notin Foreign BY <1>1, <4>1 DEF LifecycleInv, CallsInv, FitInv
      <4>2. ~Open(n, d) /\ ~Awaited(n, d) BY <1>1, <4>1 DEF Open, Awaited
      <4> QED BY <1>1, <4>1, <4>2, <4>3 DEF LifecycleInv, ChecksInv, Checks
    <3> QED BY <3>1, <3>2
  <2>2. d \in Resource BY <2>1 DEF LifecycleInv, CallsInv, TypeOK
  <2> QED BY <1>4, <2>1, <2>2
<1> QED BY <1>5, <1>6, <1>7, <1>8 DEF ServesInv

\* No call of Start is under way when one of Stop is.
LEMMA StopsAlone ==
  ASSUME LifecycleInv, stack # <<>>, Top.op = "stop"
  PROVE  /\ \A i \in Calls : stack[i].op = "stop"
         /\ \A i \in Calls : stack[i].at \notin Checks
         /\ \A d : ~Past(d)
<1>1. \A i \in Calls : stack[i].op = "stop" BY TopCall DEF LifecycleInv, CallsInv, OpsInv
<1>2. \A i \in Calls : stack[i].at \notin Setup \union Late
  BY <1>1 DEF LifecycleInv, CallsInv, OpsInv
<1>3. \A i \in Calls : stack[i].at \notin Checks BY <1>2 DEF Checks, Setup, Late
<1> QED BY <1>1, <1>3 DEF Past, Calls, Checks

\* A call of Stop goes on to a dependant, or begins with them.
LEMMA ServesStopping ==
  ASSUME LifecycleInv, CallsInv', stack # <<>>, Top.op = "stop", GoesOn("stopping"),
         UNCHANGED <<state, dependants, waiting, rushed, trusted>>,
         \A a \in Resource : <<Top.res, a>> \in dependants /\ state[a] # "Stopped" =>
           \/ a \in stack'[Len(stack)].left
           \/ Len(stack') = Len(stack) + 1 /\ stack'[Len(stack) + 1].res = a
  PROVE  ServesInv'
<1> DEFINE n == Len(stack)
<1>1. n \in Calls /\ Top = stack[n] /\ n \in Nat /\ n >= 1 BY TopCall DEF LifecycleInv, CallsInv
<1>2. ASSUME NEW i \in Calls'
      PROVE  \/ i = n + 1 /\ stack'[i].at = "enter"
             \/ i = n /\ stack'[i].res = stack[n].res /\ stack'[i].at = "stopping"
             \/ i \in Calls /\ i < n /\ i \in Nat /\ stack'[i] = stack[i]
  BY <1>1 DEF Calls, GoesOn
<1>3. \A i \in Calls : i \in Calls' BY <1>1 DEF Calls, GoesOn
<1>4. ChecksInv'
  <2>1. \A i \in Calls' : stack'[i].at \notin Checks BY <1>2, StopsAlone DEF Checks
  <2> QED BY <2>1 DEF ChecksInv
<1>5. StopInv'
  <2> SUFFICES ASSUME NEW i \in Calls', stack'[i].at = "stopping", NEW a \in Resource,
                      <<stack'[i].res, a>> \in dependants, state[a] # "Stopped"
               PROVE  a \in stack'[i].left \/ (i + 1 \in Calls' /\ stack'[i + 1].res = a)
    BY DEF StopInv
  <2>1. CASE i = n
    <3>1. Len(stack') = n + 1 => n + 1 \in Calls' BY <1>1 DEF Calls
    <3> QED BY <1>1, <1>2, <2>1, <3>1
  <2>2. CASE i \in Calls /\ i < n /\ i \in Nat /\ stack'[i] = stack[i]
    <3>1. a \in stack[i].left \/ (i + 1 \in Calls /\ stack[i + 1].res = a)
      BY <2>2 DEF LifecycleInv, StopInv
    <3>2. stack'[i + 1].res = stack[i + 1].res
      <4>1. CASE i + 1 = n BY <1>1, <4>1 DEF GoesOn
      <4>2. CASE i + 1 # n BY <1>1, <2>2, <4>2 DEF GoesOn
      <4> QED BY <4>1, <4>2
    <3> QED BY <1>3, <2>2, <3>1, <3>2
  <2> QED BY <1>2, <2>1, <2>2
<1>6. WaitersInv' /\ StopReachesDependants'
  BY DEF LifecycleInv, WaitersInv, StopReachesDependants
<1>7. DependenciesRun'
  BY StopsAlone DEF LifecycleInv, DependenciesRun
<1> QED BY <1>4, <1>5, <1>6, <1>7 DEF ServesInv

\* A call of Stop returns, when the resource has stopped after its dependants.
LEMMA ServesStopped ==
  ASSUME LifecycleInv, CallsInv', stack # <<>>, Top.op = "stop", Return,
         NEW r \in Resource, Top.res = r,
         \/ state[r] = "Stopped" /\ UNCHANGED <<state, dependants, rushed, trusted>>
         \/ /\ Top.at = "stopping" /\ Top.left = {}
            /\ state' = [state EXCEPT ![r] = "Stopped"]
            /\ dependants' = {p \in dependants : p[1] # r}
            /\ rushed' = rushed \ {r}
            /\ trusted' = {p \in trusted : p[2] # r},
         waiting' = waiting
  PROVE  ServesInv'
<1> DEFINE n == Len(stack)
<1>t. TypeOK BY DEF LifecycleInv, CallsInv
<1>1. n \in Calls /\ Top = stack[n] /\ n \in Nat /\ n >= 1 BY <1>t, TopCall
<1>2. ASSUME NEW i \in Calls' PROVE i \in Calls /\ i < n /\ i \in Nat /\ stack'[i] = stack[i]
  BY <1>1, <1>t, ReturnShape DEF Calls
<1>3. ASSUME NEW i \in Calls, i < n, i \in Nat PROVE i \in Calls' /\ (i + 1 \in Calls' \/ i + 1 = n)
  BY <1>1, <1>t, <1>3, ReturnShape DEF Calls
<1>4. state \in [Resource -> {"Stopped", "Starting", "Started"}] BY <1>t DEF TypeOK
<1>5. state'[r] = "Stopped" /\ \A x \in Resource \ {r} : state'[x] = state[x] BY <1>4
<1>6. ChecksInv'
  <2>1. \A i \in Calls' : stack'[i].at \notin Checks BY <1>2, StopsAlone
  <2> QED BY <2>1 DEF ChecksInv
<1>7. StopInv'
  <2> SUFFICES ASSUME NEW i \in Calls', stack'[i].at = "stopping", NEW a \in Resource,
                      <<stack'[i].res, a>> \in dependants', state'[a] # "Stopped"
               PROVE  a \in stack'[i].left \/ (i + 1 \in Calls' /\ stack'[i + 1].res = a)
    BY DEF StopInv
  <2>1. a # r /\ state[a] # "Stopped" BY <1>5
  <2>2. i \in Calls /\ i < n /\ i \in Nat /\ stack'[i] = stack[i] BY <1>2
  <2>3. <<stack[i].res, a>> \in dependants BY <2>2
  <2>4. a \in stack[i].left \/ (i + 1 \in Calls /\ stack[i + 1].res = a)
    BY <2>1, <2>2, <2>3 DEF LifecycleInv, StopInv
  <2>5. i + 1 \in Calls' => stack'[i + 1] = stack[i + 1] BY <1>2
  <2> QED BY <1>1, <1>3, <2>1, <2>2, <2>4, <2>5
<1>8. WaitersInv'
  <2>1. \A w \in waiting : w[1] \in Resource BY <1>t DEF TypeOK
  <2>2. \A x \in Resource \ {r} : x \in rushed => x \in rushed' OBVIOUS
  <2> SUFFICES ASSUME NEW w \in waiting, state'[w[1]] = "Started" PROVE w[1] \in rushed'
    BY DEF WaitersInv
  <2>3. w[1] \in Resource \ {r} BY <1>5, <2>1
  <2> QED BY <1>5, <2>2, <2>3 DEF LifecycleInv, WaitersInv
<1>9. DependenciesRun' /\ StopReachesDependants'
  <2> SUFFICES ASSUME NEW x \in Resource, x \notin rushed', state'[x] = "Started",
                      NEW d \in Needs[x]
               PROVE  /\ state'[d] = "Started" \/ <<d, x>> \in trusted'
                      /\ <<d, x>> \in dependants'
    BY DEF DependenciesRun, StopReachesDependants
  <2>1. x # r /\ state[x] = "Started" /\ x \notin rushed BY <1>5
  <2>2. state[d] = "Started" \/ <<d, x>> \in trusted
    BY <2>1, StopsAlone DEF LifecycleInv, DependenciesRun
  <2>3. <<d, x>> \in dependants /\ d \in Resource
    BY <1>t, <2>1 DEF LifecycleInv, StopReachesDependants, TypeOK
  <2>4. CASE d # r BY <1>5, <2>1, <2>2, <2>3, <2>4
  <2>5. CASE d = r
    <3>1. ~(Top.at = "stopping" /\ Top.left = {})
      <4>1. n + 1 \notin Calls BY <1>1 DEF Calls
      <4>2. <<stack[n].res, x>> \in dependants /\ state[x] # "Stopped" BY <1>1, <2>1, <2>3, <2>5
      <4> QED BY <1>1, <4>1, <4>2 DEF LifecycleInv, StopInv
    <3>2. UNCHANGED <<state, dependants, rushed, trusted>> BY <3>1
    <3> QED BY <2>2, <2>3, <3>2
  <2> QED BY <2>4, <2>5
<1> QED BY <1>6, <1>7, <1>8, <1>9 DEF ServesInv

\* What ChecksInv says of the call on top.
LEMMA TopChecks ==
  ASSUME LifecycleInv, stack # <<>>, Top.at \in Checks \ {"await"},
         Top.res \notin rushed \union Foreign, NEW d \in Needs[Top.res]
  PROVE  \/ Top.at = "deps" /\ d \in Top.left
         \/ Met(d, Top.res) /\ <<d, Top.res>> \in dependants
<1>1. Len(stack) \in Calls /\ Top = stack[Len(stack)] BY TopCall DEF LifecycleInv, CallsInv
<1>2. ~Awaited(Len(stack), d) BY <1>1 DEF Awaited
<1>3. Open(Len(stack), d) => Top.at = "deps" /\ d \in Top.left BY <1>1 DEF Open
<1>4. /\ Open(Len(stack), d) \/ <<d, Top.res>> \in dependants
      /\ Open(Len(stack), d) \/ Awaited(Len(stack), d) \/ Met(d, Top.res)
  BY <1>1 DEF LifecycleInv, ChecksInv
<1> QED BY <1>2, <1>3, <1>4

LEMMA LifecycleNext ==
  ASSUME LifecycleInv, [Next]_vars
  PROVE  LifecycleInv'
<1>t. CallsInv' /\ CallsInv BY CallsNext DEF LifecycleInv
<1>u. TypeOK /\ TypeOK' BY <1>t DEF CallsInv
<1>v. /\ state \in [Resource -> {"Stopped", "Starting", "Started"}]
      /\ state' \in [Resource -> {"Stopped", "Starting", "Started"}]
      /\ dependants \subseteq Resource \X Resource
      /\ dependants' \subseteq Resource \X Resource
  BY <1>u DEF TypeOK
<1> SUFFICES ServesInv' BY <1>t DEF LifecycleInv, ServesInv
<1> USE <1>t, <1>u, <1>v, StagesAre
<1>1. CASE StartEnter
  <2>1. /\ stack # <<>> /\ Top.op = "start" /\ Top.at = "enter" /\ Top.res \in Resource
        /\ UNCHANGED <<dependants, waiting, trusted>>
    BY <1>1, LeftTyped DEF StartEnter, At
  <2>2. CASE state[Top.res] = "Started" /\ Answer("deps") /\ UNCHANGED <<state, rushed>>
    <3>1. Returns("deps") BY <2>1, <2>2, AnswerReturns
    <3>2. \A w \in waiting : w[1] = Top.res => Top.res \in rushed
      BY <2>2 DEF LifecycleInv, WaitersInv
    <3>3. /\ state'[Top.res] = "Started" /\ rushed' = rushed /\ trusted' = trusted
          /\ \A x \in Resource \ {Top.res} : state'[x] = state[x]
      BY <2>1, <2>2
    <3>4. \A p \in trusted : \/ p \in trusted'
                             \/ p[1] = Top.res /\ state'[Top.res] = "Started"
                             \/ p[2] = Top.res /\ state'[Top.res] = "Stopped"
      BY <3>3
    <3>5. \A w \in waiting' : /\ w \in waiting \/ w[1] = Top.res
                              /\ w[1] = Top.res /\ state'[Top.res] = "Started" =>
                                   Top.res \in rushed'
      BY <2>1, <3>2, <3>3
    <3>6. \A i \in Calls : i # Len(stack) /\ stack[i].at \in Setup \union Late
                           /\ stack[i].res = Top.res /\ Top.res \notin Foreign =>
            state'[Top.res] # "Stopped" /\ (Top.res \in rushed => Top.res \in rushed')
      BY <3>3
    <3>7. Outcome("deps", Top.res) BY <2>1, <2>2, <3>3, <3>4, <3>5, <3>6 DEF Outcome
    <3> QED BY <2>1, <3>1, <3>7, ServesReturns
  <2>3. CASE state[Top.res] = "Starting" /\ Goto("run", {}) /\ state' = state
             /\ rushed' = rushed \union {Top.res}
    <3>1. GoesOn("run") BY <2>1, <2>3, LeftTyped, GotoGoesOn
    <3> QED BY <2>1, <2>3, <3>1, ServesGoesOn
  <2>4. CASE state[Top.res] = "Stopped" /\ Goto("starting", {}) /\ rushed' = rushed
             /\ state' = [state EXCEPT ![Top.res] = "Starting"]
    <3>1. GoesOn("starting") BY <2>1, <2>4, LeftTyped, GotoGoesOn
    <3>2. \A x \in Resource : state'[x] = "Started" <=> state[x] = "Started" BY <2>1, <2>4
    <3>3. "starting" \notin Checks BY DEF Checks
    <3> QED BY <2>1, <2>4, <3>1, <3>2, <3>3, ServesGoesOn
  <2> QED BY <1>1, <2>2, <2>3, <2>4 DEF StartEnter
<1>2. CASE Starting
  <2>1. /\ stack # <<>> /\ Top.op = "start" /\ Top.at = "starting"
        /\ UNCHANGED <<state, dependants, waiting, rushed, trusted>>
    BY <1>2 DEF Starting, At, ends
  <2>2. GoesOn("deps") /\ stack'[Len(stack)].left = Needs[Top.res]
    BY <1>2, <2>1, LeftTyped, GotoGoesOn DEF Starting
  <2>3. \A d \in Needs[Top.res] : OpenNext(Len(stack), d) BY <2>2 DEF GoesOn, OpenNext
  <2> QED BY <2>1, <2>2, <2>3, ServesGoesOn
<1>3. CASE StartCanceled \/ DependencyMissing \/ BuildWanted \/ BuildAtOnce
  <2>1. /\ stack # <<>> /\ Top.op = "start" /\ Top.at # "wake" /\ Top.res \in Resource
        /\ UNCHANGED <<state, dependants, waiting, rushed, trusted>>
    BY <1>3, LeftTyped
    DEF StartCanceled, DependencyMissing, BuildWanted, BuildAtOnce, At, ends
  <2>2. GoesOn("refused")
    <3>1. CASE Goto("refused", {}) BY <2>1, <3>1, LeftTyped, GotoGoesOn
    <3>2. CASE Call("start", Top.res, "refused", {}) BY <2>1, <3>2, LeftTyped, CallGoesOn
    <3> QED BY <1>3, <3>1, <3>2
            DEF StartCanceled, DependencyMissing, BuildWanted, BuildAtOnce
  <2>3. "refused" \notin Checks BY DEF Checks
  <2> QED BY <2>1, <2>2, <2>3, ServesGoesOn
<1>4. ASSUME NEW e \in Resource, Dependency(e) PROVE ServesInv'
  <2>1. /\ stack # <<>> /\ Top.op = "start" /\ Top.at = "deps" /\ Top.res \in Resource
        /\ UNCHANGED <<state, waiting, rushed>>
        /\ dependants' = dependants \union {<<e, Top.res>>}
    BY <1>4, LeftTyped DEF Dependency, At, Noted
  <2>2. ASSUME Top.res \notin rushed \union Foreign, NEW d \in Needs[Top.res], d # e
        PROVE  d \in Top.left \ {e} \/ (Met(d, Top.res) /\ <<d, Top.res>> \in dependants')
    BY <2>1, <2>2, TopChecks DEF Checks
  <2>3. CASE /\ Runs(e) /\ Goto("deps", Top.left \ {e})
             /\ trusted' = trusted \union
                  {p \in {<<e, Top.res>>} : state[e] = "Starting" /\ ~Past(e)}
    <3>1. GoesOn("deps") /\ stack'[Len(stack)].left = Top.left \ {e}
      BY <2>1, <2>3, LeftTyped, GotoGoesOn
    <3>2. Met(e, Top.res) \/ <<e, Top.res>> \in trusted' BY <2>3 DEF Runs, Met
    <3>3. \A d : d \in Top.left \ {e} => OpenNext(Len(stack), d) BY <3>1 DEF GoesOn, OpenNext
    <3>4. Top.res \notin rushed \union Foreign => \A d \in Needs[Top.res] :
            /\ OpenNext(Len(stack), d) \/ <<d, Top.res>> \in dependants'
            /\ \/ OpenNext(Len(stack), d) \/ AwaitedNext(Len(stack), d) \/ Met(d, Top.res)
               \/ <<d, Top.res>> \in trusted'
      BY <2>1, <2>2, <3>2, <3>3
    <3>5. trusted \subseteq trusted' BY <2>3
    <3> QED BY <2>1, <3>1, <3>4, <3>5, ServesGoesOn
  <2>4. CASE Call("start", e, "await", Top.left \ {e}) /\ trusted' = trusted
    <3>0. "await" \in Stages /\ "start" \in Ops /\ Top.left \ {e} \in SUBSET Names
      BY <2>1, LeftTyped DEF Stages, Ops
    <3>1. /\ GoesOn("await") /\ stack'[Len(stack)].left = Top.left \ {e}
          /\ stack'[Len(stack) + 1].res = e
      BY <2>1, <2>4, <3>0, CallGoesOn
    <3>2. AwaitedNext(Len(stack), e) BY <3>1 DEF GoesOn, AwaitedNext
    <3>3. \A d : d \in Top.left \ {e} => OpenNext(Len(stack), d) BY <3>1 DEF GoesOn, OpenNext
    <3>4. Top.res \notin rushed \union Foreign => \A d \in Needs[Top.res] :
            /\ OpenNext(Len(stack), d) \/ <<d, Top.res>> \in dependants'
            /\ OpenNext(Len(stack), d) \/ AwaitedNext(Len(stack), d) \/ Met(d, Top.res)
      BY <2>1, <2>2, <3>2, <3>3
    <3> QED BY <2>1, <2>4, <3>1, <3>4, ServesGoesOn
  <2> QED BY <1>4, <2>3, <2>4 DEF Dependency
<1>5. CASE Dependencies \/ NoBuild \/ Run
  <2>1. /\ stack # <<>> /\ Top.op = "start" /\ Top.at \in Checks \ {"await", "wake"}
        /\ UNCHANGED <<state, dependants, waiting, rushed, trusted>>
        /\ Top.at = "deps" => Top.left = {}
    BY <1>5 DEF Dependencies, NoBuild, Run, At, Checks, ends
  <2>2. PICK stage \in Stages, left \in SUBSET Names : Goto(stage, left)
    BY <1>5, <2>1, LeftTyped DEF Dependencies, NoBuild, Run
  <2>3. GoesOn(stage) BY <2>1, <2>2, GotoGoesOn
  <2>4. ASSUME NEW d \in Needs[Top.res], Top.res \notin rushed \union Foreign
        PROVE  Met(d, Top.res) /\ <<d, Top.res>> \in dependants
    BY <2>1, <2>4, TopChecks
  <2> QED BY <2>1, <2>3, <2>4, ServesGoesOn
<1>6. CASE Refused
  <2>1. /\ stack # <<>> /\ Top.op = "start" /\ Top.at \in {"refused", "run"}
        /\ Top.at = "refused" \/ Top.res \in Foreign
        /\ Top.res \in Resource /\ dependants' = dependants
    BY <1>6, LeftTyped DEF Refused, Denied, At
  <2>2. Returns("refused") BY <1>6, <2>1, AnswerReturns DEF Refused
  <2>3. /\ \A x \in Resource \ {Top.res} : state'[x] = state[x]
        /\ \A x \in Resource \ {Top.res} : x \in rushed' <=> x \in rushed
        /\ state'[Top.res] = IF state[Top.res] = "Started" THEN "Started" ELSE "Stopped"
        /\ state'[Top.res] # "Stopped" => rushed' = rushed
    BY <1>6, <2>1 DEF Refused, Refusal
  <2>4. \A i \in Calls : i # Len(stack) /\ stack[i].at \in Setup \union Late
                         /\ Top.res \notin Foreign => stack[i].res # Top.res
    BY <2>1, OnlyTopStarts DEF Setup
  <2>5. state[Top.res] = "Started" => Top.res \in rushed
    BY <2>1, TopCall, StageSets DEF CallsInv, StartsInv, FitInv
  <2>6. \A w \in waiting' : w \in waiting \/ w[1] = Top.res BY <1>6 DEF Refused, Refusing
  <2>7. state'[Top.res] = "Started" => state[Top.res] = "Started" /\ rushed' = rushed
    BY <2>3
  <2>8. \A p \in trusted : \/ p \in trusted'
                           \/ p[1] = Top.res /\ state'[Top.res] = "Started"
                           \/ p[2] = Top.res /\ state'[Top.res] = "Stopped"
    <3>1. \/ state'[Top.res] = "Stopped" /\ trusted' = {p \in trusted : p[2] # Top.res}
          \/ trusted' = trusted
      BY <1>6 DEF Refused
    <3> QED BY <3>1
  <2>9. \A i \in Calls : i # Len(stack) /\ stack[i].at \in Setup \union Late
                         /\ stack[i].res = Top.res /\ Top.res \notin Foreign =>
          state'[Top.res] # "Stopped" /\ (Top.res \in rushed => Top.res \in rushed')
    BY <2>4
  <2>10. /\ Top.at # "wake"
         /\ state[Top.res] = "Started" \/ Top.at = "wake" => state'[Top.res] = "Started"
         /\ state'[Top.res] = "Started" => state[Top.res] = "Started" \/ Top.at = "wake"
         /\ state'[Top.res] = "Started" => (Top.res \in rushed' <=> Top.res \in rushed)
         /\ \A w \in waiting' : w[1] = Top.res /\ state'[Top.res] = "Started" =>
              Top.res \in rushed'
    BY <2>1, <2>3, <2>5, <2>7
  <2>11. Outcome("refused", Top.res) BY <2>1, <2>3, <2>6, <2>8, <2>9, <2>10 DEF Outcome
  <2> QED BY <2>1, <2>2, <2>11, ServesReturns
<1>7. ASSUME NEW a \in Resource, Wake(a) PROVE ServesInv'
  <2>1. /\ stack # <<>> /\ Top.op = "start" /\ Top.at = "wake"
        /\ UNCHANGED <<state, dependants, waiting, rushed, trusted>>
    BY <1>7 DEF Wake, At
  <2>2. GoesOn("wake") BY <1>7, <2>1, LeftTyped, CallGoesOn DEF Wake, Woken
  <2>3. ASSUME NEW d \in Needs[Top.res], Top.res \notin rushed \union Foreign
        PROVE  Met(d, Top.res) /\ <<d, Top.res>> \in dependants
    BY <2>1, <2>3, TopChecks DEF Checks
  <2> QED BY <2>1, <2>2, <2>3, ServesGoesOn
<1>8. CASE Started
  <2>1. /\ stack # <<>> /\ Top.op = "start" /\ Top.at = "wake" /\ Top.res \in Resource
        /\ UNCHANGED <<dependants, rushed>>
    BY <1>8, LeftTyped DEF Started, At
  <2>2. Returns("deps") BY <1>8, <2>1, AnswerReturns DEF Started
  <2>3. /\ state'[Top.res] = "Started"
        /\ \A x \in Resource \ {Top.res} : state'[x] = state[x]
    BY <1>8, <2>1 DEF Started
  <2>4. \A w \in waiting' : w \in waiting /\ w[1] # Top.res BY <1>8 DEF Started, Answered
  <2>5. \A p \in trusted : \/ p \in trusted'
                           \/ p[1] = Top.res /\ state'[Top.res] = "Started"
                           \/ p[2] = Top.res /\ state'[Top.res] = "Stopped"
    BY <1>8, <2>3 DEF Started
  <2>6. \A i \in Calls : i # Len(stack) /\ stack[i].at \in Setup \union Late
                         /\ stack[i].res = Top.res /\ Top.res \notin Foreign =>
          state'[Top.res] # "Stopped" /\ (Top.res \in rushed => Top.res \in rushed')
    BY <2>1, <2>3
  <2>7. \A w \in waiting' : /\ w \in waiting \/ w[1] = Top.res
                            /\ w[1] = Top.res /\ state'[Top.res] = "Started" =>
                                 Top.res \in rushed'
    BY <2>4
  <2>8. Outcome("deps", Top.res) BY <2>1, <2>3, <2>5, <2>6, <2>7 DEF Outcome
  <2> QED BY <2>1, <2>2, <2>8, ServesReturns
<1>9. CASE StopEnter
  <2>1. /\ stack # <<>> /\ Top.op = "stop" /\ Top.res \in Resource
        /\ UNCHANGED <<state, dependants, waiting, rushed, trusted>>
    BY <1>9, LeftTyped DEF StopEnter, At, ends
  <2>2. CASE state[Top.res] = "Stopped" /\ Return BY <2>1, <2>2, ServesStopped
  <2>3. CASE Goto("stopping", Dependants(Top.res))
    <3>1. GoesOn("stopping") /\ stack'[Len(stack)].left = Dependants(Top.res)
      BY <2>1, <2>3, LeftTyped, GotoGoesOn
    <3> QED BY <2>1, <3>1, ServesStopping DEF Dependants
  <2> QED BY <1>9, <2>2, <2>3 DEF StopEnter
<1>10. ASSUME NEW a \in Resource, StopDependant(a) PROVE ServesInv'
  <2>1. /\ stack # <<>> /\ Top.op = "stop" /\ Top.at = "stopping"
        /\ UNCHANGED <<state, dependants, waiting, rushed, trusted>>
    BY <1>10 DEF StopDependant, At, ends
  <2>2. /\ GoesOn("stopping") /\ Len(stack') = Len(stack) + 1
        /\ stack'[Len(stack)].left = Top.left \ {a}
        /\ stack'[Len(stack) + 1].res = a
    BY <1>10, <2>1, LeftTyped, CallGoesOn DEF StopDependant
  <2>3. /\ Len(stack) \in Calls /\ Top = stack[Len(stack)] /\ Len(stack) \in Nat
        /\ Len(stack) + 1 \notin Calls
    BY <2>1, TopCall DEF Calls
  <2>4. \A b \in Resource : <<Top.res, b>> \in dependants /\ state[b] # "Stopped" => b \in Top.left
    BY <2>1, <2>3 DEF LifecycleInv, StopInv
  <2> QED BY <2>1, <2>2, <2>4, ServesStopping
<1>11. CASE Stopped
  <2>1. /\ stack # <<>> /\ Top.op = "stop" /\ Top.at = "stopping" /\ Top.res \in Resource
        /\ Top.left = {} /\ Return /\ waiting' = waiting
        /\ state' = [state EXCEPT ![Top.res] = "Stopped"]
        /\ dependants' = {p \in dependants : p[1] # Top.res}
        /\ rushed' = rushed \ {Top.res}
        /\ trusted' = {p \in trusted : p[2] # Top.res}
    BY <1>11, LeftTyped DEF Stopped, Served, At
  <2> QED BY <2>1, ServesStopped
<1>12. CASE \E r \in Resource : \/ Command("start", r) \/ Command("stop", r)
                                \/ BuildCompleted(r)
  <2>1. PICK op \in Ops, r \in Resource : stack' = <<Frame(op, r, "enter", {})>>
    BY <1>12 DEF Command, BuildCompleted
  <2>2. stack = <<>> /\ UNCHANGED <<state, dependants, waiting, rushed, trusted>>
    BY <1>12 DEF Command, BuildCompleted, BuildEnds, Idle, ends
  <2>3. Calls' = {1} /\ stack'[1].at = "enter" BY <2>1, CommandShape DEF Calls
  <2>4. ChecksInv' /\ StopInv' BY <2>3 DEF ChecksInv, StopInv, Checks
  <2>5. WaitersInv' /\ StopReachesDependants'
    BY <2>2 DEF LifecycleInv, WaitersInv, StopReachesDependants
  <2>6. \A d : ~Past(d) BY <2>2 DEF Past
  <2>7. DependenciesRun' BY <2>2, <2>6 DEF LifecycleInv, DependenciesRun
  <2> QED BY <2>4, <2>5, <2>7 DEF ServesInv
<1>13. CASE (\E r \in Resource : BuildFailed(r)) \/ UNCHANGED vars
  <2>1. UNCHANGED <<state, stack, rushed, dependants, waiting, trusted>>
    BY <1>13 DEF BuildFailed, BuildEnds, vars, ends
  <2>2. Calls' = Calls /\ \A d : Past(d)' <=> Past(d) BY <2>1 DEF Calls, Past
  <2>3. WaitersInv' /\ StopReachesDependants'
    BY <2>1 DEF LifecycleInv, WaitersInv, StopReachesDependants
  <2>4. ChecksInv' BY <2>1, <2>2 DEF LifecycleInv, ChecksInv, Open, Awaited, Met
  <2>5. StopInv' BY <2>1, <2>2 DEF LifecycleInv, StopInv
  <2>6. DependenciesRun' BY <2>1, <2>2 DEF LifecycleInv, DependenciesRun
  <2> QED BY <2>3, <2>4, <2>5, <2>6 DEF ServesInv
<1> QED
  BY <1>1, <1>2, <1>3, <1>4, <1>5, <1>6, <1>7, <1>8, <1>9, <1>10, <1>11, <1>12, <1>13
  DEF Next, Continue

LEMMA LifecycleInit == Init => LifecycleInv
<1> SUFFICES ASSUME Init PROVE LifecycleInv OBVIOUS
<1>1. Calls = {} BY DEF Init, Calls
<1>2. ChecksInv /\ StopInv BY <1>1 DEF ChecksInv, StopInv
<1>3. WaitersInv /\ DependenciesRun /\ StopReachesDependants
  BY DEF Init, WaitersInv, DependenciesRun, StopReachesDependants
<1> QED BY <1>2, <1>3, CallsInit DEF LifecycleInv

LEMMA LifecycleAlways == Spec => []LifecycleInv
BY LifecycleInit, LifecycleNext, PTL DEF Spec

\* A resource runs only while everything it needs runs or is past OnStart,
\* unless its own start went on in its middle, or it took for one that runs what
\* was being set up then and was refused later.
THEOREM RunsWithDependencies == Spec => []DependenciesRun
<1>1. LifecycleInv => DependenciesRun BY DEF LifecycleInv
<1> QED BY <1>1, LifecycleAlways, PTL

\* Everything a resource needs has it among its dependants while it runs.
THEOREM StopFindsDependants == Spec => []StopReachesDependants
<1>1. LifecycleInv => StopReachesDependants BY DEF LifecycleInv
<1> QED BY <1>1, LifecycleAlways, PTL

\* Nothing is left waiting for a resource that runs.
THEOREM NoneWaitsInVain == Spec => []WaitersWoken
<1>1. LifecycleInv => WaitersWoken BY DEF LifecycleInv, WaitersInv, WaitersWoken
<1> QED BY <1>1, LifecycleAlways, PTL

\* When no call is under way nothing is half started, and nothing waits for a
\* resource that runs.
THEOREM NothingIsLeft == Spec => []NothingLeftOver
BY StartsFinish, NoneWaitsInVain, PTL DEF NothingLeftOver

---------------------------------------------------------------------------
(* Starts that were put off.                                               *)

\* Whoever waits for a resource that is past OnStart is started, or still on the
\* list that the call has copied.
KeptInv ==
  \A i \in Calls : stack[i].at = "wake" =>
    \A a \in Resource : <<stack[i].res, a>> \in waiting =>
      a \in stack[i].left \/ <<stack[i].res, a>> \in restarted

Forgotten == waiting \ waiting'

\* No call comes past OnStart or changes what it has left.
LEMMA KeptAside ==
  ASSUME KeptInv, waiting' = waiting, restarted' = restarted,
         \A i \in Calls' : stack'[i].at = "wake" => i \in Calls /\ stack'[i] = stack[i]
  PROVE  KeptInv' /\ Forgotten \subseteq restarted
<1>1. KeptInv' BY DEF KeptInv
<1> QED BY <1>1 DEF Forgotten

LEMMA KeptGoesOn ==
  ASSUME CallsInv, KeptInv, stack # <<>>, waiting' = waiting, restarted' = restarted,
         NEW stage, stage # "wake", GoesOn(stage)
  PROVE  KeptInv' /\ Forgotten \subseteq restarted
<1>1. Len(stack) \in Nat /\ Len(stack) >= 1 BY TopCall DEF CallsInv
<1>2. ASSUME NEW i \in Calls', stack'[i].at = "wake" PROVE i \in Calls /\ stack'[i] = stack[i]
  BY <1>1, <1>2 DEF Calls, GoesOn
<1> QED BY <1>2, KeptAside

\* The calls that wake resources after the call on top has returned did so before.
LEMMA ReturnsWaking ==
  ASSUME TypeOK, stack # <<>>, Returns("deps"), NEW i \in Calls', stack'[i].at = "wake"
  PROVE  /\ i \in Calls /\ stack[i].at = "wake"
         /\ stack'[i].res = stack[i].res /\ stack'[i].left = stack[i].left
<1>1. Len(stack) \in Nat BY TopCall
<1>2. i \in 1 .. Len(stack) - 1 BY <1>1 DEF Calls, Returns
<1>3. /\ stack'[i].res = stack[i].res /\ stack'[i].left = stack[i].left
      /\ stack'[i].at = IF i = Len(stack) - 1 /\ stack[i].at = "await"
                        THEN "deps" ELSE stack[i].at
  BY <1>2 DEF Returns
<1>4. stack[i].at = "wake" BY <1>3
<1>5. i \in Calls BY <1>1, <1>2 DEF Calls
<1> QED BY <1>3, <1>4, <1>5

LEMMA KeptNext ==
  ASSUME CallsInv, KeptInv, [Next]_vars
  PROVE  KeptInv' /\ Forgotten \subseteq restarted
<1>t. TypeOK BY DEF CallsInv
<1>w. waiting \subseteq Resource \X Resource BY <1>t DEF TypeOK
<1> DEFINE Goal == KeptInv' /\ Forgotten \subseteq restarted
<1> SUFFICES Goal OBVIOUS
<1> HIDE DEF Goal
<1> USE <1>t, StagesAre
<1>1. CASE StartEnter
  <2>1. stack # <<>> /\ waiting' = waiting /\ restarted' = restarted
    BY <1>1 DEF StartEnter, At
  <2>2. CASE Answer("deps")
    <3>1. Returns("deps") BY <2>1, <2>2, AnswerReturns
    <3>2. ASSUME NEW i \in Calls', stack'[i].at = "wake"
          PROVE  /\ i \in Calls /\ stack[i].at = "wake"
                 /\ stack'[i].res = stack[i].res /\ stack'[i].left = stack[i].left
      BY <2>1, <3>1, <3>2, ReturnsWaking
    <3>3. KeptInv' BY <2>1, <3>2 DEF KeptInv
    <3> QED BY <2>1, <3>3 DEF Goal, Forgotten
  <2>3. CASE Goto("run", {}) \/ Goto("starting", {})
    <3>1. PICK stage \in {"run", "starting"} : GoesOn(stage)
      BY <2>1, <2>3, LeftTyped, GotoGoesOn
    <3> QED BY <2>1, <3>1, KeptGoesOn DEF Goal
  <2> QED BY <1>1, <2>2, <2>3 DEF StartEnter
<1>2. CASE \/ Starting \/ StartCanceled \/ DependencyMissing \/ Dependencies
           \/ NoBuild \/ BuildWanted \/ BuildAtOnce
  <2>1. stack # <<>> /\ Top.op = "start" /\ waiting' = waiting /\ restarted' = restarted
    BY <1>2 DEF Starting, StartCanceled, DependencyMissing, Dependencies, NoBuild,
                BuildWanted, BuildAtOnce, At, ends
  <2>2. PICK stage \in Stages \ {"wake"} : GoesOn(stage)
    <3>1. CASE BuildAtOnce BY <2>1, <3>1, LeftTyped, CallGoesOn DEF BuildAtOnce
    <3>2. CASE ~BuildAtOnce
      <4>1. PICK stage \in Stages \ {"wake"}, left \in SUBSET Names : Goto(stage, left)
        BY <1>2, <2>1, <3>2, LeftTyped
        DEF Starting, StartCanceled, DependencyMissing, Dependencies, NoBuild, BuildWanted
      <4> QED BY <2>1, <4>1, GotoGoesOn
    <3> QED BY <3>1, <3>2
  <2> QED BY <2>1, <2>2, KeptGoesOn DEF Goal
<1>3. ASSUME NEW d \in Resource, Dependency(d) PROVE Goal
  <2>1. stack # <<>> /\ Top.op = "start" /\ waiting' = waiting /\ restarted' = restarted
    BY <1>3 DEF Dependency, At
  <2>2. PICK stage \in {"deps", "await"} : GoesOn(stage)
    <3>1. CASE Goto("deps", Top.left \ {d})
      <4>1. GoesOn("deps") BY <2>1, <3>1, LeftTyped, GotoGoesOn
      <4> QED BY <4>1
    <3>2. CASE Call("start", d, "await", Top.left \ {d})
      <4>1. GoesOn("await") BY <2>1, <3>2, LeftTyped, CallGoesOn
      <4> QED BY <4>1
    <3> QED BY <1>3, <3>1, <3>2 DEF Dependency
  <2> QED BY <2>1, <2>2, KeptGoesOn DEF Goal
<1>4. CASE Refused
  <2>1. /\ stack # <<>>
        /\ Top.at = "refused" \/ Top.res \in Foreign
        /\ waiting' = waiting \union Refusing /\ restarted' = restarted \ Refusing
    BY <1>4 DEF Refused, Denied, At
  <2>2. Returns("refused") BY <1>4, <2>1, AnswerReturns DEF Refused
  <2>3. \A e \in Refusing : e[1] = Top.res BY DEF Refusing
  <2>4. ASSUME NEW i \in Calls', stack'[i].at = "wake"
        PROVE  /\ i \in Calls /\ stack[i].at = "wake" /\ i < Len(stack) /\ i \in Nat
               /\ stack'[i].res = stack[i].res /\ stack'[i].left = stack[i].left
    BY <2>1, <2>2, <2>4, TopCall DEF Calls, Returns
  <2>5. ASSUME NEW i \in Calls', stack'[i].at = "wake" PROVE stack[i].res # Top.res
    <3>1. CASE Top.res \in Foreign BY <2>4, <2>5, <3>1 DEF CallsInv, FitInv
    <3>2. CASE Top.res \notin Foreign
      BY <2>1, <2>4, <2>5, <3>2, OnlyTopStarts DEF Setup, Late
    <3> QED BY <3>1, <3>2
  <2>6. KeptInv'
    <3> SUFFICES ASSUME NEW i \in Calls', stack'[i].at = "wake", NEW a \in Resource,
                        <<stack'[i].res, a>> \in waiting'
                 PROVE  a \in stack'[i].left \/ <<stack'[i].res, a>> \in restarted'
      BY DEF KeptInv
    <3>1. <<stack[i].res, a>> \notin Refusing BY <2>3, <2>5
    <3> QED BY <2>1, <2>4, <3>1 DEF KeptInv
  <2> QED BY <2>1, <2>6 DEF Goal, Forgotten
<1>5. CASE Run
  <2>1. /\ stack # <<>> /\ waiting' = waiting /\ restarted' = restarted
        /\ Goto("wake", Waiters(Top.res))
    BY <1>5 DEF Run, At, ends
  <2>2. GoesOn("wake") /\ Len(stack') = Len(stack) /\ stack'[Len(stack)].left = Waiters(Top.res)
    BY <2>1, LeftTyped, GotoGoesOn
  <2>3. KeptInv'
    <3> SUFFICES ASSUME NEW i \in Calls', stack'[i].at = "wake", NEW a \in Resource,
                        <<stack'[i].res, a>> \in waiting
                 PROVE  a \in stack'[i].left \/ <<stack'[i].res, a>> \in restarted
      BY <2>1 DEF KeptInv
    <3>1. CASE i = Len(stack) BY <2>2, <3>1 DEF GoesOn, Waiters
    <3>2. CASE i # Len(stack)
      <4>1. i \in Calls /\ stack'[i] = stack[i] BY <2>1, <2>2, <3>2, TopCall DEF GoesOn, Calls
      <4> QED BY <4>1 DEF KeptInv
    <3> QED BY <3>1, <3>2
  <2> QED BY <2>1, <2>3 DEF Goal, Forgotten
<1>6. ASSUME NEW b \in Resource, Wake(b) PROVE Goal
  <2>1. /\ stack # <<>> /\ Top.op = "start" /\ Top.at = "wake" /\ waiting' = waiting
        /\ restarted' = restarted \union {<<Top.res, b>>}
        /\ Call("start", b, "wake", Top.left \ {b})
    BY <1>6 DEF Wake, Woken, At
  <2>2. GoesOn("wake") /\ Len(stack') = Len(stack) + 1 /\ stack'[Len(stack)].left = Top.left \ {b}
    BY <2>1, LeftTyped, CallGoesOn
  <2>3. KeptInv'
    <3> SUFFICES ASSUME NEW i \in Calls', stack'[i].at = "wake", NEW a \in Resource,
                        <<stack'[i].res, a>> \in waiting
                 PROVE  a \in stack'[i].left \/ <<stack'[i].res, a>> \in restarted'
      BY <2>1 DEF KeptInv
    <3>0. Len(stack) \in Calls /\ Top = stack[Len(stack)] /\ Len(stack) \in Nat
      BY <2>1, TopCall
    <3>1. CASE i = Len(stack)
      <4>1. a \in Top.left \/ <<Top.res, a>> \in restarted
        BY <2>1, <2>2, <3>0, <3>1 DEF GoesOn, KeptInv
      <4>2. stack'[i].res = Top.res /\ stack'[i].left = Top.left \ {b}
        BY <2>2, <3>1 DEF GoesOn
      <4> QED BY <2>1, <4>1, <4>2
    <3>2. CASE i = Len(stack) + 1 BY <2>2, <3>2 DEF GoesOn
    <3>3. CASE i # Len(stack) /\ i # Len(stack) + 1
      <4>1. i \in Calls /\ stack'[i] = stack[i] BY <2>2, <3>0, <3>3 DEF GoesOn, Calls
      <4> QED BY <2>1, <4>1 DEF KeptInv
    <3> QED BY <3>1, <3>2, <3>3
  <2> QED BY <2>1, <2>3 DEF Goal, Forgotten
<1>7. CASE Started
  <2>1. /\ stack # <<>> /\ Top.at = "wake" /\ Top.left = {}
        /\ waiting' = {w \in waiting : w[1] # Top.res}
        /\ restarted' = {w \in restarted : w[1] # Top.res}
    BY <1>7 DEF Started, Answered, At
  <2>2. Returns("deps") BY <1>7, <2>1, AnswerReturns DEF Started
  <2>3. ASSUME NEW i \in Calls', stack'[i].at = "wake"
        PROVE  /\ i \in Calls /\ stack[i].at = "wake"
               /\ stack'[i].res = stack[i].res /\ stack'[i].left = stack[i].left
    BY <2>1, <2>2, <2>3, ReturnsWaking
  <2>4. KeptInv' BY <2>1, <2>3 DEF KeptInv
  <2>5. Forgotten \subseteq restarted
    <3> SUFFICES ASSUME NEW w \in waiting, w[1] = Top.res PROVE w \in restarted
      BY <2>1 DEF Forgotten
    <3>1. Len(stack) \in Calls /\ Top = stack[Len(stack)] BY <2>1, TopCall
    <3>2. w = <<Top.res, w[2]>> /\ w[2] \in Resource BY <1>w
    <3> QED BY <2>1, <3>1, <3>2 DEF KeptInv
  <2> QED BY <2>4, <2>5 DEF Goal
<1>8. CASE StopEnter \/ Stopped \/ \E a \in Resource : StopDependant(a)
  <2>1. /\ stack # <<>> /\ Top.op = "stop" /\ waiting' = waiting /\ restarted' = restarted
    BY <1>8 DEF StopEnter, Stopped, StopDependant, At, ends
  <2>2. CASE Return
    <3>1. ASSUME NEW i \in Calls' PROVE i \in Calls /\ stack'[i] = stack[i]
      BY <2>1, <2>2, TopCall, ReturnShape DEF Calls
    <3> QED BY <2>1, <3>1, KeptAside DEF Goal
  <2>3. CASE Goto("stopping", Dependants(Top.res))
    <3>1. GoesOn("stopping") BY <2>1, <2>3, LeftTyped, GotoGoesOn
    <3> QED BY <2>1, <3>1, KeptGoesOn DEF Goal
  <2>4. ASSUME NEW a \in Resource, Call("stop", a, "stopping", Top.left \ {a}) PROVE Goal
    <3>1. GoesOn("stopping") BY <2>1, <2>4, LeftTyped, CallGoesOn
    <3> QED BY <2>1, <3>1, KeptGoesOn DEF Goal
  <2> QED BY <1>8, <2>2, <2>3, <2>4 DEF StopEnter, Stopped, StopDependant
<1>9. CASE \E r \in Resource : \/ Command("start", r) \/ Command("stop", r)
                               \/ BuildCompleted(r)
  <2>1. PICK op \in Ops, r \in Resource : stack' = <<Frame(op, r, "enter", {})>>
    BY <1>9 DEF Command, BuildCompleted
  <2>2. waiting' = waiting /\ restarted' = restarted
    BY <1>9 DEF Command, BuildCompleted, BuildEnds, ends
  <2>3. Calls' = {1} /\ stack'[1].at = "enter" BY <2>1, CommandShape DEF Calls
  <2> QED BY <2>2, <2>3, KeptAside DEF Goal
<1>10. CASE (\E r \in Resource : BuildFailed(r)) \/ UNCHANGED vars
  <2>1. stack' = stack /\ waiting' = waiting /\ restarted' = restarted
    BY <1>10 DEF BuildFailed, BuildEnds, ends, vars
  <2>2. Calls' = Calls BY <2>1 DEF Calls
  <2> QED BY <2>1, <2>2, KeptAside DEF Goal
<1> QED
  BY <1>1, <1>2, <1>3, <1>4, <1>5, <1>6, <1>7, <1>8, <1>9, <1>10 DEF Next, Continue

\* The loader takes a start that was put off off its list only after it has made
\* it again: the list that OnStart copies has everyone on it, and nobody is put
\* off for a resource that is past OnStart.
THEOREM NoneForgotten == Spec => PutOffKept
<1>1. Init => KeptInv
  <2> SUFFICES ASSUME Init PROVE KeptInv OBVIOUS
  <2>1. Calls = {} BY DEF Init, Calls
  <2> QED BY <2>1 DEF KeptInv
<1>2. CallsInv /\ KeptInv /\ [Next]_vars => CallsInv' /\ KeptInv'
  BY CallsNext, KeptNext
<1>3. CallsInv /\ KeptInv /\ [Next]_vars => [\A w \in waiting \ waiting' : w \in restarted]_vars
  BY KeptNext DEF Forgotten
<1> QED BY CallsInit, <1>1, <1>2, <1>3, PTL DEF Spec, PutOffKept

---------------------------------------------------------------------------
(* How deep calls nest.                                                    *)

\* What one stage serves for r: the dependencies of r, or what needs r.
Serves(stage, r, x) ==
  /\ stage \in {"deps", "await"} => x \in Needs[r]
  /\ stage \in {"wake", "stopping"} => r \in Needs[x]

\* The lists of the loader, the resources that a call has left to serve, and
\* the nesting of calls all follow the manifests.
ListsInv == \A e \in dependants \union waiting : e[1] \in Needs[e[2]]

LeftInv ==
  \A i \in Calls : \A x \in stack[i].left : Serves(stack[i].at, stack[i].res, x)

NestInv ==
  \A i \in Calls : i + 1 \in Calls => Serves(stack[i].at, stack[i].res, stack[i + 1].res)

NestingInv == TypeOK /\ ListsInv /\ LeftInv /\ NestInv

LEMMA NestGoto ==
  ASSUME NestingInv, stack # <<>>, NEW stage \in Stages, NEW left \in SUBSET Names,
         Goto(stage, left), \A x \in left : Serves(stage, Top.res, x)
  PROVE  LeftInv' /\ NestInv'
<1> DEFINE n == Len(stack)
<1>1. n \in Nat /\ n >= 1 /\ Top = stack[n] /\ n \in Calls BY TopCall DEF NestingInv
<1>2. /\ Len(stack') = n
      /\ \A i \in 1 .. n - 1 : stack'[i] = stack[i]
      /\ stack'[n].res = Top.res /\ stack'[n].at = stage /\ stack'[n].left = left
  BY GotoShape DEF NestingInv
<1>3. Calls' = Calls BY <1>2 DEF Calls
<1>4. ASSUME NEW i \in Calls', NEW x \in stack'[i].left
      PROVE  Serves(stack'[i].at, stack'[i].res, x)
  <2>1. CASE i = n BY <1>2, <1>4, <2>1
  <2>2. CASE i # n
    <3>1. i \in Calls /\ stack'[i] = stack[i] BY <1>1, <1>2, <1>3, <2>2 DEF Calls
    <3> QED BY <1>4, <3>1 DEF NestingInv, LeftInv
  <2> QED BY <2>1, <2>2
<1>5. ASSUME NEW i \in Calls', i + 1 \in Calls'
      PROVE  Serves(stack'[i].at, stack'[i].res, stack'[i + 1].res)
  <2>1. i \in Calls /\ i + 1 \in Calls /\ i # n /\ stack'[i] = stack[i]
    BY <1>1, <1>2, <1>3, <1>5 DEF Calls
  <2>2. stack'[i + 1].res = stack[i + 1].res BY <1>1, <1>2, <2>1 DEF Calls
  <2> QED BY <2>1, <2>2 DEF NestingInv, NestInv
<1>6. LeftInv' BY <1>4 DEF LeftInv, Serves
<1>7. NestInv' BY <1>5 DEF NestInv, Serves
<1> QED BY <1>6, <1>7

LEMMA NestCall ==
  ASSUME NestingInv, stack # <<>>, NEW stage \in Stages, NEW left \in SUBSET Names,
         NEW op \in Ops, NEW r \in Resource, Call(op, r, stage, left),
         \A x \in left : Serves(stage, Top.res, x), Serves(stage, Top.res, r)
  PROVE  LeftInv' /\ NestInv'
<1> DEFINE n == Len(stack)
<1>1. n \in Nat /\ n >= 1 /\ Top = stack[n] /\ n \in Calls BY TopCall DEF NestingInv
<1>2. /\ Len(stack') = n + 1
      /\ \A i \in 1 .. n - 1 : stack'[i] = stack[i]
      /\ stack'[n].res = Top.res /\ stack'[n].at = stage /\ stack'[n].left = left
      /\ stack'[n + 1].res = r /\ stack'[n + 1].at = "enter"
  BY CallShape DEF NestingInv
<1>4. ASSUME NEW i \in Calls', NEW x \in stack'[i].left
      PROVE  Serves(stack'[i].at, stack'[i].res, x)
  <2>1. CASE i = n BY <1>2, <1>4, <2>1
  <2>2. CASE i = n + 1 BY <1>2, <2>2 DEF Serves
  <2>3. CASE i # n /\ i # n + 1
    <3>1. i \in Calls /\ stack'[i] = stack[i] BY <1>1, <1>2, <2>3 DEF Calls
    <3> QED BY <1>4, <3>1 DEF NestingInv, LeftInv
  <2> QED BY <2>1, <2>2, <2>3
<1>5. ASSUME NEW i \in Calls', i + 1 \in Calls'
      PROVE  Serves(stack'[i].at, stack'[i].res, stack'[i + 1].res)
  <2>1. CASE i = n BY <1>2, <2>1
  <2>2. CASE i # n
    <3>1. i \in Calls /\ i + 1 \in Calls /\ stack'[i] = stack[i]
      BY <1>1, <1>2, <1>5, <2>2 DEF Calls
    <3>2. stack'[i + 1].res = stack[i + 1].res BY <1>1, <1>2, <3>1 DEF Calls
    <3> QED BY <3>1, <3>2 DEF NestingInv, NestInv
  <2> QED BY <2>1, <2>2
<1>6. LeftInv' BY <1>4 DEF LeftInv, Serves
<1>7. NestInv' BY <1>5 DEF NestInv, Serves
<1> QED BY <1>6, <1>7

\* A call returns, and its caller may go from awaiting a dependency to the next
\* one, or be refused.
LEMMA NestReturn ==
  ASSUME NestingInv, stack # <<>>, Return \/ Answer("deps") \/ Answer("refused")
  PROVE  LeftInv' /\ NestInv'
<1> DEFINE n == Len(stack)
<1>1. n \in Nat /\ n >= 1 BY TopCall DEF NestingInv
<1>2. PICK stage \in {"deps", "refused"} :
        /\ Len(stack') = n - 1
        /\ \A i \in 1 .. n - 1 :
             /\ stack'[i].res = stack[i].res
             /\ stack'[i].left = stack[i].left
             /\ \/ stack'[i].at = stack[i].at
                \/ i = n - 1 /\ stack[i].at = "await" /\ stack'[i].at = stage
  <2>1. CASE Return BY <2>1, ReturnShape DEF NestingInv
  <2>2. CASE Answer("deps") BY <2>2, StagesAre, AnswerShape DEF NestingInv
  <2>3. CASE Answer("refused") BY <2>3, StagesAre, AnswerShape DEF NestingInv
  <2> QED BY <2>1, <2>2, <2>3
<1>3. \A i \in Calls' : i \in Calls /\ i \in 1 .. n - 1 BY <1>1, <1>2 DEF Calls
<1>4. ASSUME NEW i \in Calls', NEW x \in stack'[i].left
      PROVE  Serves(stack'[i].at, stack'[i].res, x)
  <2>1. Serves(stack[i].at, stack[i].res, x) BY <1>2, <1>3 DEF NestingInv, LeftInv
  <2> QED BY <1>2, <1>3, <2>1 DEF Serves
<1>5. ASSUME NEW i \in Calls', i + 1 \in Calls'
      PROVE  Serves(stack'[i].at, stack'[i].res, stack'[i + 1].res)
  <2>1. Serves(stack[i].at, stack[i].res, stack[i + 1].res)
    BY <1>3, <1>5 DEF NestingInv, NestInv
  <2>2. i # n - 1 BY <1>1, <1>2, <1>5 DEF Calls
  <2> QED BY <1>2, <1>3, <1>5, <2>1, <2>2
<1>6. LeftInv' BY <1>4 DEF LeftInv, Serves
<1>7. NestInv' BY <1>5 DEF NestInv, Serves
<1> QED BY <1>6, <1>7

LEMMA NestingNext ==
  ASSUME NestingInv, [Next]_vars
  PROVE  NestingInv'
<1>t. TypeOK /\ TypeOK' BY TypesNext DEF NestingInv
<1> DEFINE Goal == ListsInv' /\ LeftInv' /\ NestInv'
<1> SUFFICES Goal BY <1>t DEF NestingInv
<1> HIDE DEF Goal
<1> USE <1>t, StagesAre
<1>k. stack # <<>> => \A x \in Top.left : Serves(Top.at, Top.res, x)
  BY TopCall DEF NestingInv, LeftInv
<1>1. CASE StartEnter
  <2>1. stack # <<>> BY <1>1 DEF StartEnter, At
  <2>2. Answer("deps") \/ Goto("run", {}) \/ Goto("starting", {}) BY <1>1 DEF StartEnter
  <2>3. LeftInv' /\ NestInv' BY <2>1, <2>2, LeftTyped, NestReturn, NestGoto
  <2> QED BY <1>1, <2>3 DEF Goal, StartEnter, NestingInv, ListsInv
<1>2. CASE \/ Starting \/ StartCanceled \/ DependencyMissing \/ Dependencies
           \/ NoBuild \/ BuildWanted \/ Run
  <2>1. stack # <<>> /\ dependants' = dependants /\ waiting' = waiting
    BY <1>2 DEF Starting, StartCanceled, DependencyMissing, Dependencies, NoBuild,
                BuildWanted, Run, At, ends
  <2>2. CASE Starting
    <3>1. \A x \in Needs[Top.res] : Serves("deps", Top.res, x) BY DEF Serves
    <3> QED BY <2>1, <2>2, <3>1, LeftTyped, NestGoto DEF Starting, Goal, NestingInv, ListsInv
  <2>3. CASE Run
    <3>1. \A x \in Waiters(Top.res) : Serves("wake", Top.res, x)
      BY DEF Serves, Waiters, NestingInv, ListsInv
    <3> QED BY <2>1, <2>3, <3>1, LeftTyped, NestGoto DEF Run, Goal, NestingInv, ListsInv
  <2>4. CASE \/ StartCanceled \/ DependencyMissing \/ Dependencies \/ NoBuild \/ BuildWanted
    <3>1. PICK stage \in Stages : Goto(stage, {})
      BY <2>4 DEF StartCanceled, DependencyMissing, Dependencies, NoBuild, BuildWanted
    <3> QED BY <2>1, <3>1, LeftTyped, NestGoto DEF Goal, NestingInv, ListsInv
  <2> QED BY <1>2, <2>2, <2>3, <2>4
<1>3. ASSUME NEW d \in Resource, Dependency(d) PROVE Goal
  <2>1. stack # <<>> /\ Top.at = "deps" /\ d \in Top.left BY <1>3 DEF Dependency, At
  <2>2. d \in Needs[Top.res] /\ \A x \in Top.left : x \in Needs[Top.res]
    BY <1>k, <2>1 DEF Serves
  <2>3. ListsInv' BY <1>3, <2>2 DEF Dependency, Noted, NestingInv, ListsInv
  <2>4. /\ \A x \in Top.left \ {d} : Serves("deps", Top.res, x) /\ Serves("await", Top.res, x)
        /\ Serves("await", Top.res, d)
    BY <2>2 DEF Serves
  <2>5. Goto("deps", Top.left \ {d}) \/ Call("start", d, "await", Top.left \ {d})
    BY <1>3 DEF Dependency
  <2>6. LeftInv' /\ NestInv' BY <2>1, <2>4, <2>5, LeftTyped, NestGoto, NestCall
  <2> QED BY <2>3, <2>6 DEF Goal
<1>4. CASE BuildAtOnce
  <2>1. stack # <<>> BY <1>4 DEF BuildAtOnce, At
  <2>2. Serves("refused", Top.res, Top.res) BY DEF Serves
  <2>3. LeftInv' /\ NestInv' BY <1>4, <2>1, <2>2, LeftTyped, NestCall DEF BuildAtOnce
  <2> QED BY <1>4, <2>3 DEF Goal, BuildAtOnce, ends, NestingInv, ListsInv
<1>5. CASE Refused
  <2>1. stack # <<>> BY <1>5 DEF Refused, Denied, At
  <2>2. \A e \in Refusing : e[1] \in Needs[e[2]]
    <3>1. CASE Needed
      <4>1. /\ Len(stack) - 1 \in Calls /\ Len(stack) - 1 + 1 \in Calls
            /\ Top = stack[Len(stack) - 1 + 1]
        BY <2>1, <3>1, TopCall DEF Needed, Calls
      <4>2. Serves("await", stack[Len(stack) - 1].res, Top.res)
        BY <3>1, <4>1 DEF Needed, NestingInv, NestInv
      <4> QED BY <4>2 DEF Refusing, Serves
    <3> QED BY <3>1 DEF Refusing
  <2>3. LeftInv' /\ NestInv' BY <1>5, <2>1, NestReturn DEF Refused
  <2> QED BY <1>5, <2>2, <2>3 DEF Goal, Refused, NestingInv, ListsInv
<1>6. ASSUME NEW a \in Resource, Wake(a) PROVE Goal
  <2>1. stack # <<>> /\ Top.at = "wake" /\ a \in Top.left BY <1>6 DEF Wake, At
  <2>2. /\ \A x \in Top.left \ {a} : Serves("wake", Top.res, x)
        /\ Serves("wake", Top.res, a)
    BY <1>k, <2>1
  <2>3. LeftInv' /\ NestInv'
    BY <1>6, <2>1, <2>2, LeftTyped, NestCall DEF Wake, Woken
  <2> QED BY <1>6, <2>3 DEF Goal, Wake, NestingInv, ListsInv
<1>7. CASE Started
  <2>1. stack # <<>> BY <1>7 DEF Started, At
  <2>2. LeftInv' /\ NestInv' BY <1>7, <2>1, NestReturn DEF Started
  <2> QED BY <1>7, <2>2 DEF Goal, Started, Answered, NestingInv, ListsInv
<1>8. CASE StopEnter
  <2>1. stack # <<>> BY <1>8 DEF StopEnter, At
  <2>2. Return \/ Goto("stopping", Dependants(Top.res)) BY <1>8 DEF StopEnter
  <2>3. \A x \in Dependants(Top.res) : Serves("stopping", Top.res, x)
    BY DEF Serves, Dependants, NestingInv, ListsInv
  <2>4. LeftInv' /\ NestInv' BY <2>1, <2>2, <2>3, LeftTyped, NestReturn, NestGoto
  <2> QED BY <1>8, <2>4 DEF Goal, StopEnter, ends, NestingInv, ListsInv
<1>9. ASSUME NEW a \in Resource, StopDependant(a) PROVE Goal
  <2>1. stack # <<>> /\ Top.at = "stopping" /\ a \in Top.left BY <1>9 DEF StopDependant, At
  <2>2. /\ \A x \in Top.left \ {a} : Serves("stopping", Top.res, x)
        /\ Serves("stopping", Top.res, a)
    BY <1>k, <2>1
  <2>3. LeftInv' /\ NestInv'
    BY <1>9, <2>1, <2>2, LeftTyped, NestCall DEF StopDependant
  <2> QED BY <1>9, <2>3 DEF Goal, StopDependant, ends, NestingInv, ListsInv
<1>10. CASE Stopped
  <2>1. stack # <<>> BY <1>10 DEF Stopped, At
  <2>2. LeftInv' /\ NestInv' BY <1>10, <2>1, NestReturn DEF Stopped
  <2> QED BY <1>10, <2>2 DEF Goal, Stopped, NestingInv, ListsInv
<1>11. CASE \E r \in Resource : Command("start", r) \/ Command("stop", r) \/ BuildCompleted(r)
  <2>1. PICK op \in Ops, r \in Resource : stack' = <<Frame(op, r, "enter", {})>>
    BY <1>11 DEF Command, BuildCompleted
  <2>2. Calls' = {1} /\ stack'[1].at = "enter" BY <2>1, CommandShape DEF Calls
  <2>3. LeftInv' /\ NestInv' BY <2>2 DEF LeftInv, NestInv, Serves
  <2> QED BY <1>11, <2>3 DEF Goal, Command, BuildCompleted, BuildEnds, ends, NestingInv, ListsInv
<1>12. CASE (\E r \in Resource : BuildFailed(r)) \/ UNCHANGED vars
  <2>1. stack' = stack /\ dependants' = dependants /\ waiting' = waiting
    BY <1>12 DEF BuildFailed, BuildEnds, ends, vars
  <2> QED BY <2>1 DEF Goal, NestingInv, ListsInv, LeftInv, NestInv, Calls, Serves
<1> QED
  BY <1>1, <1>2, <1>3, <1>4, <1>5, <1>6, <1>7, <1>8, <1>9, <1>10, <1>11, <1>12
  DEF Next, Continue

LEMMA NestingInit == Init => NestingInv
<1> SUFFICES ASSUME Init PROVE NestingInv OBVIOUS
<1>1. Calls = {} BY DEF Init, Calls
<1> QED BY <1>1, TypesInit DEF Init, NestingInv, ListsInv, LeftInv, NestInv

\* Among calls that are nested by one relation there is one whose resource
\* needs none of the others: the first of them, or the last.
LEMMA NestingAcyclic ==
  ASSUME NestingInv
  PROVE  NoRecursion
<1> SUFFICES ASSUME NEW i \in Calls, NEW j \in Calls, i < j,
                    stack[i].at \in {"await", "wake", "stopping"},
                    \A k \in i .. j - 1 : stack[k].at = stack[i].at,
                    stack[i].res = stack[j].res
             PROVE  FALSE
  BY DEF NoRecursion, Calls
<1> DEFINE group == {stack[k].res : k \in i .. j}
<1>1. \A k \in i .. j : k \in Calls /\ k \in Nat /\ stack[k].res \in Resource
  <2>1. stack # <<>> /\ Len(stack) \in Nat BY StackTyped DEF NestingInv, Calls
  <2>2. \A k \in i .. j : k \in Calls BY <2>1 DEF Calls
  <2> QED BY <2>1, <2>2, TopCall DEF NestingInv
<1>2. group \subseteq Resource /\ group # {}
  <2>1. i \in i .. j BY <1>1 DEF Calls
  <2> QED BY <1>1, <2>1
<1>3. PICK r \in group : Needs[r] \cap group = {}
  BY <1>2, ConstantsAssumption
<1>4. PICK k \in i .. j : stack[k].res = r BY <1>3
<1>5. \A m \in i .. j - 1 : Serves(stack[i].at, stack[m].res, stack[m + 1].res)
  <2> SUFFICES ASSUME NEW m \in i .. j - 1
               PROVE  Serves(stack[i].at, stack[m].res, stack[m + 1].res)
    OBVIOUS
  <2>1. m \in Calls /\ m + 1 \in Calls BY <1>1 DEF Calls
  <2> QED BY <2>1 DEF NestingInv, NestInv
<1>6. CASE stack[i].at = "await"
  <2>1. \A m \in i .. j - 1 : stack[m + 1].res \in Needs[stack[m].res]
    BY <1>5, <1>6 DEF Serves
  <2>2. PICK m \in i .. j - 1 : stack[m].res = r
    <3>1. CASE k = j
      <4>1. i \in i .. j - 1 BY <1>1 DEF Calls
      <4> QED BY <1>4, <3>1, <4>1
    <3>2. CASE k # j
      <4>1. k \in i .. j - 1 BY <1>1, <3>2 DEF Calls
      <4> QED BY <1>4, <4>1
    <3> QED BY <3>1, <3>2
  <2>3. m + 1 \in i .. j BY <1>1 DEF Calls
  <2> QED BY <1>3, <2>1, <2>2, <2>3
<1>7. CASE stack[i].at \in {"wake", "stopping"}
  <2>1. \A m \in i .. j - 1 : stack[m].res \in Needs[stack[m + 1].res]
    BY <1>5, <1>7 DEF Serves
  <2>2. PICK m \in i .. j - 1 : stack[m + 1].res = r
    <3>1. CASE k = i
      <4>1. j - 1 \in i .. j - 1 /\ j - 1 + 1 = j BY <1>1 DEF Calls
      <4> QED BY <1>4, <3>1, <4>1
    <3>2. CASE k # i
      <4>1. k - 1 \in i .. j - 1 /\ k - 1 + 1 = k BY <1>1, <3>2 DEF Calls
      <4> QED BY <1>4, <4>1
    <3> QED BY <3>1, <3>2
  <2>3. m \in i .. j BY <1>1 DEF Calls
  <2> QED BY <1>3, <2>1, <2>2, <2>3
<1> QED BY <1>6, <1>7

\* Because the manifests have no circle, neither the starts of dependencies nor
\* those of waiters nor the stops of dependants come back to a resource on
\* their own way.
THEOREM NoCallComesBack == Spec => []NoRecursion
BY NestingInit, NestingNext, NestingAcyclic, PTL DEF Spec

===========================================================================
