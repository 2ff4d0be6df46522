----------------------- MODULE InitConnect_proofs -----------------------
(***************************************************************************)
(* Proofs about one initConnect request, for every set of resources and    *)
(* every number of identity providers.                                     *)
(***************************************************************************)
EXTENDS InitConnect, TLAPS

---------------------------------------------------------------------------
(* Admission.                                                              *)

\* Nothing is decided before the playerConnecting event is raised.
EarlyInv ==
  stage \in {"new", "refused", "looked", "made", "auth", "await", "bailed",
             "posted"} =>
    /\ ~passed /\ ~completed /\ ~cardHandler /\ ~canceled
    /\ \A r \in Resource : states[r] = "none"

\* Who has passed was agreed to, and no callback can change that any more.
SettledInv ==
  passed =>
    /\ \/ completed
       \/ stage = "allow" /\ ~cardHandler
       \/ stage = "left" /\ ~held /\ ~cardHandler
    /\ \A r \in Resource : states[r] \in {"none", "done"}

\* A card belongs to a deferral.
CardInv == cardHandler => \E r \in Resource : states[r] # "none"

\* A canceled event has removed the client when its callback returns.
CanceledInv ==
  /\ stage = "left" /\ registered => ~canceled
  /\ stage = "allow" => ~canceled

AdmissionInv ==
  /\ states \in [Resource -> {"none", "pending", "done", "rejected"}]
  /\ stage \in Stages
  /\ EarlyInv
  /\ SettledInv
  /\ CardInv
  /\ CanceledInv

LEMMA AdmissionInit == Init => AdmissionInv
  BY DEF Init, AdmissionInv, EarlyInv, SettledInv, CardInv, CanceledInv, Stages

\* What the callbacks of UpdateDeferrals do to an admission.
LEMMA UpdateEffect ==
  ASSUME NEW st, Update(st), SettledInv, ~completed
  PROVE  /\ passed' => passed \/ (completed' /\ \A r \in Resource : st[r] \notin {"pending", "rejected"})
         /\ registered' => registered
  BY DEF Update, Reject, Resolve, AllowClient, RemoveClient, AllDone, clientVars,
         admitVars, refVars

LEMMA UpdateDeferralsEffect ==
  ASSUME NEW st, UpdateDeferrals(st), SettledInv, ~completed
  PROVE  /\ passed' => passed \/ (completed' /\ \A r \in Resource : st[r] \notin {"pending", "rejected"})
         /\ registered' => registered
<1>1. CASE ranEvents
  BY <1>1, UpdateEffect DEF UpdateDeferrals
<1>2. CASE ~ranEvents
  BY <1>2 DEF UpdateDeferrals, clientVars, admitVars
<1> QED BY <1>1, <1>2

LEMMA AdmissionHandler ==
  ASSUME AdmissionInv, HandlerNext
  PROVE  AdmissionInv'
<1> USE DEF AdmissionInv, EarlyInv, SettledInv, CardInv, CanceledInv, Stages,
            deferralVars, admitVars, eventVars
<1>1. CASE RefuseRequest BY <1>1 DEF RefuseRequest
<1>2. CASE MakeClient BY <1>2 DEF MakeClient
<1>3. CASE GameNameMismatch BY <1>3 DEF GameNameMismatch
<1>4. CASE Touch BY <1>4 DEF Touch
<1>5. CASE AuthPass BY <1>5 DEF AuthPass
<1>6. CASE AuthFail BY <1>6 DEF AuthFail
<1>7. CASE AuthBail BY <1>7 DEF AuthBail
<1>8. CASE PostConnecting BY <1>8 DEF PostConnecting
<1>9. CASE DropOldClient BY <1>9 DEF DropOldClient
<1>10. CASE AwaitProvider BY <1>10 DEF AwaitProvider
<1> QED
  BY <1>1, <1>2, <1>3, <1>4, <1>5, <1>6, <1>7, <1>8, <1>9, <1>10 DEF HandlerNext

LEMMA AdmissionMain ==
  ASSUME AdmissionInv, MainNext
  PROVE  AdmissionInv'
<1> USE DEF AdmissionInv, EarlyInv, SettledInv, CardInv, CanceledInv, Stages
<1>1. CASE RaiseConnecting
  BY <1>1 DEF RaiseConnecting, deferralVars, admitVars, eventVars, refVars, clientVars
<1>2. CASE RaiseTooLate
  BY <1>2 DEF RaiseTooLate, RemoveClient, deferralVars, admitVars, eventVars
<1>3. CASE CancelEvent
  BY <1>3 DEF CancelEvent, deferralVars, admitVars, refVars, clientVars
<1>4. CASE RanEvents
  <2>1. /\ stage = "event" /\ stage' = "ran"
        /\ UNCHANGED <<states, cardHandler, canceled>>
    BY <1>4 DEF RanEvents
  <2>2. CASE ~pending
    BY <1>4, <2>1, <2>2 DEF RanEvents, admitVars, refVars, clientVars
  <2>3. CASE pending /\ ~completed
    <3>1. Update(states)
      BY <1>4, <2>3 DEF RanEvents
    <3>2. passed' => passed \/ (completed' /\ \A r \in Resource : states[r] \notin {"pending", "rejected"})
      BY <3>1, <2>1, <2>3, UpdateEffect
    <3>3. ~passed
      BY <2>1, <2>3
    <3> QED BY <2>1, <3>2, <3>3
  <2>4. CASE pending /\ completed
    <3>1. Update(states)
      BY <1>4, <2>4 DEF RanEvents
    <3>2. completed'
      BY <2>4, <3>1 DEF Update, Reject, Resolve
    <3>3. passed' => passed \/ \A r \in Resource : states[r] \notin {"pending", "rejected"}
      BY <3>1 DEF Update, Reject, Resolve, AllowClient, AllDone, admitVars
    <3> QED BY <2>1, <3>2, <3>3
  <2> QED BY <2>2, <2>3, <2>4
<1>5. CASE RespondError
  BY <1>5 DEF RespondError, RemoveClient, deferralVars, admitVars, eventVars
<1>6. CASE RespondLater
  BY <1>6 DEF RespondLater, deferralVars, admitVars, eventVars, refVars, clientVars
<1>7. CASE RespondNow
  <2>1. /\ stage = "ran" /\ stage' = "allow" /\ ~canceled /\ ~canceled'
        /\ UNCHANGED <<states, completed, cardHandler>>
        /\ \A r \in Resource : states[r] = "none"
    BY <1>7 DEF RespondNow, deferralVars, eventVars
  <2> QED BY <2>1
<1>8. CASE AllowSucceeds
  BY <1>8 DEF AllowSucceeds, deferralVars, refVars, clientVars, eventVars
<1>9. CASE Resolved
  BY <1>9 DEF Resolved, deferralVars, clientVars, eventVars
<1>10. CASE Responded
  BY <1>10 DEF Responded, deferralVars, clientVars
<1> QED
  BY <1>1, <1>2, <1>3, <1>4, <1>5, <1>6, <1>7, <1>8, <1>9, <1>10 DEF MainNext

LEMMA AdmissionScript ==
  ASSUME AdmissionInv, ScriptNext
  PROVE  AdmissionInv'
<1> USE DEF AdmissionInv, EarlyInv, SettledInv, CardInv, CanceledInv, Stages
<1>1. ASSUME CanCall
      PROVE  /\ stage \in {"event", "left"} /\ ~completed /\ ~passed
  BY <1>1 DEF CanCall, DeferralAlive
<1>2. ASSUME NEW r \in Resource, Defer(r) PROVE AdmissionInv'
  <2>1. /\ CanCall /\ UpdateDeferrals(states')
        /\ UNCHANGED <<stage, cardHandler, canceled>>
        /\ states' = [states EXCEPT ![r] = "pending"]
    BY <1>2 DEF Defer
  <2>2. passed' => completed' /\ \A q \in Resource : states'[q] \notin {"pending", "rejected"}
    BY <1>1, <2>1, UpdateDeferralsEffect
  <2>3. registered' => registered
    BY <1>1, <2>1, UpdateDeferralsEffect
  <2>4. states' \in [Resource -> {"none", "pending", "done", "rejected"}] /\ states'[r] # "none"
    BY <2>1
  <2> QED BY <1>1, <2>1, <2>2, <2>3, <2>4
<1>3. ASSUME NEW r \in Resource, UpdateMessage(r) PROVE AdmissionInv'
  <2>1. /\ CanCall /\ UpdateDeferrals(states')
        /\ UNCHANGED <<stage, cardHandler, canceled>>
        /\ states' = [states EXCEPT ![r] = IF @ = "none" THEN "pending" ELSE @]
    BY <1>3 DEF UpdateMessage, Touched
  <2>2. passed' => completed' /\ \A q \in Resource : states'[q] \notin {"pending", "rejected"}
    BY <1>1, <2>1, UpdateDeferralsEffect
  <2>3. registered' => registered
    BY <1>1, <2>1, UpdateDeferralsEffect
  <2>4. states' \in [Resource -> {"none", "pending", "done", "rejected"}] /\ states'[r] # "none"
    BY <2>1
  <2> QED BY <1>1, <2>1, <2>2, <2>3, <2>4
<1>4. ASSUME NEW r \in Resource, NEW b \in BOOLEAN, PresentCard(r, b)
      PROVE  AdmissionInv'
  <2>1. /\ CanCall
        /\ UNCHANGED <<stage, canceled, completed, held, passed, registered>>
        /\ states' = [states EXCEPT ![r] = IF @ = "none" THEN "pending" ELSE @]
    BY <1>4 DEF PresentCard, Touched, admitVars, refVars, clientVars, eventVars
  <2>2. states' \in [Resource -> {"none", "pending", "done", "rejected"}] /\ states'[r] # "none"
    BY <2>1
  <2> QED BY <1>1, <2>1, <2>2
<1>5. ASSUME NEW r \in Resource, NEW b \in BOOLEAN, Done(r, b)
      PROVE  AdmissionInv'
  <2>1. /\ CanCall /\ UpdateDeferrals(states')
        /\ UNCHANGED <<stage, cardHandler, canceled>>
        /\ states' = [states EXCEPT ![r] =
                        IF b \/ @ = "rejected" THEN "rejected" ELSE "done"]
    BY <1>5 DEF Done
  <2>2. passed' => completed' /\ \A q \in Resource : states'[q] \notin {"pending", "rejected"}
    BY <1>1, <2>1, UpdateDeferralsEffect
  <2>3. registered' => registered
    BY <1>1, <2>1, UpdateDeferralsEffect
  <2>4. states' \in [Resource -> {"none", "pending", "done", "rejected"}] /\ states'[r] # "none"
    BY <2>1
  <2> QED BY <1>1, <2>1, <2>2, <2>3, <2>4
<1>6. CASE KeepAlive
  BY <1>6 DEF KeepAlive, deferralVars, admitVars, refVars, clientVars, eventVars
<1> QED BY <1>2, <1>3, <1>4, <1>5, <1>6 DEF ScriptNext

LEMMA AdmissionOther ==
  ASSUME AdmissionInv, OtherNext
  PROVE  AdmissionInv'
<1> USE DEF AdmissionInv, EarlyInv, SettledInv, CardInv, CanceledInv, Stages
<1>1. CASE OnClose \/ CloseRemoves \/ CloseEnds
  <2>1. /\ UNCHANGED <<stage, states, completed, cardHandler, passed, canceled>>
        /\ held' => held
        /\ registered' => registered
    BY <1>1 DEF OnClose, CloseRemoves, CloseEnds, RemoveClient, deferralVars, admitVars,
                eventVars, clientVars, refVars
  <2> QED BY <2>1
<1>2. CASE Supersede
  BY <1>2 DEF Supersede, deferralVars, admitVars, refVars, eventVars
<1>3. CASE DropClientInternal
  BY <1>3 DEF DropClientInternal, deferralVars, admitVars, refVars, eventVars
<1>4. CASE TimeOut
  BY <1>4 DEF TimeOut, deferralVars, admitVars, refVars, eventVars
<1>5. CASE Elapse
  BY <1>5 DEF Elapse, deferralVars, admitVars, refVars, eventVars
<1>6. CASE Handshake
  BY <1>6 DEF Handshake, deferralVars, admitVars, refVars, eventVars
<1>7. CASE HandshakeRefused
  BY <1>7 DEF HandshakeRefused, RemoveClient, deferralVars, admitVars, refVars, eventVars
<1>8. CASE DropOldInternal
  BY <1>8 DEF DropOldInternal, deferralVars, admitVars, refVars, eventVars
<1>9. CASE RemoveOld
  BY <1>9 DEF RemoveOld, deferralVars, admitVars, refVars, eventVars
<1> QED BY <1>1, <1>2, <1>3, <1>4, <1>5, <1>6, <1>7, <1>8, <1>9 DEF OtherNext

LEMMA AdmissionStep ==
  ASSUME AdmissionInv, [Next]_vars
  PROVE  AdmissionInv'
<1>1. CASE UNCHANGED vars
  BY <1>1 DEF vars, AdmissionInv, EarlyInv, SettledInv, CardInv, CanceledInv
<1> QED
  BY <1>1, AdmissionHandler, AdmissionMain, AdmissionScript, AdmissionOther DEF Next

\* A client may join only if the event was not canceled and every deferral is
\* done.
THEOREM Admission == Spec => []AdmittedUnanimously
<1>1. AdmissionInv => AdmittedUnanimously
  BY DEF AdmissionInv, SettledInv, CanceledInv, AdmittedUnanimously
<1> QED BY <1>1, AdmissionInit, AdmissionStep, PTL DEF Spec

---------------------------------------------------------------------------
(* OnDrop.                                                                 *)

\* The client has been made.
Created == stage \notin {"new", "refused", "looked"}

\* No older client is in the way; a drop that has begun has raised OnDrop or
\* will, and so has or will a client that has left the registry.
DropInv ==
  /\ old = FALSE /\ oldDrop = FALSE
  /\ dropping => signalled \/ dropQueued
  /\ Created /\ ~registered => signalled \/ dropQueued

\* What a step that removes the client does.
Removed ==
  /\ signalled' \/ dropQueued'
  /\ dropping' = dropping
  /\ old' = FALSE /\ oldDrop' = FALSE

\* RemoveClient does, whichever thread calls it and however often.
LEMMA RemoveKeepsDrop ==
  ASSUME DropInv, RemoveClient
  PROVE  Removed
  BY DEF DropInv, RemoveClient, Removed

LEMMA UpdateDrop ==
  ASSUME NEW st, DropInv, Update(st)
  PROVE  UNCHANGED clientVars \/ Removed
<1>1. CASE Resolve BY <1>1 DEF Resolve
<1>2. CASE Reject BY <1>2, RemoveKeepsDrop DEF Reject
<1> QED BY <1>1, <1>2 DEF Update

LEMMA UpdateDeferralsDrop ==
  ASSUME NEW st, DropInv, UpdateDeferrals(st)
  PROVE  UNCHANGED clientVars \/ Removed
<1>1. CASE ranEvents
  BY <1>1, UpdateDrop DEF UpdateDeferrals
<1>2. CASE ~ranEvents
  BY <1>2 DEF UpdateDeferrals
<1> QED BY <1>1, <1>2

LEMMA DropStep ==
  ASSUME DropInv, [Next]_vars
  PROVE  DropInv'
<1>1. ASSUME UNCHANGED clientVars \/ Removed, Created' => Created
      PROVE  DropInv'
  BY <1>1 DEF DropInv, Removed, clientVars
<1>2. CASE UNCHANGED vars
  BY <1>1, <1>2 DEF vars, clientVars, Created
<1>3. CASE HandlerNext
  <2>1. CASE DropOldClient
    BY <2>1 DEF DropOldClient, DropInv, Created
  <2>2. CASE MakeClient
    <3>1. registered' = TRUE
      BY <2>2 DEF MakeClient, DropInv
    <3> QED BY <2>2, <3>1 DEF MakeClient, DropInv
  <2>3. CASE Touch
    BY <2>3 DEF Touch, DropInv, Created
  <2>4. CASE RefuseRequest \/ GameNameMismatch \/ AwaitProvider \/ AuthPass
               \/ AuthBail \/ PostConnecting
    BY <1>1, <2>4 DEF RefuseRequest, GameNameMismatch, AwaitProvider, AuthPass,
                      AuthBail, PostConnecting, Created
  <2>5. CASE AuthFail
    BY <1>1, <2>5, RemoveKeepsDrop DEF AuthFail, Created
  <2> QED BY <1>3, <2>1, <2>2, <2>3, <2>4, <2>5 DEF HandlerNext
<1>4. CASE MainNext
  <2>1. CASE \/ RaiseConnecting \/ CancelEvent \/ RespondLater \/ RespondNow
             \/ AllowSucceeds \/ Resolved \/ Responded
    BY <1>1, <2>1
    DEF RaiseConnecting, CancelEvent, RespondLater, RespondNow, AllowSucceeds, Resolved,
        Responded, Created
  <2>2. CASE RaiseTooLate \/ RespondError
    BY <1>1, <2>2, RemoveKeepsDrop DEF RaiseTooLate, RespondError, Created
  <2>3. CASE RanEvents
    BY <1>1, <2>3, UpdateDrop DEF RanEvents, Created
  <2> QED BY <1>4, <2>1, <2>2, <2>3 DEF MainNext
<1>5. CASE ScriptNext
  <2>1. ASSUME NEW r \in Resource, Defer(r) \/ UpdateMessage(r) PROVE DropInv'
    BY <1>1, <2>1, UpdateDeferralsDrop DEF Defer, UpdateMessage, Created
  <2>2. ASSUME NEW r \in Resource, NEW b \in BOOLEAN, PresentCard(r, b) \/ Done(r, b)
        PROVE  DropInv'
    BY <1>1, <2>2, UpdateDeferralsDrop DEF PresentCard, Done, Created
  <2>3. CASE KeepAlive
    BY <1>1, <2>3 DEF KeepAlive, Created
  <2> QED BY <1>5, <2>1, <2>2, <2>3 DEF ScriptNext
<1>6. CASE OtherNext
  <2>1. CASE OnClose \/ CloseEnds \/ CloseRemoves
    BY <1>1, <2>1, RemoveKeepsDrop DEF OnClose, CloseEnds, CloseRemoves, Created
  <2>2. CASE Supersede \/ DropClientInternal \/ TimeOut
    BY <2>2 DEF Supersede, DropClientInternal, TimeOut, DropInv, Created
  <2>3. CASE Elapse \/ Handshake
    BY <2>3 DEF Elapse, Handshake, DropInv, Created
  <2>4. CASE HandshakeRefused
    BY <1>1, <2>4, RemoveKeepsDrop DEF HandshakeRefused, Created
  <2>5. CASE DropOldInternal \/ RemoveOld
    BY <2>5 DEF DropOldInternal, RemoveOld, DropInv
  <2> QED BY <1>6, <2>1, <2>2, <2>3, <2>4, <2>5 DEF OtherNext
<1> QED BY <1>2, <1>3, <1>4, <1>5, <1>6 DEF Next

\* When no older client of the guid is in the registry, OnDrop follows
\* OnClientCreated, whichever of the threads removes the client first.
THEOREM DropSignalled ==
  ASSUME ~Reconnecting
  PROVE  Spec => []DropFollowsCreate
<1>1. Init => DropInv
  BY DEF Init, DropInv, Created
<1>2. DropInv => DropFollowsCreate
  BY DEF DropInv, DropFollowsCreate, Alive, Created
<1> QED BY <1>1, <1>2, DropStep, PTL DEF Spec

---------------------------------------------------------------------------
(* The cancel handler.                                                     *)

\* While the cancel handler is armed it knows of an admission, but for the time
\* between the two assignments of allowClient.
SuccessInv == passed /\ cancelSet => succeeded \/ admitting = "passed"

LEMMA SuccessStep ==
  ASSUME AdmissionInv, SuccessInv, [Next]_vars
  PROVE  SuccessInv'
<1>1. ASSUME UNCHANGED <<passed, cancelSet, succeeded, admitting>> PROVE SuccessInv'
  BY <1>1 DEF SuccessInv
<1>2. ASSUME AllowClient PROVE SuccessInv'
  BY <1>2 DEF AllowClient, SuccessInv
<1>3. ASSUME NEW st, Update(st), UNCHANGED cancelSet PROVE SuccessInv'
  BY <1>1, <1>2, <1>3 DEF Update, Reject, Resolve, admitVars
<1>4. ASSUME NEW st, UpdateDeferrals(st), UNCHANGED cancelSet PROVE SuccessInv'
  BY <1>1, <1>3, <1>4 DEF UpdateDeferrals, admitVars
<1>5. CASE UNCHANGED vars
  BY <1>1, <1>5 DEF vars
<1>6. CASE HandlerNext
  <2>1. CASE PostConnecting
    BY <2>1 DEF PostConnecting, AdmissionInv, EarlyInv, SuccessInv
  <2> QED
    BY <1>1, <1>6, <2>1
    DEF HandlerNext, RefuseRequest, DropOldClient, MakeClient, GameNameMismatch,
        Touch, AwaitProvider, AuthPass, AuthFail, AuthBail, admitVars, closeVars
<1>7. CASE MainNext
  <2>1. CASE RanEvents
    BY <1>1, <1>3, <2>1 DEF RanEvents, admitVars, closeVars
  <2>2. CASE RespondNow
    BY <1>2, <2>2 DEF RespondNow
  <2>3. CASE AllowSucceeds
    BY <2>3 DEF AllowSucceeds, Succeeded, SuccessInv, closeVars
  <2>4. CASE Resolved \/ Responded
    BY <2>4 DEF Resolved, Responded, SuccessInv, closeVars
  <2> QED
    BY <1>1, <1>7, <2>1, <2>2, <2>3, <2>4
    DEF MainNext, RaiseConnecting, RaiseTooLate, CancelEvent, RespondError,
        RespondLater, admitVars, closeVars
<1>8. CASE ScriptNext
  BY <1>1, <1>4, <1>8
  DEF ScriptNext, Defer, UpdateMessage, PresentCard, Done, KeepAlive, admitVars, closeVars
<1>9. CASE OtherNext
  <2>1. CASE CloseEnds
    BY <2>1 DEF CloseEnds, SuccessInv
  <2> QED
    BY <1>1, <1>9, <2>1
    DEF OtherNext, OnClose, CloseRemoves, Supersede, DropClientInternal, DropOldInternal,
        RemoveOld, TimeOut, Elapse, Handshake, HandshakeRefused, admitVars, closeVars
<1> QED BY <1>5, <1>6, <1>7, <1>8, <1>9 DEF Next

\* The cancel handler dooms a client that has passed only if it comes between
\* the two assignments of allowClient.
THEOREM AdmittedStay == Spec => AdmittedSurvivesClose
<1>1. Init => AdmissionInv /\ SuccessInv
  BY AdmissionInit DEF Init, SuccessInv
<1>2. AdmissionInv /\ SuccessInv /\ [Next]_vars => (AdmissionInv /\ SuccessInv)'
  BY AdmissionStep, SuccessStep
<1>3. SuccessInv => [OnClose /\ passed /\ admitting # "passed" => closing' # "doomed"]_vars
  BY DEF SuccessInv, OnClose
<1> QED BY <1>1, <1>2, <1>3, PTL DEF Spec, AdmittedSurvivesClose

---------------------------------------------------------------------------
(* The answer.                                                             *)

\* Before MakeClient there is neither a client nor an answer; the one error
\* that leaves its client in the registry is that of the wrong game; a player
\* who is let in has passed.
HonestInv ==
  /\ stage \in {"new", "looked"} => ~registered /\ answer = "none" /\ admitting = "no"
  /\ stage = "refused" => ~registered
  /\ registered /\ answer = "error" => stage = "bailed"
  /\ registered /\ answer = "data" => passed
  /\ registered /\ admitting # "no" => passed

\* A step that removes the client, after it was made.
Gone == ~registered' /\ stage' \notin {"new", "looked"}

\* A step that changes nothing the player sees but may admit the client.
Quiet ==
  /\ answer' = answer
  /\ stage' = stage \/ stage' \notin {"new", "looked", "refused"}
  /\ stage = "bailed" => stage' = "bailed"
  /\ registered' => registered
  /\ passed => passed'
  /\ admitting' = admitting \/ (stage \notin {"new", "looked"} /\ (registered' => passed'))

LEMMA QuietHonest ==
  ASSUME HonestInv, Gone \/ Quiet
  PROVE  HonestInv'
  BY DEF HonestInv, Gone, Quiet

\* A step that lets the player in, and one that says so.
LEMMA AllowQuiet ==
  ASSUME HonestInv, AllowClient, registered' = registered, answer' = answer,
         stage \notin {"new", "looked", "refused", "bailed"},
         stage' \notin {"new", "looked", "refused", "bailed"}
  PROVE  HonestInv'
  BY DEF HonestInv, AllowClient, Alive

LEMMA DataHonest ==
  ASSUME HonestInv, admitting # "no", admitting' = "no", UNCHANGED <<registered, passed>>,
         answer' = answer \/ Answer("data"),
         stage' = stage \/ (stage = "allow" /\ stage' = "left")
  PROVE  HonestInv'
<1>1. answer' = answer \/ (answer = "none" /\ answer' = "data")
  BY DEF Answer
<1> QED BY <1>1 DEF HonestInv

LEMMA UpdateHonest ==
  ASSUME HonestInv, NEW st, Update(st),
         stage \in {"event", "ran", "left"}, stage' \in {"event", "ran", "left"}
  PROVE  HonestInv'
<1>1. CASE Resolve
  BY <1>1, AllowQuiet DEF Resolve, clientVars, replyVars
<1>2. CASE Reject
  <2>1. CASE Alive
    BY <1>2, <2>1, QuietHonest DEF Reject, RemoveClient, Gone
  <2>2. CASE ~Alive
    BY <1>2, <2>2, QuietHonest DEF Reject, Alive, Gone, clientVars
  <2> QED BY <2>1, <2>2
<1>3. CASE Progress /\ UNCHANGED clientVars /\ UNCHANGED admitVars
  BY <1>3, QuietHonest DEF Progress, Quiet, clientVars, admitVars
<1> QED BY <1>1, <1>2, <1>3 DEF Update, clientVars, admitVars

LEMMA UpdateDeferralsHonest ==
  ASSUME HonestInv, NEW st, UpdateDeferrals(st),
         stage \in {"event", "left"}, stage' = stage
  PROVE  HonestInv'
<1>1. CASE ranEvents
  BY <1>1, UpdateHonest DEF UpdateDeferrals
<1>2. CASE ~ranEvents
  BY <1>2, QuietHonest DEF UpdateDeferrals, Quiet, clientVars, admitVars, replyVars
<1> QED BY <1>1, <1>2

LEMMA HonestStep ==
  ASSUME AdmissionInv, HonestInv, [Next]_vars
  PROVE  HonestInv'
<1>1. CASE UNCHANGED vars
  BY <1>1, QuietHonest DEF vars, Quiet
<1>2. CASE HandlerNext
  <2>1. CASE RefuseRequest
    BY <2>1 DEF RefuseRequest, HonestInv, clientVars, Answer
  <2>2. CASE DropOldClient
    BY <2>2 DEF DropOldClient, HonestInv, replyVars, admitVars
  <2>3. CASE MakeClient
    BY <2>3 DEF MakeClient, HonestInv, replyVars, admitVars
  <2>4. CASE GameNameMismatch
    <3>1. answer' = answer \/ answer' = "error"
      BY <2>4 DEF GameNameMismatch, Answer
    <3>2. /\ stage = "made" /\ stage' = "bailed"
          /\ registered' = registered /\ passed' = passed /\ admitting' = admitting
      BY <2>4 DEF GameNameMismatch, clientVars, admitVars
    <3> QED BY <3>1, <3>2 DEF HonestInv
  <2>5. CASE Touch \/ AwaitProvider \/ AuthPass \/ AuthBail \/ PostConnecting
    BY <2>5, QuietHonest
    DEF Touch, AwaitProvider, AuthPass, AuthBail, PostConnecting, Quiet,
        clientVars, admitVars, replyVars
  <2>6. CASE AuthFail
    BY <2>6, QuietHonest DEF AuthFail, RemoveClient, Gone
  <2> QED BY <1>2, <2>1, <2>2, <2>3, <2>4, <2>5, <2>6 DEF HandlerNext
<1>3. CASE MainNext
  <2>1. CASE RaiseConnecting \/ CancelEvent \/ RespondLater
    BY <2>1, QuietHonest
    DEF RaiseConnecting, CancelEvent, RespondLater, Quiet, clientVars, admitVars,
        replyVars
  <2>2. CASE RaiseTooLate \/ RespondError
    BY <2>2, QuietHonest DEF RaiseTooLate, RespondError, RemoveClient, Gone
  <2>3. CASE RanEvents
    <3>1. stage = "event" /\ stage' = "ran"
      BY <2>3 DEF RanEvents
    <3>2. CASE pending
      BY <2>3, <3>1, <3>2, UpdateHonest DEF RanEvents
    <3>3. CASE ~pending
      BY <2>3, <3>1, <3>3, QuietHonest
      DEF RanEvents, Progress, Quiet, clientVars, admitVars
    <3> QED BY <3>2, <3>3
  <2>4. CASE RespondNow
    BY <2>4, AllowQuiet DEF RespondNow, clientVars, replyVars
  <2>5. CASE AllowSucceeds
    BY <2>5 DEF AllowSucceeds, HonestInv, clientVars, replyVars
  <2>6. CASE Resolved \/ Responded
    BY <2>6, DataHonest DEF Resolved, Responded, clientVars, replyVars
  <2> QED BY <1>3, <2>1, <2>2, <2>3, <2>4, <2>5, <2>6 DEF MainNext
<1>4. CASE ScriptNext
  <2>1. ASSUME NEW r \in Resource, Defer(r) \/ UpdateMessage(r) PROVE HonestInv'
    BY <2>1, UpdateDeferralsHonest DEF Defer, UpdateMessage, CanCall
  <2>2. ASSUME NEW r \in Resource, NEW b \in BOOLEAN, Done(r, b) PROVE HonestInv'
    BY <2>2, UpdateDeferralsHonest DEF Done, CanCall
  <2>3. ASSUME NEW r \in Resource, NEW b \in BOOLEAN, PresentCard(r, b)
        PROVE  HonestInv'
    <3>1. answer' = answer
      BY <2>3 DEF PresentCard, Progress, replyVars
    <3> QED BY <2>3, <3>1, QuietHonest DEF PresentCard, Quiet, clientVars, admitVars
  <2>4. CASE KeepAlive
    BY <2>4, QuietHonest DEF KeepAlive, Progress, Quiet, clientVars, admitVars
  <2> QED BY <1>4, <2>1, <2>2, <2>3, <2>4 DEF ScriptNext
<1>5. CASE OtherNext
  <2>1. /\ stage' = stage /\ answer' = answer /\ passed' = passed
        /\ admitting' = admitting
        /\ registered' => registered
    BY <1>5 DEF OtherNext, OnClose, CloseRemoves, CloseEnds, Supersede, DropClientInternal,
                DropOldInternal, RemoveOld, TimeOut, Elapse, Handshake,
                HandshakeRefused, RemoveClient, clientVars, admitVars, replyVars
  <2> QED BY <2>1, QuietHonest DEF Quiet
<1> QED BY <1>1, <1>2, <1>3, <1>4, <1>5 DEF Next

\* A player who was refused cannot join with the client, and one who was let in
\* can, also when an older client of the guid is dropped meanwhile.
THEOREM Honesty == Spec => []AnswerHonest
<1>1. Init => AdmissionInv /\ HonestInv
  BY AdmissionInit DEF Init, HonestInv
<1>2. AdmissionInv /\ HonestInv /\ [Next]_vars => (AdmissionInv /\ HonestInv)'
  BY AdmissionStep, HonestStep
<1>3. AdmissionInv /\ HonestInv => AnswerHonest
  BY DEF AdmissionInv, EarlyInv, HonestInv, AnswerHonest
<1> QED BY <1>1, <1>2, <1>3, PTL DEF Spec

---------------------------------------------------------------------------
(* Types.                                                                  *)

ClientTypes ==
  /\ old \in BOOLEAN /\ oldDrop \in BOOLEAN /\ registered \in BOOLEAN
  /\ dropping \in BOOLEAN /\ dropQueued \in BOOLEAN /\ signalled \in BOOLEAN
  /\ connected \in BOOLEAN
  /\ lastSeen \in {"never", "recent", "old"}

DeferralTypes ==
  /\ states \in [Resource -> {"none", "pending", "done", "rejected"}]
  /\ ranEvents \in BOOLEAN /\ pending \in BOOLEAN /\ completed \in BOOLEAN
  /\ cardHandler \in BOOLEAN /\ timer \in BOOLEAN

ReplyTypes == ends \in Nat /\ answer \in {"none", "data", "error"} /\ late \in BOOLEAN

AdmitTypes ==
  /\ passed \in BOOLEAN /\ deferralPtr \in BOOLEAN /\ succeeded \in BOOLEAN
  /\ admitting \in {"no", "passed", "succeeded"}
  /\ held \in BOOLEAN /\ cbRef \in BOOLEAN
  /\ canceled \in BOOLEAN /\ earlyReject \in BOOLEAN /\ nullRead \in BOOLEAN

RequestTypes ==
  /\ stage \in Stages /\ provider \in 0 .. Providers
  /\ closed \in BOOLEAN /\ cancelSet \in BOOLEAN
  /\ closing \in {"no", "gone", "spared", "doomed"}

AllTypes == ClientTypes /\ DeferralTypes /\ ReplyTypes /\ AdmitTypes /\ RequestTypes

LEMMA TypesOf == AllTypes => TypeOK
BY DEF AllTypes, ClientTypes, DeferralTypes, ReplyTypes, AdmitTypes, RequestTypes, TypeOK

LEMMA AnswerTypes ==
  ASSUME ReplyTypes, NEW a \in {"data", "error"}, Answer(a)
  PROVE  ReplyTypes'
BY DEF ReplyTypes, Answer

LEMMA ProgressTypes ==
  ASSUME ReplyTypes, Progress
  PROVE  ReplyTypes'
BY DEF ReplyTypes, Progress

LEMMA RemoveTypes ==
  ASSUME ClientTypes, RemoveClient
  PROVE  ClientTypes'
BY DEF ClientTypes, RemoveClient

\* What a decision of the deferrals may change keeps its type.
LEMMA UpdateTypes ==
  ASSUME AllTypes, NEW st, Update(st), UNCHANGED <<canceled, nullRead>>
  PROVE  ClientTypes' /\ ReplyTypes' /\ AdmitTypes' /\ completed' \in BOOLEAN
<1> USE DEF AllTypes
<1>1. CASE Reject
  <2>1. ClientTypes'
    <3>1. CASE Alive BY <1>1, <3>1, RemoveTypes DEF Reject
    <3>2. CASE ~Alive BY <1>1, <3>2 DEF Reject, ClientTypes, clientVars
    <3> QED BY <3>1, <3>2
  <2>2. ReplyTypes'
    <3>1. CASE Alive /\ cbRef BY <1>1, <3>1, AnswerTypes DEF Reject
    <3>2. CASE ~(Alive /\ cbRef) BY <1>1, <3>2 DEF Reject, ReplyTypes, replyVars
    <3> QED BY <3>1, <3>2
  <2>3. AdmitTypes' /\ completed' \in BOOLEAN BY <1>1 DEF Reject, AdmitTypes, admitVars
  <2> QED BY <2>1, <2>2, <2>3
<1>2. CASE Resolve
  <2>1. ClientTypes' BY <1>2 DEF Resolve, ClientTypes, clientVars
  <2>2. ReplyTypes' BY <1>2 DEF Resolve, ReplyTypes, replyVars
  <2>3. AdmitTypes' /\ completed' \in BOOLEAN
    BY <1>2 DEF Resolve, AllowClient, AdmitTypes, refVars
  <2> QED BY <2>1, <2>2, <2>3
<1>3. CASE Progress /\ UNCHANGED <<completed, clientVars, admitVars, refVars, earlyReject>>
  <2>1. ReplyTypes' BY <1>3, ProgressTypes
  <2>2. ClientTypes' /\ AdmitTypes' /\ completed' \in BOOLEAN
    BY <1>3 DEF ClientTypes, AdmitTypes, DeferralTypes, clientVars, admitVars, refVars
  <2> QED BY <2>1, <2>2
<1> QED BY <1>1, <1>2, <1>3 DEF Update

LEMMA UpdateDeferralsTypes ==
  ASSUME AllTypes, NEW st, UpdateDeferrals(st), UNCHANGED <<canceled, nullRead>>
  PROVE  /\ ClientTypes' /\ ReplyTypes' /\ AdmitTypes'
         /\ completed' \in BOOLEAN /\ pending' \in BOOLEAN
<1>1. CASE ranEvents
  BY <1>1, UpdateTypes DEF UpdateDeferrals, AllTypes, DeferralTypes
<1>2. CASE ~ranEvents
  BY <1>2 DEF UpdateDeferrals, AllTypes, ClientTypes, ReplyTypes, AdmitTypes, DeferralTypes,
              clientVars, admitVars, refVars, replyVars
<1> QED BY <1>1, <1>2

LEMMA TypesHandler ==
  ASSUME AllTypes, HandlerNext
  PROVE  AllTypes'
<1> USE DEF AllTypes
<1>1. DeferralTypes'
  BY DEF HandlerNext, RefuseRequest, DropOldClient, MakeClient, GameNameMismatch, Touch,
         AwaitProvider, AuthPass, AuthFail, AuthBail, PostConnecting, DeferralTypes, deferralVars
<1>2. AdmitTypes'
  <2>1. CASE UNCHANGED <<admitVars, refVars, eventVars>>
    BY <2>1 DEF AdmitTypes, admitVars, refVars, eventVars
  <2>2. CASE PostConnecting BY <2>2 DEF PostConnecting, AdmitTypes, eventVars
  <2> QED BY <2>1, <2>2
          DEF HandlerNext, RefuseRequest, DropOldClient, MakeClient, GameNameMismatch, Touch,
              AwaitProvider, AuthPass, AuthFail, AuthBail
<1>3. RequestTypes'
  <2>1. provider' \in 0 .. Providers
    <3>1. provider' = provider \/ (provider < Providers /\ provider' = provider + 1)
      BY DEF HandlerNext, RefuseRequest, DropOldClient, MakeClient, GameNameMismatch, Touch,
             AwaitProvider, AuthPass, AuthFail, AuthBail, PostConnecting
    <3> QED BY <3>1, ConstantsAssumption DEF RequestTypes
  <2>2. stage' \in Stages
    BY DEF HandlerNext, RefuseRequest, DropOldClient, MakeClient, GameNameMismatch, Touch,
           AwaitProvider, AuthPass, AuthFail, AuthBail, PostConnecting, RequestTypes, Stages
  <2>3. UNCHANGED <<closed, closing>> /\ (cancelSet' = cancelSet \/ cancelSet' = TRUE)
    BY DEF HandlerNext, RefuseRequest, DropOldClient, MakeClient, GameNameMismatch, Touch,
           AwaitProvider, AuthPass, AuthFail, AuthBail, PostConnecting, closeVars
  <2> QED BY <2>1, <2>2, <2>3 DEF RequestTypes
<1>4. ReplyTypes'
  <2>1. CASE Answer("error") BY <2>1, AnswerTypes
  <2>2. CASE UNCHANGED replyVars BY <2>2 DEF ReplyTypes, replyVars
  <2> QED BY <2>1, <2>2
          DEF HandlerNext, RefuseRequest, DropOldClient, MakeClient, GameNameMismatch, Touch,
              AwaitProvider, AuthPass, AuthFail, AuthBail, PostConnecting
<1>5. ClientTypes'
  <2>1. CASE RemoveClient BY <2>1, RemoveTypes
  <2>2. CASE UNCHANGED clientVars BY <2>2 DEF ClientTypes, clientVars
  <2>3. CASE DropOldClient \/ MakeClient \/ Touch
    BY <2>3 DEF DropOldClient, MakeClient, Touch, ClientTypes
  <2> QED BY <2>1, <2>2, <2>3
          DEF HandlerNext, RefuseRequest, GameNameMismatch, AwaitProvider, AuthPass, AuthFail,
              AuthBail, PostConnecting
<1> QED BY <1>1, <1>2, <1>3, <1>4, <1>5

LEMMA TypesMain ==
  ASSUME AllTypes, MainNext
  PROVE  AllTypes'
<1> USE DEF AllTypes
<1>1. CASE RaiseConnecting \/ CancelEvent \/ RespondLater
  <2>1. UNCHANGED <<clientVars, deferralVars, replyVars, admitVars, refVars>>
    BY <1>1 DEF RaiseConnecting, CancelEvent, RespondLater
  <2>2. ClientTypes' /\ DeferralTypes' /\ ReplyTypes'
    BY <2>1 DEF ClientTypes, DeferralTypes, ReplyTypes, clientVars, deferralVars, replyVars
  <2>3. AdmitTypes' /\ RequestTypes'
    <3>1. CASE RaiseConnecting \/ RespondLater
      BY <2>1, <3>1 DEF RaiseConnecting, RespondLater, AdmitTypes, RequestTypes, Stages,
                        admitVars, refVars, eventVars, closeVars
    <3>2. CASE CancelEvent
      BY <2>1, <3>2 DEF CancelEvent, AdmitTypes, RequestTypes, admitVars, refVars, closeVars
    <3> QED BY <1>1, <3>1, <3>2
  <2> QED BY <2>2, <2>3
<1>2. CASE RaiseTooLate \/ RespondError
  <2>1. RemoveClient /\ Answer("error") BY <1>2 DEF RaiseTooLate, RespondError
  <2>2. ClientTypes' /\ ReplyTypes' BY <2>1, RemoveTypes, AnswerTypes
  <2>3. DeferralTypes' BY <1>2 DEF RaiseTooLate, RespondError, DeferralTypes, deferralVars
  <2>4. AdmitTypes' /\ RequestTypes'
    BY <1>2 DEF RaiseTooLate, RespondError, AdmitTypes, RequestTypes, Stages, admitVars,
                refVars, eventVars, closeVars
  <2> QED BY <2>2, <2>3, <2>4
<1>3. CASE RanEvents
  <2>1. /\ UNCHANGED <<provider, closed, cancelSet, closing, states, cardHandler, timer>>
        /\ UNCHANGED <<canceled, nullRead>>
    BY <1>3 DEF RanEvents, closeVars
  <2>2. ClientTypes' /\ ReplyTypes' /\ AdmitTypes' /\ completed' \in BOOLEAN
    <3>1. CASE pending BY <1>3, <2>1, <3>1, UpdateTypes DEF RanEvents
    <3>2. CASE ~pending
      <4>1. Progress /\ UNCHANGED <<completed, clientVars, admitVars, refVars, earlyReject>>
        BY <1>3, <3>2 DEF RanEvents
      <4>2. ReplyTypes' BY <4>1, ProgressTypes
      <4> QED BY <2>1, <4>1, <4>2 DEF ClientTypes, AdmitTypes, DeferralTypes, clientVars,
                                     admitVars, refVars
    <3> QED BY <3>1, <3>2
  <2>3. DeferralTypes' BY <1>3, <2>1, <2>2 DEF RanEvents, DeferralTypes
  <2>4. RequestTypes' BY <1>3, <2>1 DEF RanEvents, RequestTypes, Stages
  <2> QED BY <2>2, <2>3, <2>4
<1>4. CASE RespondNow
  <2>1. ClientTypes' /\ DeferralTypes'
    BY <1>4 DEF RespondNow, ClientTypes, DeferralTypes, clientVars, deferralVars
  <2>2. ReplyTypes' BY <1>4 DEF RespondNow, ReplyTypes, replyVars
  <2>3. AdmitTypes' BY <1>4 DEF RespondNow, AllowClient, AdmitTypes, refVars, eventVars
  <2>4. RequestTypes' BY <1>4 DEF RespondNow, RequestTypes, Stages, closeVars
  <2> QED BY <2>1, <2>2, <2>3, <2>4
<1>5. CASE AllowSucceeds
  <2>1. ClientTypes' /\ DeferralTypes' /\ ReplyTypes'
    BY <1>5 DEF AllowSucceeds, ClientTypes, DeferralTypes, ReplyTypes, clientVars,
                deferralVars, replyVars
  <2>2. AdmitTypes' /\ RequestTypes'
    <3>1. succeeded' \in BOOLEAN BY <1>5 DEF AllowSucceeds, Succeeded
    <3> QED BY <1>5, <3>1 DEF AllowSucceeds, AdmitTypes, RequestTypes, refVars, eventVars,
                              closeVars
  <2> QED BY <2>1, <2>2
<1>6. CASE Resolved \/ Responded
  <2>1. ClientTypes' /\ DeferralTypes'
    BY <1>6 DEF Resolved, Responded, ClientTypes, DeferralTypes, clientVars, deferralVars
  <2>2. ReplyTypes'
    <3>1. CASE Answer("data") BY <3>1, AnswerTypes
    <3>2. CASE UNCHANGED replyVars BY <3>2 DEF ReplyTypes, replyVars
    <3> QED BY <1>6, <3>1, <3>2 DEF Resolved, Responded
  <2>3. AdmitTypes' BY <1>6 DEF Resolved, Responded, AdmitTypes, eventVars
  <2>4. RequestTypes' BY <1>6 DEF Resolved, Responded, RequestTypes, Stages, closeVars
  <2> QED BY <2>1, <2>2, <2>3, <2>4
<1> QED BY <1>1, <1>2, <1>3, <1>4, <1>5, <1>6 DEF MainNext

LEMMA TypesScript ==
  ASSUME AllTypes, ScriptNext
  PROVE  AllTypes'
<1> USE DEF AllTypes
<1>1. ASSUME NEW r \in Resource, NEW b \in BOOLEAN, Defer(r) \/ UpdateMessage(r) \/ Done(r, b)
      PROVE  AllTypes'
  <2>1. /\ UpdateDeferrals(states') /\ timer' \in {TRUE, timer}
        /\ UNCHANGED <<stage, provider, closed, cancelSet, closing, ranEvents, cardHandler,
                       canceled, nullRead>>
    BY <1>1 DEF Defer, UpdateMessage, Done, closeVars
  <2>2. states' \in [Resource -> {"none", "pending", "done", "rejected"}]
    BY <1>1 DEF Defer, UpdateMessage, Done, Touched, DeferralTypes
  <2>3. /\ ClientTypes' /\ ReplyTypes' /\ AdmitTypes'
        /\ completed' \in BOOLEAN /\ pending' \in BOOLEAN
    BY <2>1, UpdateDeferralsTypes
  <2>4. DeferralTypes' /\ RequestTypes' BY <2>1, <2>2, <2>3 DEF DeferralTypes, RequestTypes
  <2> QED BY <2>3, <2>4
<1>2. ASSUME NEW r \in Resource, NEW b \in BOOLEAN, PresentCard(r, b) PROVE AllTypes'
  <2>1. ReplyTypes'
    <3>1. CASE ranEvents BY <1>2, <3>1, ProgressTypes DEF PresentCard
    <3>2. CASE ~ranEvents BY <1>2, <3>2 DEF PresentCard, ReplyTypes, replyVars
    <3> QED BY <3>1, <3>2
  <2>2. states' \in [Resource -> {"none", "pending", "done", "rejected"}]
    BY <1>2 DEF PresentCard, Touched, DeferralTypes
  <2>3. DeferralTypes' BY <1>2, <2>2 DEF PresentCard, DeferralTypes
  <2>4. ClientTypes' BY <1>2 DEF PresentCard, ClientTypes, clientVars
  <2>5. AdmitTypes' /\ RequestTypes'
    BY <1>2 DEF PresentCard, AdmitTypes, RequestTypes, admitVars, refVars, eventVars, closeVars
  <2> QED BY <2>1, <2>3, <2>4, <2>5
<1>3. CASE KeepAlive
  <2>1. ReplyTypes' BY <1>3, ProgressTypes DEF KeepAlive
  <2>2. ClientTypes' /\ DeferralTypes'
    BY <1>3 DEF KeepAlive, ClientTypes, DeferralTypes, clientVars, deferralVars
  <2>3. AdmitTypes' /\ RequestTypes'
    BY <1>3 DEF KeepAlive, AdmitTypes, RequestTypes, admitVars, refVars, eventVars, closeVars
  <2> QED BY <2>1, <2>2, <2>3
<1> QED BY <1>1, <1>2, <1>3 DEF ScriptNext

LEMMA TypesOther ==
  ASSUME AllTypes, OtherNext
  PROVE  AllTypes'
<1> USE DEF AllTypes
<1>1. DeferralTypes' /\ ReplyTypes'
  <2>1. UNCHANGED deferralVars /\ UNCHANGED replyVars
    BY DEF OtherNext, OnClose, CloseRemoves, CloseEnds, Supersede, DropClientInternal,
           DropOldInternal, RemoveOld, TimeOut, Elapse, Handshake, HandshakeRefused
  <2> QED BY <2>1 DEF DeferralTypes, ReplyTypes, deferralVars, replyVars
<1>2. AdmitTypes'
  <2>1. CASE UNCHANGED <<admitVars, refVars, eventVars>>
    BY <2>1 DEF AdmitTypes, admitVars, refVars, eventVars
  <2>2. CASE CloseEnds
    BY <2>2 DEF CloseEnds, AdmitTypes, admitVars, eventVars
  <2> QED BY <2>1, <2>2
          DEF OtherNext, OnClose, CloseRemoves, Supersede, DropClientInternal, DropOldInternal,
              RemoveOld, TimeOut, Elapse, Handshake, HandshakeRefused
<1>3. RequestTypes'
  <2>1. UNCHANGED <<stage, provider>>
    BY DEF OtherNext, OnClose, CloseRemoves, CloseEnds, Supersede, DropClientInternal,
           DropOldInternal, RemoveOld, TimeOut, Elapse, Handshake, HandshakeRefused
  <2>2. CASE UNCHANGED closeVars
    BY <2>1, <2>2 DEF RequestTypes, closeVars
  <2>3. CASE OnClose \/ CloseRemoves \/ CloseEnds
    BY <2>1, <2>3 DEF OnClose, CloseRemoves, CloseEnds, RequestTypes
  <2> QED BY <2>2, <2>3
          DEF OtherNext, Supersede, DropClientInternal, DropOldInternal, RemoveOld, TimeOut,
              Elapse, Handshake, HandshakeRefused
<1>4. ClientTypes'
  <2>1. CASE RemoveClient BY <2>1, RemoveTypes
  <2>2. CASE UNCHANGED clientVars BY <2>2 DEF ClientTypes, clientVars
  <2>3. CASE \/ Supersede \/ DropClientInternal \/ DropOldInternal \/ RemoveOld \/ TimeOut
             \/ Elapse \/ Handshake
    BY <2>3 DEF Supersede, DropClientInternal, DropOldInternal, RemoveOld, TimeOut, Elapse,
                Handshake, ClientTypes
  <2> QED BY <2>1, <2>2, <2>3 DEF OtherNext, OnClose, CloseRemoves, CloseEnds, HandshakeRefused
<1> QED BY <1>1, <1>2, <1>3, <1>4

\* Every variable of a request has its type, and no more providers are asked
\* than there are.
THEOREM TypeCorrect == Spec => []TypeOK
<1>1. Init => AllTypes
  <2> SUFFICES ASSUME Init PROVE AllTypes OBVIOUS
  <2>1. ClientTypes /\ AdmitTypes
    BY ConstantsAssumption DEF Init, ClientTypes, AdmitTypes
  <2>2. DeferralTypes /\ ReplyTypes BY DEF Init, DeferralTypes, ReplyTypes
  <2>3. RequestTypes
    <3>1. provider \in 0 .. Providers BY ConstantsAssumption DEF Init
    <3> QED BY <3>1 DEF Init, RequestTypes, Stages
  <2> QED BY <2>1, <2>2, <2>3 DEF AllTypes
<1>2. AllTypes /\ [Next]_vars => AllTypes'
  <2> SUFFICES ASSUME AllTypes, [Next]_vars PROVE AllTypes' OBVIOUS
  <2>1. CASE Next BY <2>1, TypesHandler, TypesMain, TypesScript, TypesOther DEF Next
  <2>2. CASE UNCHANGED vars
    BY <2>2 DEF vars, AllTypes, ClientTypes, DeferralTypes, ReplyTypes, AdmitTypes, RequestTypes
  <2> QED BY <2>1, <2>2
<1> QED BY <1>1, <1>2, TypesOf, PTL DEF Spec

---------------------------------------------------------------------------
(* How often the response is ended.                                        *)

\* The stages before the handlers of playerConnecting have returned, and that in
\* which a player nobody deferred is let in.
Unanswered == {"new", "looked", "made", "auth", "await", "posted", "event", "allow"}

\* A refusal may be repeated.
Repeats == canceled \/ earlyReject

\* The code holds *cbRef until it answers, but for a request it refused after
\* the event: there a callback may answer once more.
RepliesInv ==
  /\ ends \in {0, 1, 2}
  /\ stage \in Unanswered => ends = 0
  /\ stage \in {"new", "refused", "looked", "made", "auth", "await", "bailed"} =>
       ~cbRef
  /\ stage \in {"refused", "bailed", "ran"} => ends # 2
  /\ stage = "ran" /\ ends # 0 => ~cbRef /\ completed
  /\ ends = 2 => ~cbRef
  /\ ends # 0 /\ cbRef => Repeats
  /\ ends = 2 \/ late => Repeats

\* *cbRef and *deferrals go together, and while the main thread is in the
\* posted callback only the cancel handler or a completed deferral takes them.
RefsInv ==
  /\ held <=> cbRef
  /\ stage \in {"posted", "event", "ran", "allow"} => held \/ closed \/ completed
  /\ completed \/ pending => \E r \in Resource : states[r] # "none"
  /\ stage = "allow" => \A r \in Resource : states[r] = "none"
  /\ ranEvents => stage \in {"ran", "allow", "left"}
  /\ admitting # "no" => completed \/ stage = "allow"
  /\ admitting # "no" => stage \in {"ran", "allow", "left"}
  /\ closing # "no" => closed
  /\ nullRead => closed

OnceInv == RepliesInv /\ RefsInv

\* What a step that may answer the player does to the reply,
Told ==
  /\ \/ ends' = ends /\ (late' => late)
     \/ cbRef /\ ends' = ends + 1 /\ (late' => late \/ ends > 0)
  /\ cbRef' = FALSE /\ held' = FALSE /\ completed' = TRUE

\* and one that only sends progress, or lets the player in, or nothing.
Waited ==
  /\ UNCHANGED <<ends, cbRef, held>>
  /\ completed' = completed \/ completed' = TRUE
  /\ late' => late \/ (cbRef /\ ends > 0)

LEMMA UpdateTells ==
  ASSUME NEW st, Update(st)
  PROVE  /\ Told \/ Waited
         /\ earlyReject => earlyReject'
         /\ admitting' = admitting \/ (completed' /\ admitting' = "passed")
<1>1. CASE Resolve
  BY <1>1 DEF Resolve, AllowClient, Waited, replyVars, refVars
<1>2. CASE Reject
  BY <1>2 DEF Reject, Answer, Told, replyVars, admitVars
<1>3. CASE Progress /\ UNCHANGED <<completed, refVars, earlyReject, admitVars>>
  BY <1>3 DEF Progress, Waited, refVars, admitVars
<1> QED BY <1>1, <1>2, <1>3 DEF Update, refVars, admitVars

LEMMA UpdateDeferralsTells ==
  ASSUME NEW st, UpdateDeferrals(st)
  PROVE  /\ Waited \/ (ranEvents /\ Told)
         /\ ranEvents \/ (UNCHANGED replyVars /\ completed' = completed)
         /\ earlyReject => earlyReject'
         /\ admitting' = admitting \/ (ranEvents /\ completed' /\ admitting' = "passed")
<1>1. CASE ranEvents
  BY <1>1, UpdateTells DEF UpdateDeferrals
<1>2. CASE ~ranEvents
  BY <1>2 DEF UpdateDeferrals, Waited, replyVars, refVars, admitVars
<1> QED BY <1>1, <1>2

\* Such steps keep the count, in and after the posted callback.
LEMMA TellsOnce ==
  ASSUME RepliesInv, Told \/ Waited, canceled' = canceled,
         earlyReject => earlyReject',
         \/ stage = "left" /\ stage' = "left"
         \/ stage = "event" /\ stage' = "ran"
         \/ stage = "ran" /\ stage' = "ran"
  PROVE  RepliesInv'
<1>1. Repeats => Repeats'
  BY DEF Repeats
<1>2. CASE Waited
  BY <1>1, <1>2 DEF Waited, RepliesInv, Unanswered
<1>3. CASE Told /\ ends' = ends /\ (late' => late)
  BY <1>1, <1>3 DEF Told, RepliesInv, Unanswered
<1>4. CASE Told /\ cbRef /\ ends' = ends + 1 /\ (late' => late \/ ends > 0)
  <2>1. ends \in {0, 1} /\ (ends = 1 => Repeats) /\ (late => Repeats)
    BY <1>4 DEF RepliesInv
  <2>2. ends' \in {1, 2} /\ (ends' = 2 \/ late' => Repeats) /\ cbRef' = FALSE /\ completed' = TRUE
    BY <1>4, <2>1 DEF Told
  <2>3. stage \in {"event", "ran"} => ends' = 1
    BY <1>4 DEF RepliesInv, Unanswered
  <2> QED BY <1>1, <2>2, <2>3 DEF RepliesInv, Unanswered
<1> QED BY <1>2, <1>3, <1>4 DEF Told

\* A step that changes nothing of the reply.
LEMMA StillOnce ==
  ASSUME RepliesInv, ends' = ends, late' => late, completed => completed',
         cbRef' => cbRef,
         Repeats => Repeats',
         \/ stage' = stage
         \/ stage \in {"new", "looked", "made", "auth", "await"} /\ stage' \in Unanswered
         \/ stage \in Unanswered /\ stage' = "bailed" /\ ~cbRef
         \/ stage = "posted" /\ stage' = "event"
         \/ stage = "ran" /\ stage' = "left"
         \/ stage = "ran" /\ stage' = "allow" /\ ends = 0
  PROVE  RepliesInv'
  BY DEF RepliesInv, Unanswered

\* The first answer, to a request that is over with it.
LEMMA FirstOnce ==
  ASSUME RepliesInv, NEW a, Answer(a), ends = 0, cbRef' => cbRef,
         Repeats => Repeats',
         \/ stage \in Unanswered /\ stage' \in {"refused", "bailed"} /\ ~cbRef
         \/ stage \in {"posted", "ran", "allow"} /\ stage' = "left" /\ (cbRef' => Repeats)
  PROVE  RepliesInv'
<1>1. ends' = 1 /\ (late' => Repeats)
  <2>1. ends' = ends + 1 /\ (late' => late \/ ends > 0)
    BY DEF Answer
  <2> QED BY <2>1 DEF RepliesInv
<1> QED BY <1>1 DEF RepliesInv, Unanswered

LEMMA RepliesHandler ==
  ASSUME RepliesInv, HandlerNext
  PROVE  RepliesInv'
<1>1. Repeats' = Repeats
  BY DEF HandlerNext, RefuseRequest, DropOldClient, MakeClient, GameNameMismatch, Touch,
         AwaitProvider, AuthPass, AuthFail, AuthBail, PostConnecting, Repeats, eventVars
<1>2. CASE RefuseRequest \/ GameNameMismatch \/ AuthFail
  <2>1. /\ stage \in {"new", "made", "auth", "await"} /\ stage' \in {"refused", "bailed"}
        /\ Answer("error") /\ cbRef' = cbRef
    BY <1>2 DEF RefuseRequest, GameNameMismatch, AuthFail, refVars
  <2>2. ends = 0 /\ ~cbRef /\ stage \in Unanswered
    BY <2>1 DEF RepliesInv, Unanswered
  <2> QED BY <1>1, <2>1, <2>2, FirstOnce
<1>3. CASE DropOldClient \/ MakeClient \/ Touch \/ AwaitProvider \/ AuthPass
  BY <1>1, <1>3, StillOnce
  DEF DropOldClient, MakeClient, Touch, AwaitProvider, AuthPass, deferralVars, replyVars,
      refVars, Unanswered
<1>4. CASE AuthBail
  <2>1. ~cbRef
    BY <1>4 DEF AuthBail, RepliesInv
  <2> QED
    BY <1>1, <1>4, <2>1, StillOnce DEF AuthBail, deferralVars, replyVars, refVars, Unanswered
<1>5. CASE PostConnecting
  <2>1. /\ stage \in {"auth", "await"} /\ stage' = "posted"
        /\ UNCHANGED <<ends, late, completed>>
    BY <1>5 DEF PostConnecting, deferralVars, replyVars
  <2> QED BY <1>1, <2>1 DEF RepliesInv, Unanswered
<1> QED BY <1>2, <1>3, <1>4, <1>5 DEF HandlerNext

LEMMA RepliesMain ==
  ASSUME RepliesInv, RefsInv, MainNext
  PROVE  RepliesInv'
<1>1. CASE RaiseConnecting \/ CancelEvent \/ RespondLater
  BY <1>1, StillOnce
  DEF RaiseConnecting, CancelEvent, RespondLater, deferralVars, replyVars, refVars,
      eventVars, Repeats
<1>2. CASE RaiseTooLate
  <2>1. /\ stage = "posted" /\ stage' = "left" /\ Answer("error")
        /\ ~cbRef /\ cbRef' = cbRef /\ Repeats' = Repeats
    BY <1>2 DEF RaiseTooLate, RefsInv, refVars, eventVars, Repeats
  <2> QED BY <2>1, FirstOnce DEF RepliesInv, Unanswered
<1>3. CASE RanEvents
  <2>1. stage = "event" /\ stage' = "ran" /\ canceled' = canceled
    BY <1>3 DEF RanEvents
  <2>2. (Told \/ Waited) /\ (earlyReject => earlyReject')
    <3>1. CASE pending BY <1>3, <3>1, UpdateTells DEF RanEvents
    <3>2. CASE ~pending BY <1>3, <3>2 DEF RanEvents, Progress, Waited, refVars
    <3> QED BY <3>1, <3>2
  <2> QED BY <2>1, <2>2, TellsOnce
<1>4. CASE RespondError
  <2>1. /\ stage = "ran" /\ stage' = "left" /\ Answer("error")
        /\ Repeats /\ Repeats' /\ cbRef' = cbRef
    BY <1>4 DEF RespondError, refVars, eventVars, Repeats
  <2>2. CASE ends = 0
    BY <2>1, <2>2, FirstOnce
  <2>3. CASE ends = 1
    BY <2>1, <2>3 DEF Answer, RepliesInv, Unanswered
  <2> QED BY <2>1, <2>2, <2>3 DEF RepliesInv
<1>5. CASE RespondNow
  <2>1. /\ stage = "ran" /\ stage' = "allow" /\ UNCHANGED <<ends, late, completed, cbRef>>
        /\ Repeats' = Repeats /\ \A r \in Resource : states[r] = "none"
    BY <1>5 DEF RespondNow, Repeats, replyVars, deferralVars, refVars, eventVars
  <2>2. ends = 0
    BY <2>1 DEF RepliesInv, RefsInv
  <2> QED BY <2>1, <2>2, StillOnce
<1>6. CASE AllowSucceeds
  BY <1>6, StillOnce DEF AllowSucceeds, deferralVars, replyVars, refVars, eventVars, Repeats
<1>7. CASE Resolved
  <2>1. completed /\ stage \in {"ran", "left"}
    BY <1>7 DEF Resolved, RefsInv
  <2>2. completed' = completed /\ UNCHANGED <<canceled, earlyReject>>
    BY <1>7 DEF Resolved, deferralVars, eventVars
  <2>3. Told
    BY <1>7, <2>1, <2>2 DEF Resolved, Answer, Told, replyVars
  <2>4. stage' = stage
    BY <1>7 DEF Resolved
  <2> QED BY <2>1, <2>2, <2>3, <2>4, TellsOnce
<1>8. CASE Responded
  <2>1. /\ stage = "allow" /\ stage' = "left" /\ Answer("data") /\ cbRef' = FALSE
        /\ Repeats' = Repeats
    BY <1>8 DEF Responded, Repeats
  <2>2. ends = 0
    BY <2>1 DEF RepliesInv, Unanswered
  <2> QED BY <2>1, <2>2, FirstOnce
<1> QED BY <1>1, <1>2, <1>3, <1>4, <1>5, <1>6, <1>7, <1>8 DEF MainNext

LEMMA RepliesScript ==
  ASSUME RepliesInv, RefsInv, ScriptNext
  PROVE  RepliesInv'
<1>1. ASSUME stage \in {"event", "left"}, stage' = stage, canceled' = canceled,
             NEW st, UpdateDeferrals(st)
      PROVE  RepliesInv'
  <2>1. CASE stage = "left"
    BY <1>1, <2>1, UpdateDeferralsTells, TellsOnce
  <2>2. CASE stage = "event"
    <3>1. /\ Waited /\ UNCHANGED replyVars /\ completed' = completed
          /\ earlyReject => earlyReject'
      BY <1>1, <2>2, UpdateDeferralsTells DEF RefsInv
    <3> QED BY <1>1, <3>1, StillOnce DEF Waited, replyVars, Repeats
  <2> QED BY <1>1, <2>1, <2>2
<1>2. ASSUME NEW r \in Resource, Defer(r) \/ UpdateMessage(r) PROVE RepliesInv'
  BY <1>1, <1>2 DEF Defer, UpdateMessage, CanCall
<1>3. ASSUME NEW r \in Resource, NEW b \in BOOLEAN, Done(r, b) PROVE RepliesInv'
  BY <1>1, <1>3 DEF Done, CanCall
<1>4. ASSUME Waited, stage' = stage, completed' = completed, UNCHANGED eventVars,
             stage \in {"event", "ran", "allow"} => UNCHANGED replyVars
      PROVE  RepliesInv'
  <2>1. Repeats' = Repeats
    BY <1>4 DEF Repeats, eventVars
  <2>2. CASE UNCHANGED replyVars
    BY <1>4, <2>1, <2>2, StillOnce DEF Waited, replyVars
  <2>3. CASE stage \notin {"event", "ran", "allow"}
    BY <1>4, <2>1, <2>3 DEF Waited, RepliesInv, Unanswered
  <2> QED BY <1>4, <2>2, <2>3
<1>5. ASSUME NEW r \in Resource, NEW b \in BOOLEAN, PresentCard(r, b)
      PROVE  RepliesInv'
  <2>1. /\ stage \in {"event", "left"} /\ stage' = stage /\ UNCHANGED eventVars
        /\ UNCHANGED <<refVars, completed>>
        /\ IF ranEvents THEN Progress ELSE UNCHANGED replyVars
    BY <1>5 DEF PresentCard, CanCall
  <2>2. Waited
    BY <2>1 DEF Progress, Waited, refVars, replyVars
  <2> QED BY <1>4, <2>1, <2>2 DEF RefsInv
<1>6. CASE KeepAlive
  BY <1>4, <1>6
  DEF KeepAlive, Progress, Waited, MainIdle, InCallback, refVars, deferralVars
<1> QED BY <1>2, <1>3, <1>5, <1>6 DEF ScriptNext

LEMMA RepliesOther ==
  ASSUME RepliesInv, OtherNext
  PROVE  RepliesInv'
<1>1. /\ stage' = stage /\ UNCHANGED deferralVars /\ UNCHANGED replyVars
      /\ UNCHANGED eventVars
  BY DEF OtherNext, OnClose, CloseRemoves, CloseEnds, Supersede, DropClientInternal,
         DropOldInternal, RemoveOld, TimeOut, Elapse, Handshake, HandshakeRefused
<1>2. cbRef' => cbRef
  BY DEF OtherNext, OnClose, CloseRemoves, CloseEnds, Supersede, DropClientInternal,
         DropOldInternal, RemoveOld, TimeOut, Elapse, Handshake, HandshakeRefused, refVars
<1> QED BY <1>1, <1>2, StillOnce DEF deferralVars, replyVars, eventVars, Repeats

\* Somebody has called a callback.
Called == \E r \in Resource : states[r] # "none"

LEMMA TellsRefs ==
  ASSUME RefsInv, Told \/ Waited, UNCHANGED <<closed, closing, nullRead>>,
         Called',
         stage' \in {"event", "ran", "left"},
         stage' = stage \/ stage \in {"posted", "event", "ran"},
         ranEvents' => stage' \in {"ran", "left"},
         admitting' # "no" => completed' /\ stage' # "event"
  PROVE  RefsInv'
<1>1. (held' <=> cbRef') /\ (completed' \/ UNCHANGED <<held, completed>>)
  BY DEF RefsInv, Told, Waited
<1>2. (completed' \/ pending') => Called'
  BY DEF RefsInv, Called, Waited
<1> QED BY <1>1, <1>2 DEF RefsInv, Called

LEMMA StillRefs ==
  ASSUME RefsInv, UNCHANGED <<refVars, nullRead>>, UNCHANGED deferralVars, closed => closed',
         ranEvents => stage' \in {"ran", "left"} \/ stage' = stage,
         stage' \in {"posted", "event", "ran"} => stage \in {"posted", "event", "ran"},
         stage' = "allow" => stage = "allow",
         admitting' # "no" => admitting # "no" /\ stage' = stage,
         closing' # "no" => closed'
  PROVE  RefsInv'
  BY DEF RefsInv, refVars, deferralVars

LEMMA RefsHandler ==
  ASSUME RefsInv, HandlerNext
  PROVE  RefsInv'
<1>1. /\ stage \in {"new", "looked", "made", "auth", "await"}
      /\ UNCHANGED deferralVars /\ UNCHANGED eventVars /\ UNCHANGED <<closed, closing>>
      /\ admitting' = admitting
  BY DEF HandlerNext, RefuseRequest, DropOldClient, MakeClient, GameNameMismatch, Touch,
         AwaitProvider, AuthPass, AuthFail, AuthBail, PostConnecting, admitVars, closeVars
<1>2. ~ranEvents /\ admitting = "no"
  BY <1>1 DEF RefsInv
<1>3. CASE PostConnecting
  <2>1. held' = TRUE /\ cbRef' = TRUE /\ stage' = "posted"
    BY <1>3 DEF PostConnecting
  <2> QED BY <1>1, <1>2, <2>1 DEF RefsInv, deferralVars, eventVars
<1>4. CASE ~PostConnecting
  <2>1. UNCHANGED refVars /\ stage' \notin {"posted", "event", "ran", "allow"}
    BY <1>1, <1>4
    DEF HandlerNext, RefuseRequest, DropOldClient, MakeClient, GameNameMismatch, Touch,
        AwaitProvider, AuthPass, AuthFail, AuthBail
  <2>2. closing' # "no" => closed'
    BY <1>1 DEF RefsInv
  <2> QED BY <1>1, <1>2, <2>1, <2>2, StillRefs DEF eventVars
<1> QED BY <1>3, <1>4

LEMMA RefsMain ==
  ASSUME RefsInv, MainNext
  PROVE  RefsInv'
<1>1. UNCHANGED <<closed, closing>>
  BY DEF MainNext, RaiseConnecting, RaiseTooLate, CancelEvent, RanEvents, RespondError,
         RespondLater, RespondNow, AllowSucceeds, Resolved, Responded, closeVars
<1>2. CASE \/ RaiseConnecting \/ RaiseTooLate \/ CancelEvent \/ RespondError \/ RespondLater
  <2>1. /\ UNCHANGED <<refVars, nullRead>> /\ UNCHANGED deferralVars
        /\ admitting' = admitting
        /\ stage \in {"posted", "event"} \/ (stage = "ran" /\ admitting = "no")
        /\ stage' \in {"left"} \/ (stage' = "event" /\ stage # "ran")
    BY <1>2
    DEF RaiseConnecting, RaiseTooLate, CancelEvent, RespondError, RespondLater, eventVars,
        admitVars
  <2>2. (ranEvents => stage' \in {"ran", "left"}) /\ admitting = "no"
    BY <2>1 DEF RefsInv
  <2>3. closing' # "no" => closed'
    BY <1>1 DEF RefsInv
  <2> QED BY <1>1, <2>1, <2>2, <2>3, StillRefs
<1>3. CASE RanEvents
  <2>1. /\ stage = "event" /\ stage' = "ran" /\ pending' = FALSE
        /\ UNCHANGED <<states, nullRead>>
    BY <1>3 DEF RanEvents
  <2>2. admitting = "no"
    BY <2>1 DEF RefsInv
  <2>3. CASE pending
    <3>1. /\ Told \/ Waited
          /\ admitting' = admitting \/ (completed' /\ admitting' = "passed")
      BY <1>3, <2>3, UpdateTells DEF RanEvents
    <3>2. Called'
      BY <2>1, <2>3 DEF RefsInv, Called
    <3> QED BY <1>1, <2>1, <2>2, <3>1, <3>2, TellsRefs
  <2>4. CASE ~pending
    <3>1. UNCHANGED refVars /\ completed' = completed /\ admitting' = admitting
      BY <1>3, <2>4 DEF RanEvents, admitVars
    <3> QED BY <1>1, <2>1, <2>2, <3>1 DEF RefsInv, refVars
  <2> QED BY <2>3, <2>4
<1>4. CASE RespondNow
  <2>1. /\ stage = "ran" /\ stage' = "allow" /\ \A r \in Resource : states[r] = "none"
        /\ UNCHANGED refVars /\ UNCHANGED deferralVars /\ nullRead' = nullRead
    BY <1>4 DEF RespondNow, eventVars
  <2> QED BY <1>1, <2>1 DEF RefsInv, deferralVars, refVars
<1>5. CASE AllowSucceeds
  <2>1. /\ stage' = stage /\ admitting # "no"
        /\ UNCHANGED refVars /\ UNCHANGED deferralVars /\ nullRead' = nullRead
    BY <1>5 DEF AllowSucceeds, eventVars
  <2>2. closing' # "no" => closed'
    BY <1>1 DEF RefsInv
  <2> QED BY <1>1, <2>1, <2>2, StillRefs
<1>6. CASE Resolved
  <2>1. /\ stage' = stage /\ stage # "allow" /\ admitting # "no" /\ admitting' = "no"
        /\ held' = FALSE /\ cbRef' = FALSE /\ UNCHANGED deferralVars /\ nullRead' = nullRead
    BY <1>6 DEF Resolved, eventVars
  <2>2. completed
    BY <2>1 DEF RefsInv
  <2> QED BY <1>1, <2>1, <2>2 DEF RefsInv, deferralVars
<1>7. CASE Responded
  <2>1. /\ stage = "allow" /\ stage' = "left" /\ admitting' = "no"
        /\ held' = FALSE /\ cbRef' = FALSE /\ (nullRead' => ~held)
        /\ UNCHANGED deferralVars
    BY <1>7 DEF Responded
  <2>2. nullRead' => closed'
    BY <1>1, <2>1 DEF RefsInv
  <2> QED BY <1>1, <2>1, <2>2 DEF RefsInv, deferralVars
<1> QED BY <1>2, <1>3, <1>4, <1>5, <1>6, <1>7 DEF MainNext

LEMMA RefsScript ==
  ASSUME AdmissionInv, RefsInv, ScriptNext
  PROVE  RefsInv'
<1>1. ASSUME NEW r \in Resource,
             \/ Defer(r) \/ UpdateMessage(r)
             \/ \E b \in BOOLEAN : PresentCard(r, b) \/ Done(r, b)
      PROVE  Called'
  <2>1. states'[r] # "none"
    BY <1>1 DEF Defer, UpdateMessage, PresentCard, Done, Touched, AdmissionInv
  <2> QED BY <2>1 DEF Called
<1>2. ASSUME NEW st, UpdateDeferrals(st), Called', CanCall,
             UNCHANGED <<closeVars, nullRead, stage, ranEvents>>
      PROVE  RefsInv'
  <2>1. /\ Told \/ Waited
        /\ admitting' = admitting \/ (ranEvents /\ completed' /\ admitting' = "passed")
    BY <1>2, UpdateDeferralsTells
  <2>2. /\ stage \in {"event", "left"} /\ admitting = "no"
        /\ ranEvents => stage \in {"ran", "left"}
    BY <1>2 DEF RefsInv, CanCall
  <2> QED BY <1>2, <2>1, <2>2, TellsRefs DEF closeVars
<1>3. ASSUME NEW r \in Resource, Defer(r) \/ UpdateMessage(r) PROVE RefsInv'
  BY <1>1, <1>2, <1>3 DEF Defer, UpdateMessage
<1>4. ASSUME NEW r \in Resource, NEW b \in BOOLEAN, Done(r, b) PROVE RefsInv'
  BY <1>1, <1>2, <1>4 DEF Done
<1>5. ASSUME NEW r \in Resource, NEW b \in BOOLEAN, PresentCard(r, b) PROVE RefsInv'
  <2>1. /\ UNCHANGED <<stage, ranEvents, pending, completed>> /\ stage \in {"event", "left"}
        /\ UNCHANGED closeVars /\ UNCHANGED admitVars
        /\ UNCHANGED refVars /\ UNCHANGED eventVars
    BY <1>5 DEF PresentCard, CanCall
  <2>2. Called'
    BY <1>1, <1>5
  <2> QED BY <2>1, <2>2 DEF RefsInv, Called, refVars, eventVars, closeVars, admitVars
<1>6. CASE KeepAlive
  <2>1. closing' # "no" => closed'
    BY <1>6 DEF KeepAlive, RefsInv, closeVars
  <2> QED BY <1>6, <2>1, StillRefs DEF KeepAlive, eventVars, closeVars, admitVars
<1> QED BY <1>3, <1>4, <1>5, <1>6 DEF ScriptNext

LEMMA RefsOther ==
  ASSUME RefsInv, OtherNext
  PROVE  RefsInv'
<1>1. /\ stage' = stage /\ admitting' = admitting
      /\ UNCHANGED deferralVars /\ UNCHANGED eventVars
  BY DEF OtherNext, OnClose, CloseRemoves, CloseEnds, Supersede, DropClientInternal,
         DropOldInternal, RemoveOld, TimeOut, Elapse, Handshake, HandshakeRefused, admitVars
<1>2. CASE CloseEnds
  <2>1. closed' = closed /\ closed /\ held' = FALSE /\ cbRef' = FALSE
    BY <1>2 DEF CloseEnds, RefsInv
  <2> QED BY <1>1, <2>1 DEF RefsInv, deferralVars, eventVars
<1>3. CASE ~CloseEnds
  <2>1. UNCHANGED refVars /\ (closed => closed') /\ (closing' # "no" => closed')
    BY <1>3
    DEF OtherNext, OnClose, CloseRemoves, Supersede, DropClientInternal, DropOldInternal,
        RemoveOld, TimeOut, Elapse, Handshake, HandshakeRefused, RefsInv, closeVars
  <2> QED BY <1>1, <2>1, StillRefs DEF eventVars
<1> QED BY <1>2, <1>3

LEMMA OnceStep ==
  ASSUME AdmissionInv, OnceInv, [Next]_vars
  PROVE  OnceInv'
<1>1. CASE Next
  BY <1>1, RepliesHandler, RepliesMain, RepliesScript, RepliesOther, RefsHandler, RefsMain,
     RefsScript, RefsOther
  DEF Next, OnceInv
<1>2. CASE UNCHANGED vars
  <2>1. RepliesInv' BY <1>2 DEF vars, OnceInv, RepliesInv, Repeats
  <2>2. RefsInv' BY <1>2 DEF vars, OnceInv, RefsInv
  <2> QED BY <2>1, <2>2 DEF OnceInv
<1> QED BY <1>1, <1>2

LEMMA OnceInit == Init => OnceInv
  BY DEF Init, OnceInv, RepliesInv, RefsInv, Unanswered

\* The response is ended once and not written to after its end, but for a player
\* whose event was canceled or who was rejected inside it; never three times.
THEOREM OnceButForRefusals == Spec => []OnlyRefusalsRepeat
<1>1. AdmissionInv /\ OnceInv => OnlyRefusalsRepeat
  BY DEF OnceInv, RepliesInv, OnlyRefusalsRepeat, AnsweredOnce, Repeats
<1> QED BY <1>1, AdmissionInit, AdmissionStep, OnceInit, OnceStep, PTL DEF Spec

\* addData reads a null *deferrals only after the connection was closed: no
\* sequence of callbacks alone gets it there.
THEOREM NullNeedsClose == Spec => []NullOnlyIfClosed
<1>1. AdmissionInv /\ OnceInv => NullOnlyIfClosed
  BY DEF OnceInv, RefsInv, NullOnlyIfClosed
<1> QED BY <1>1, AdmissionInit, AdmissionStep, OnceInit, OnceStep, PTL DEF Spec

=========================================================================
