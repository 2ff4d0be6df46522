--------------------------- MODULE InitConnect ---------------------------
(***************************************************************************)
(* One `initConnect` request of a connecting player, from the HTTP request *)
(* to the client's ENet handshake: authentication, the playerConnecting    *)
(* event, the deferrals with which resources delay or refuse the player,   *)
(* and the entry of the client in the client registry.                     *)
(*                                                                         *)
(* Four threads take part: a pool thread runs the HTTP handler up to the   *)
(* point where it posts to the main thread, the main thread runs scripts,  *)
(* callbacks and server frames, the TCP thread reports that the connection *)
(* was closed, and the net thread handles the handshake.                   *)
(***************************************************************************)
EXTENDS Naturals

CONSTANTS
  Resource,     \* resources that handle playerConnecting
  Providers,    \* number of identity providers, g_serverProviders
  Reconnecting  \* an older client of the same guid is in the registry

ASSUME ConstantsAssumption ==
  /\ Providers \in Nat
  /\ Reconnecting \in BOOLEAN

VARIABLES
  stage,        \* how far the request's handler is
  provider,     \* providers that have authenticated the client
  closed,       \* the HTTP connection is closed
  cancelSet,    \* the request's cancel handler is set, and holds didSucceed
  closing,      \* the cancel handler runs: it locked the client and will remove
                \* it ("doomed") or not ("spared"), or found it "gone"
  succeeded,    \* *didSucceed
  old,          \* the older client is in m_clients
  oldDrop,      \* the DropClientInternal of the older client is queued
  registered,   \* the client is in m_clients
  dropping,     \* m_dropping
  dropQueued,   \* DropClientInternal is queued on the main thread
  signalled,    \* OnDrop has been raised for the client
  lastSeen,     \* m_lastSeen: "never", "recent", or "old" (very dead)
  passed,       \* passedValidation
  admitting,    \* allowClient runs: passedValidation is set, or *success is, too
  connected,    \* the client has its final net id
  deferralPtr,  \* the client's data deferralPtr is not null
  held,         \* *deferrals is not null
  cbRef,        \* *cbRef is not null
  states,       \* m_deferralStates by resource
  ranEvents,    \* m_ranEvents
  pending,      \* m_pending
  completed,    \* m_completed
  cardHandler,  \* m_cardResponseCallback is set: it owns the ClientDeferral
  timer,        \* the keep-alive timer runs
  canceled,     \* playerConnecting was canceled
  earlyReject,  \* *earlyReject
  ends,         \* how often the response was ended
  answer,       \* the first final answer
  late,         \* something was written after the end of the response
  nullRead      \* a null *deferrals was dereferenced

clientVars   == <<old, oldDrop, registered, dropping, dropQueued, signalled,
                  lastSeen, connected>>
deferralVars == <<states, ranEvents, pending, completed, cardHandler, timer>>
replyVars    == <<ends, answer, late>>
admitVars    == <<passed, deferralPtr, succeeded, admitting>>
closeVars    == <<closed, cancelSet, closing>>
refVars      == <<held, cbRef>>
eventVars    == <<canceled, earlyReject, nullRead>>
vars == <<stage, provider, closed, cancelSet, closing, old, oldDrop, registered,
          dropping, dropQueued, signalled, lastSeen, connected, states,
          ranEvents, pending, completed,
          cardHandler, timer, ends, answer, late, passed, deferralPtr,
          succeeded, admitting, held, cbRef, canceled, earlyReject, nullRead>>

Stages == {"new", "refused", "looked", "made", "auth", "await", "bailed",
           "posted", "event", "ran", "allow", "left"}

Init ==
  /\ stage = "new"
  /\ provider = 0
  /\ closed = FALSE
  /\ cancelSet = FALSE
  /\ closing = "no"
  /\ succeeded = FALSE
  /\ old = Reconnecting
  /\ oldDrop = FALSE
  /\ registered = FALSE
  /\ dropping = FALSE
  /\ dropQueued = FALSE
  /\ signalled = FALSE
  /\ lastSeen = "never"
  /\ passed = FALSE
  /\ admitting = "no"
  /\ connected = FALSE
  /\ deferralPtr = FALSE
  /\ held = FALSE
  /\ cbRef = FALSE
  /\ states = [r \in Resource |-> "none"]
  /\ ranEvents = FALSE
  /\ pending = FALSE
  /\ completed = FALSE
  /\ cardHandler = FALSE
  /\ timer = FALSE
  /\ canceled = FALSE
  /\ earlyReject = FALSE
  /\ ends = 0
  /\ answer = "none"
  /\ late = FALSE
  /\ nullRead = FALSE

---------------------------------------------------------------------------
(* What the steps are made of.                                             *)

\* clientWeak can be locked: the registry, a queued drop, the handler that has
\* not returned, the posted callback or the cancel handler owns the client.
Alive == registered \/ dropQueued \/ closing \in {"doomed", "spared"}
           \/ stage \in {"made", "auth", "posted", "event", "ran", "allow"}

\* The ClientDeferral exists: *deferrals, deferralsRef or its own card
\* handler owns it.
DeferralAlive == held \/ stage \in {"event", "ran", "allow"} \/ cardHandler

\* The main thread is inside the posted callback, or lets the player in.
InCallback == stage \in {"event", "ran", "allow"}
MainIdle == ~InCallback /\ admitting = "no"

\* ClientRegistry::RemoveClient: the entry of the guid goes, whoever's it is.
RemoveClient ==
  /\ registered' = FALSE
  /\ old' = FALSE
  /\ signalled' = (signalled \/ ~dropping)
  /\ UNCHANGED <<oldDrop, dropping, dropQueued, lastSeen, connected>>

\* A final answer and the end of the response.
Answer(a) ==
  /\ ends' = ends + 1
  /\ answer' = IF answer = "none" THEN a ELSE answer
  /\ late' = (late \/ ends > 0)

\* m_messageCallback and m_cardCallback: progress for the player.
Progress ==
  /\ late' = (late \/ (cbRef /\ ends > 0))
  /\ UNCHANGED <<ends, answer>>

\* allowClient: first the client's data, then *success (AllowSucceeds).
AllowClient ==
  /\ passed' = (passed \/ Alive)
  /\ deferralPtr' = (deferralPtr /\ ~Alive)
  /\ admitting' = "passed"
  /\ UNCHANGED succeeded

\* m_resolveCallback, up to the answer (Resolved).
Resolve ==
  /\ completed' = TRUE
  /\ AllowClient
  /\ UNCHANGED <<clientVars, refVars, replyVars, earlyReject>>

\* m_rejectCallback.  earlyReject is owned by the posted callback.
Reject ==
  /\ completed' = TRUE
  /\ earlyReject' = (earlyReject \/ InCallback)
  /\ IF Alive
     THEN /\ RemoveClient
          /\ IF cbRef THEN Answer("error") ELSE UNCHANGED replyVars
     ELSE UNCHANGED <<clientVars, replyVars>>
  /\ cbRef' = FALSE
  /\ held' = FALSE
  /\ UNCHANGED admitVars

\* allDone of UpdateDeferrals
AllDone_Any(st) == \E r \in Resource : st[r] = "done"  \* Mutant: one suffices
AllDone(st) == \A r \in Resource : st[r] # "pending"

\* UpdateDeferrals once the events have run: st are the deferral states.
Update(st) ==
  \/ /\ \E r \in Resource : st[r] = "rejected"
     /\ Reject
  \/ /\ \A r \in Resource : st[r] # "rejected"
     /\ AllDone(st)
     /\ Resolve
  \/ /\ \A r \in Resource : st[r] # "rejected"
     /\ ~AllDone(st)
     /\ Progress
     /\ UNCHANGED <<completed, clientVars, admitVars, refVars, earlyReject>>

\* UpdateDeferrals
UpdateDeferrals(st) ==
  IF ranEvents
  THEN Update(st) /\ UNCHANGED pending
  ELSE /\ pending' = TRUE
       /\ UNCHANGED <<completed, clientVars, admitVars, refVars, replyVars,
                      earlyReject>>

---------------------------------------------------------------------------
(* The HTTP handler, on a pool thread.                                     *)

\* The checks before a client is made: start-up, fields, version, game, name,
\* ticket.
RefuseRequest ==
  /\ stage = "new"
  /\ stage' = "refused"
  /\ Answer("error")
  /\ UNCHANGED <<provider, closeVars, clientVars, deferralVars,
                 admitVars, refVars, eventVars>>

\* An older client of the guid is dropped: its DropClientInternal is queued.
DropOldClient ==
  /\ stage = "new"
  /\ stage' = "looked"
  /\ oldDrop' = (oldDrop \/ old)
  /\ UNCHANGED <<provider, closeVars, old, registered, dropping,
                 dropQueued, signalled, lastSeen, connected, deferralVars,
                 replyVars, admitVars, refVars, eventVars>>

\* MakeClient and the setters after it.  emplace leaves the entry of an older
\* client alone.
MakeClient ==
  /\ stage = "looked"
  /\ stage' = "made"
  /\ registered' = ~old
  /\ UNCHANGED <<provider, closeVars, old, oldDrop, dropping,
                 dropQueued, signalled, lastSeen, connected, deferralVars,
                 replyVars, admitVars, refVars, eventVars>>

\* The ticket is for another game: the client stays registered.
GameNameMismatch ==
  /\ stage = "made"
  /\ stage' = "bailed"
  /\ Answer("error")
  /\ UNCHANGED <<provider, closeVars, clientVars, deferralVars,
                 admitVars, refVars, eventVars>>

Touch ==
  /\ stage = "made"
  /\ stage' = "auth"
  /\ lastSeen' = "recent"
  /\ UNCHANGED <<provider, closeVars, old, oldDrop, registered,
                 dropping, dropQueued, signalled, connected, deferralVars,
                 replyVars, admitVars, refVars, eventVars>>

\* A provider that answers later is asked: the handler returns.
AwaitProvider ==
  /\ stage = "auth"
  /\ provider < Providers
  /\ stage' = "await"
  /\ UNCHANGED <<provider, closeVars, clientVars, deferralVars,
                 replyVars, admitVars, refVars, eventVars>>

\* A provider accepts the client.
AuthPass_OneMore ==  \* Mutant: the end of the list is passed
  /\ stage \in {"auth", "await"}
  /\ provider <= Providers
  /\ Alive
  /\ provider' = provider + 1
  /\ UNCHANGED <<stage, closeVars, clientVars, deferralVars, replyVars,
                 admitVars, refVars, eventVars>>
AuthPass ==
  /\ stage \in {"auth", "await"}
  /\ provider < Providers
  /\ Alive
  /\ provider' = provider + 1
  /\ UNCHANGED <<stage, closeVars, clientVars, deferralVars, replyVars,
                 admitVars, refVars, eventVars>>

\* A provider refuses the client, or the identifiers or the game build of the
\* authenticated client do not do.
AuthFail ==
  /\ stage \in {"auth", "await"}
  /\ Alive
  /\ stage' = "bailed"
  /\ RemoveClient
  /\ Answer("error")
  /\ UNCHANGED <<provider, closeVars, deferralVars, admitVars, refVars,
                 eventVars>>

\* The client has gone: bail, without an answer.
AuthBail ==
  /\ stage \in {"auth", "await"}
  /\ ~Alive
  /\ stage' = "bailed"
  /\ UNCHANGED <<provider, closeVars, clientVars, deferralVars,
                 replyVars, admitVars, refVars, eventVars>>

\* `done`: the deferral is made, the cancel handler set, the callback posted.
PostConnecting ==
  /\ stage \in {"auth", "await"}
  /\ provider = Providers
  /\ Alive
  /\ stage' = "posted"
  /\ held' = TRUE
  /\ cbRef' = TRUE
  /\ deferralPtr' = TRUE
  /\ cancelSet' = TRUE
  /\ UNCHANGED <<provider, closed, closing, clientVars, deferralVars, replyVars,
                 passed, succeeded, admitting, eventVars>>

---------------------------------------------------------------------------
(* The posted callback, on the main thread.                                *)

\* playerConnecting is raised, with the deferral's callbacks.  The main thread
\* runs what is posted to it in order, the drop of the older client first.
RaiseConnecting ==
  /\ stage = "posted"
  /\ ~oldDrop
  /\ held
  /\ stage' = "event"
  /\ UNCHANGED <<provider, closeVars, clientVars, deferralVars,
                 replyVars, admitVars, refVars, eventVars>>

\* The request was canceled before the callback ran.
RaiseTooLate ==
  /\ stage = "posted"
  /\ ~oldDrop
  /\ ~held
  /\ stage' = "left"
  /\ RemoveClient
  /\ Answer("error")
  /\ UNCHANGED <<provider, closeVars, deferralVars, admitVars, refVars,
                 eventVars>>

\* A handler cancels the event.
CancelEvent ==
  /\ stage = "event"
  /\ canceled' = TRUE
  /\ UNCHANGED <<stage, provider, closeVars, clientVars, deferralVars,
                 replyVars, admitVars, refVars, earlyReject, nullRead>>

\* The handlers have returned: RanEvents.
RanEvents_DropsPending ==  \* Mutant: m_pending is forgotten
  /\ stage = "event"
  /\ stage' = "ran"
  /\ ranEvents' = TRUE
  /\ pending' = FALSE
  /\ UNCHANGED <<provider, closeVars, states, cardHandler, timer,
                 completed, clientVars, admitVars, refVars, replyVars,
                 eventVars>>
RanEvents ==
  /\ stage = "event"
  /\ stage' = "ran"
  /\ ranEvents' = TRUE
  /\ pending' = FALSE
  /\ IF pending
     THEN Update(states)
     ELSE /\ Progress
          /\ UNCHANGED <<completed, clientVars, admitVars, refVars, earlyReject>>
  /\ UNCHANGED <<provider, closeVars, states, cardHandler, timer,
                 canceled, nullRead>>

\* Mutant: the client is not removed.
RespondError_KeepsClient ==
  /\ stage = "ran"
  /\ admitting = "no"
  /\ canceled \/ earlyReject
  /\ stage' = "left"
  /\ Answer("error")
  /\ UNCHANGED <<provider, closeVars, clientVars, deferralVars,
                 admitVars, refVars, eventVars>>

\* The event was canceled, or a resource rejected the player meanwhile.
RespondError ==
  /\ stage = "ran"
  /\ admitting = "no"
  /\ canceled \/ earlyReject
  /\ stage' = "left"
  /\ RemoveClient
  /\ Answer("error")
  /\ UNCHANGED <<provider, closeVars, deferralVars, admitVars, refVars,
                 eventVars>>

\* IsDeferred: the resources will answer.
RespondLater ==
  /\ stage = "ran"
  /\ admitting = "no"
  /\ ~canceled /\ ~earlyReject
  /\ \E r \in Resource : states[r] # "none"
  /\ stage' = "left"
  /\ UNCHANGED <<provider, closeVars, clientVars, deferralVars,
                 replyVars, admitVars, refVars, eventVars>>

RespondNow_Unasked ==  \* Mutant: IsDeferred is not asked
  /\ stage = "ran"
  /\ admitting = "no"
  /\ ~canceled /\ ~earlyReject
  /\ stage' = "allow"
  /\ AllowClient
  /\ UNCHANGED <<provider, closeVars, clientVars, deferralVars, refVars,
                 replyVars, eventVars>>

\* No resource deferred: the player is let in, and answered (Responded).
RespondNow ==
  /\ stage = "ran"
  /\ admitting = "no"
  /\ ~canceled /\ ~earlyReject
  /\ \A r \in Resource : states[r] = "none"
  /\ stage' = "allow"
  /\ AllowClient
  /\ UNCHANGED <<provider, closeVars, clientVars, deferralVars, refVars,
                 replyVars, eventVars>>

---------------------------------------------------------------------------
(* The rest of letting a player in, on the main thread.                    *)

\* The cancel handler owns didSucceed.
Succeeded_Not == succeeded  \* Mutant: *success is not set
Succeeded == succeeded \/ cancelSet

AllowSucceeds ==
  /\ admitting = "passed"
  /\ admitting' = "succeeded"
  /\ succeeded' = Succeeded
  /\ UNCHANGED <<stage, provider, closeVars, clientVars, deferralVars, replyVars,
                 passed, deferralPtr, refVars, eventVars>>

\* m_resolveCallback answers.
Resolved ==
  /\ admitting = "succeeded"
  /\ stage # "allow"
  /\ admitting' = "no"
  /\ IF cbRef THEN Answer("data") ELSE UNCHANGED replyVars
  /\ cbRef' = FALSE
  /\ held' = FALSE
  /\ UNCHANGED <<stage, provider, closeVars, clientVars, deferralVars, passed,
                 deferralPtr, succeeded, eventVars>>

\* The posted callback does.  addData dereferences *deferrals.
Responded ==
  /\ admitting = "succeeded"
  /\ stage = "allow"
  /\ stage' = "left"
  /\ admitting' = "no"
  /\ nullRead' = ~held
  /\ Answer("data")
  /\ cbRef' = FALSE
  /\ held' = FALSE
  /\ UNCHANGED <<provider, closeVars, clientVars, deferralVars, passed,
                 deferralPtr, succeeded, canceled, earlyReject>>

---------------------------------------------------------------------------
(* The deferral's callbacks, called by scripts on the main thread.         *)

\* A callback does something: the deferral exists and is not completed.
CanCall ==
  /\ stage \in {"event", "left"}
  /\ admitting = "no"
  /\ DeferralAlive
  /\ ~completed

\* operator[] of m_deferralStates makes the entry.
Touched(r) ==
  [states EXCEPT ![r] = IF @ = "none" THEN "pending" ELSE @]

Defer(r) ==
  /\ CanCall
  /\ states' = [states EXCEPT ![r] = "pending"]
  /\ UpdateDeferrals(states')
  /\ timer' = TRUE
  /\ UNCHANGED <<stage, provider, closeVars, ranEvents, cardHandler,
                 canceled, nullRead>>

UpdateMessage(r) ==
  /\ CanCall
  /\ states' = Touched(r)
  /\ UpdateDeferrals(states')
  /\ UNCHANGED <<stage, provider, closeVars, ranEvents, cardHandler,
                 timer, canceled, nullRead>>

\* PresentCard, with or without a callback for the player's response.  Before
\* the events have run the card is kept for RanEvents.
PresentCard(r, cb) ==
  /\ CanCall
  /\ states' = Touched(r)
  /\ cardHandler' = (cardHandler \/ cb)
  /\ IF ranEvents THEN Progress ELSE UNCHANGED replyVars
  /\ UNCHANGED <<stage, provider, closeVars, ranEvents, pending,
                 completed, timer, clientVars, admitVars, refVars, eventVars>>

\* done, with a reason (refuse) or without.
Done(r, refuse) ==
  /\ CanCall
  /\ states' = [states EXCEPT ![r] =
                  IF refuse \/ @ = "rejected" THEN "rejected" ELSE "done"]
  /\ UpdateDeferrals(states')
  /\ UNCHANGED <<stage, provider, closeVars, ranEvents, cardHandler,
                 timer, canceled, nullRead>>

\* The keep-alive timer of the deferral.
KeepAlive ==
  /\ MainIdle
  /\ timer
  /\ DeferralAlive
  /\ Progress
  /\ UNCHANGED <<stage, provider, closeVars, clientVars, deferralVars,
                 admitVars, refVars, eventVars>>

---------------------------------------------------------------------------
(* The connection, the registry and time.                                  *)

\* The TCP thread finds the connection closed: the cancel handler runs.  It
\* locks the client and tests *didSucceed, without a lock against the main
\* thread ...
OnClose ==
  /\ ~closed
  /\ closed' = TRUE
  /\ closing' = CASE ~cancelSet -> "no"
                  [] cancelSet /\ ~Alive -> "gone"
                  [] cancelSet /\ Alive -> IF succeeded THEN "spared" ELSE "doomed"
  /\ UNCHANGED <<stage, provider, cancelSet, clientVars, deferralVars, replyVars,
                 admitVars, refVars, eventVars>>

\* ... removes the client if it was not let in by then ...
CloseRemoves ==
  /\ closing = "doomed"
  /\ closing' = "spared"
  /\ RemoveClient
  /\ UNCHANGED <<stage, provider, closed, cancelSet, deferralVars, replyVars,
                 admitVars, refVars, eventVars>>

\* ... and takes away the deferral and the way to answer.
CloseEnds ==
  /\ closing \in {"gone", "spared"}
  /\ closing' = "no"
  /\ cancelSet' = FALSE
  /\ cbRef' = FALSE
  /\ held' = FALSE
  /\ UNCHANGED <<stage, provider, closed, clientVars, deferralVars, replyVars,
                 admitVars, eventVars>>

\* Another initConnect with the same guid: DropClient from a pool thread.
Supersede ==
  /\ registered
  /\ ~dropping
  /\ dropping' = TRUE
  /\ dropQueued' = TRUE
  /\ UNCHANGED <<stage, provider, closeVars, old, oldDrop, registered,
                 signalled, lastSeen, connected, deferralVars, replyVars,
                 admitVars, refVars, eventVars>>

\* DropClientInternal: OnDrop, then RemoveClient of a dropping client.
DropClientInternal ==
  /\ MainIdle
  /\ dropQueued
  /\ dropQueued' = FALSE
  /\ signalled' = TRUE
  /\ registered' = FALSE
  /\ old' = FALSE
  /\ UNCHANGED <<stage, provider, closeVars, oldDrop, dropping,
                 lastSeen, connected, deferralVars, replyVars, admitVars,
                 refVars, eventVars>>

\* The same for the older client: the entry of the guid goes.
DropOldInternal ==
  /\ MainIdle
  /\ oldDrop
  /\ oldDrop' = FALSE
  /\ old' = FALSE
  /\ registered' = FALSE
  /\ UNCHANGED <<stage, provider, closeVars, dropping, dropQueued,
                 signalled, lastSeen, connected, deferralVars, replyVars,
                 admitVars, refVars, eventVars>>

\* RemoveClient of the older client from elsewhere: its own request, a
\* handshake or a time-out.
RemoveOld ==
  /\ old \/ oldDrop
  /\ old' = FALSE
  /\ registered' = FALSE
  /\ UNCHANGED <<stage, provider, closeVars, oldDrop, dropping,
                 dropQueued, signalled, lastSeen, connected, deferralVars,
                 replyVars, admitVars, refVars, eventVars>>

\* Client::IsDead of a client that still has a temporary net id.
IsDead_Never == FALSE  \* Mutant: clients that have not connected never die
IsDead == lastSeen # "recent"

\* ProcessServerFrame times the client out: DropClient on the main thread.
TimeOut ==
  /\ MainIdle
  /\ registered
  /\ ~dropping
  /\ ~connected
  /\ IsDead
  /\ dropping' = TRUE
  /\ signalled' = TRUE
  /\ registered' = FALSE
  /\ UNCHANGED <<stage, provider, closeVars, old, oldDrop, dropQueued,
                 lastSeen, connected, deferralVars, replyVars, admitVars,
                 refVars, eventVars>>

\* The client is not seen for CLIENT_VERY_DEAD_TIMEOUT.  As long as its
\* deferral exists every tick touches it.
Elapse ==
  /\ registered
  /\ ~connected
  /\ lastSeen = "recent"
  /\ ~(deferralPtr /\ DeferralAlive /\ ~dropping)
  /\ lastSeen' = "old"
  /\ UNCHANGED <<stage, provider, closeVars, old, oldDrop, registered,
                 dropping, dropQueued, signalled, connected, deferralVars,
                 replyVars, admitVars, refVars, eventVars>>

\* The ENet handshake of a client that has passed validation.
Handshake ==
  /\ registered
  /\ passed
  /\ ~connected
  /\ connected' = TRUE
  /\ lastSeen' = "recent"
  /\ UNCHANGED <<stage, provider, closeVars, old, oldDrop, registered,
                 dropping, dropQueued, signalled, deferralVars, replyVars,
                 admitVars, refVars, eventVars>>

\* A handshake for the guid with another token, before the client has passed
\* validation, or when there is no slot left for it.
HandshakeRefused ==
  /\ registered
  /\ RemoveClient
  /\ UNCHANGED <<stage, provider, closeVars, deferralVars, replyVars,
                 admitVars, refVars, eventVars>>

---------------------------------------------------------------------------
HandlerNext ==
  \/ RefuseRequest \/ DropOldClient \/ MakeClient \/ GameNameMismatch \/ Touch
  \/ AwaitProvider \/ AuthPass \/ AuthFail \/ AuthBail \/ PostConnecting

MainNext ==
  \/ RaiseConnecting \/ RaiseTooLate \/ CancelEvent \/ RanEvents
  \/ RespondError \/ RespondLater \/ RespondNow
  \/ AllowSucceeds \/ Resolved \/ Responded

ScriptNext ==
  \/ \E r \in Resource : Defer(r) \/ UpdateMessage(r)
  \/ \E r \in Resource, b \in BOOLEAN : PresentCard(r, b) \/ Done(r, b)
  \/ KeepAlive

OtherNext ==
  \/ OnClose \/ CloseRemoves \/ CloseEnds
  \/ Supersede \/ DropClientInternal \/ DropOldInternal
  \/ RemoveOld \/ TimeOut \/ Elapse \/ Handshake \/ HandshakeRefused

Next == HandlerNext \/ MainNext \/ ScriptNext \/ OtherNext

Spec == Init /\ [][Next]_vars

\* The threads go on, the providers answer, time passes, and every resource
\* that deferred the player finally calls done and does not go on deferring.
Fairness ==
  /\ WF_vars(HandlerNext)
  /\ WF_vars(RaiseConnecting \/ RaiseTooLate)
  /\ WF_vars(RanEvents)
  /\ WF_vars(RespondError \/ RespondLater \/ RespondNow)
  /\ WF_vars(AllowSucceeds \/ Resolved \/ Responded)
  /\ WF_vars(CloseRemoves \/ CloseEnds)
  /\ \A r \in Resource :
       /\ WF_vars(stage = "left" /\ states[r] = "pending"
                    /\ \E b \in BOOLEAN : Done(r, b))
       /\ <>[][~Defer(r)]_vars
  /\ WF_vars(DropClientInternal)
  /\ WF_vars(DropOldInternal)
  /\ WF_vars(TimeOut)
  /\ WF_vars(Elapse)

FairSpec == Spec /\ Fairness

---------------------------------------------------------------------------
(* Properties.                                                             *)

\* Every variable has its type.
TypeOK ==
  /\ stage \in Stages
  /\ provider \in 0 .. Providers
  /\ states \in [Resource -> {"none", "pending", "done", "rejected"}]
  /\ lastSeen \in {"never", "recent", "old"}
  /\ ends \in Nat
  /\ answer \in {"none", "data", "error"}
  /\ closing \in {"no", "gone", "spared", "doomed"}
  /\ admitting \in {"no", "passed", "succeeded"}
  /\ \A b \in {closed, cancelSet, succeeded, old, oldDrop, registered, dropping,
               dropQueued, signalled, passed, connected, deferralPtr, held, cbRef,
               ranEvents, pending, completed, cardHandler, timer, canceled,
               earlyReject, late, nullRead} : b \in BOOLEAN

\* A client that may join is one every resource agreed to: the event was not
\* canceled and no deferral is open or rejected, however the callbacks, the
\* drops and the closing of the connection interleave.  It speaks of the time
\* after the posted callback.  Inside it (stage "ran") there is a window: a
\* resource that called done lets in a player whose event another one canceled,
\* until RespondError removes the client.
AdmittedUnanimously ==
  stage = "left" /\ passed /\ registered =>
    /\ ~canceled
    /\ \A r \in Resource : states[r] \in {"none", "done"}

\* "some code expects OnDrop to follow any OnClientCreated": a client that was
\* made and is not alive any more has raised OnDrop.
DropFollowsCreate ==
  stage \notin {"new", "refused", "looked"} /\ ~Alive => signalled

\* The end of the HTTP connection, which follows every answer, never takes an
\* admitted client out of the registry, provided that it comes after allowClient.
\* One that comes during it may: the cancel handler tests *didSucceed before it is
\* set and removes the client that has passed.
AdmittedSurvivesClose ==
  [][OnClose /\ passed /\ admitting # "passed" => closing' # "doomed"]_vars

\* The player is told the truth: whoever was refused cannot join, and whoever
\* was let in can, as long as the client is in the registry.
AnswerHonest ==
  registered =>
    /\ answer = "error" => ~passed
    /\ answer = "data" => passed

\* The playerConnecting event, once posted, leads to an answer, unless the
\* connection is closed or the client removed meanwhile.
EventuallyAnswered ==
  (stage = "posted") ~> (ends > 0 \/ closed \/ ~registered)

\* No ghosts: a client in the registry connects or leaves it.
NoGhosts == registered ~> (connected \/ ~registered)

\* "was the deferral already completed/canceled this frame? if so, just don't
\* respond at all": the response is ended once, and nothing follows its end.
AnsweredOnce == ends <= 1 /\ ~late

\* What is left of it: the response is ended a second time, or written to after
\* its end, only for a player whose event was canceled or who was rejected
\* inside it, and never a third time.
OnlyRefusalsRepeat ==
  /\ ends <= 2
  /\ ~AnsweredOnce => canceled \/ earlyReject

\* *deferrals is null where addData reads it only if the connection was closed
\* while playerConnecting ran: a deferral that was completed there is not read.
NullOnlyIfClosed == nullRead => closed

===========================================================================
