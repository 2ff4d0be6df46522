--------------------------- MODULE LatentEvents ---------------------------
(***************************************************************************)
(* What the latent-event transfer promises to scripts: an event reaches    *)
(* only endpoints it was addressed to, after it was triggered, and at most *)
(* once as long as the endpoint has not dropped the sender.                *)
(***************************************************************************)
EXTENDS Integers

CONSTANTS Target, Ids

VARIABLES
  eventId,   \* number of events triggered
  audience,  \* audience[e]: whom event e is for
  sources,   \* endpoints that have not dropped the sender
  queued     \* queued[t][e]: how often t queued event e

vars == <<eventId, audience, sources, queued>>

Init ==
  /\ eventId = 0
  /\ audience = [e \in Ids |-> {}]
  /\ sources = Target
  /\ queued = [t \in Target |-> [e \in Ids |-> 0]]

Trigger(ts) ==
  /\ eventId \in Ids
  /\ eventId' = eventId + 1
  /\ audience' = [audience EXCEPT ![eventId] = ts]
  /\ UNCHANGED <<sources, queued>>

Queue(e, t) ==
  /\ e < eventId
  /\ t \in audience[e]
  /\ t \in sources => queued[t][e] = 0
  /\ queued' = [queued EXCEPT ![t][e] = @ + 1]
  /\ UNCHANGED <<eventId, audience, sources>>

Drop(t) ==
  /\ t \in sources
  /\ sources' = sources \ {t}
  /\ UNCHANGED <<eventId, audience, queued>>

Next ==
  \/ \E ts \in SUBSET Target : Trigger(ts)
  \/ \E e \in Ids, t \in Target : Queue(e, t)
  \/ \E t \in Target : Drop(t)

Spec == Init /\ [][Next]_vars

===========================================================================
