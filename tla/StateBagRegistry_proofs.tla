--------------------- MODULE StateBagRegistry_proofs ---------------------
(***************************************************************************)
(* Proofs about an id of the state bag map, for every set of owners and    *)
(* bags: types on any number of threads, the rest where one thread does    *)
(* everything, as on a client.                                             *)
(***************************************************************************)
EXTENDS StateBagRegistry, TLAPS

LEMMA LookUpTypes ==
  ASSUME TypeOK, NEW th \in Threads, NEW o \in Owner \union {None}, LookUp(th, o)
  PROVE  TypeOK'
<1> USE DEF TypeOK, Labels, Goto, At
<1>1. CASE Found # None
  <2>1. Found \in Bag BY <1>1 DEF Found
  <2>2. /\ local' = [local EXCEPT ![th] = Found]
        /\ pc' = [pc EXCEPT ![th] = "disown"]
        /\ UNCHANGED <<entry, used>>
    BY <1>1 DEF LookUp
  <2>3. /\ caller' = [caller EXCEPT ![th] = o]
        /\ UNCHANGED <<holder, pre, erasure>>
    BY DEF LookUp
  <2> QED BY <2>1, <2>2, <2>3, ConstantsAssumption
<1>2. CASE Found = None
  <2>1. PICK b \in Bag : /\ used' = used \union {b}
                         /\ entry' = b
                         /\ local' = [local EXCEPT ![th] = b]
    BY <1>2 DEF LookUp
  <2>2. /\ pc' = [pc EXCEPT ![th] = "made"]
        /\ caller' = [caller EXCEPT ![th] = o]
        /\ UNCHANGED <<holder, pre, erasure>>
    BY <1>2 DEF LookUp
  <2> QED BY <2>1, <2>2, ConstantsAssumption
<1> QED BY <1>1, <1>2

LEMMA TypesNext ==
  ASSUME TypeOK, [Next]_vars
  PROVE  TypeOK'
<1>1. ASSUME NEW th \in Threads, NEW o \in Owner, Register(th, o) PROVE TypeOK'
  BY <1>1, LookUpTypes DEF Register
<1>2. ASSUME NEW th \in Threads, PreCreate(th) PROVE TypeOK'
  BY <1>2, LookUpTypes DEF PreCreate
<1> USE DEF TypeOK, Labels, Goto, At, refVars
<1>3. ASSUME NEW th \in Threads, Disown(th) PROVE TypeOK'
  BY <1>3 DEF Disown, Disowned
<1>4. ASSUME NEW th \in Threads, Spare(th) PROVE TypeOK'
  BY <1>4 DEF Spare, Spared
<1>5. ASSUME NEW th \in Threads, Return(th) PROVE TypeOK'
  <2>1. local[th] \in Bag BY <1>5 DEF Return
  <2>2. holder' \in [Owner -> Bag \union {None}] /\ pre' \subseteq Bag
    BY <1>5, <2>1 DEF Return
  <2> QED BY <1>5, <2>2, ConstantsAssumption DEF Return, Forget
<1>6. ASSUME NEW th \in Threads, UnregisterStateBag(th) PROVE TypeOK'
  BY <1>6 DEF UnregisterStateBag
<1>7. ASSUME NEW th \in Threads, NEW o \in Owner, Release(th, o) PROVE TypeOK'
  BY <1>7 DEF Release
<1>8. CASE Tick BY <1>8, ConstantsAssumption DEF Tick
<1>9. CASE Erase BY <1>9, ConstantsAssumption DEF Erase, Erased
<1>10. CASE UNCHANGED vars BY <1>10 DEF vars
<1> QED
  BY <1>1, <1>2, <1>3, <1>4, <1>5, <1>6, <1>7, <1>8, <1>9, <1>10 DEF Next, Continue

\* Every variable of the registry has its type, on any number of threads.
THEOREM TypeCorrect == Spec => []TypeOK
<1>1. Init => TypeOK BY DEF Init, TypeOK, Labels
<1>2. TypeOK /\ [Next]_vars => TypeOK' BY TypesNext
<1> QED BY <1>1, <1>2, PTL DEF Spec

---------------------------------------------------------------------------
(* One thread.                                                             *)

Unheld == \A o \in Owner : holder[o] = None

\* What the entry, the bags made ahead and the erasure list say of each other
\* at each point of a call.
EntryInv ==
  /\ pre \subseteq {entry}
  /\ pc["main"] \in {"disown", "made", "return"} => local["main"] = entry
  /\ pc["main"] = "disown" => caller["main"] # None
  /\ pc["main"] = "return" => pre = {} /\ (caller["main"] = None => Unheld)
  /\ pc["main"] \in {"made", "dying", "erase"} => Unheld /\ pre = {}
  /\ erasure => Unheld /\ pre = {} /\ pc["main"] \notin {"disown", "return"}

MainInv ==
  /\ TypeOK
  /\ LiveFound
  /\ OnlyOwnersHold
  /\ EntryInv

LEMMA LookUpMain ==
  ASSUME Threads = {"main"}, MainInv, NEW o \in Owner \union {None},
         LookUp("main", o), o = None => Found = None
  PROVE  MainInv'
<1> USE DEF MainInv, EntryInv, LiveFound, OnlyOwnersHold, Unheld
<1>1. TypeOK' BY LookUpTypes, ConstantsAssumption
<1>2. CASE Found # None
  <2>1. Found = entry /\ Alive(entry) BY <1>2 DEF Found
  <2>2. local["main"] = None BY DEF LookUp, At, TypeOK
  <2>3. ~erasure \/ (Unheld /\ pre = {}) OBVIOUS
  <2>4. ~erasure BY <1>2, <2>1, <2>2, <2>3 DEF Alive, Found
  <2> QED BY <1>1, <1>2, <2>1, <2>4, ConstantsAssumption
          DEF LookUp, Goto, TypeOK
<1>3. CASE Found = None
  <2>1. Unheld
    <3> SUFFICES ASSUME NEW x \in Owner, holder[x] # None PROVE FALSE OBVIOUS
    <3>1. entry = holder[x] OBVIOUS
    <3> QED BY <1>3, <3>1 DEF Found, Alive
  <2>2. pre = {}
    <3> SUFFICES ASSUME entry \in pre PROVE FALSE OBVIOUS
    <3>1. entry # None BY ConstantsAssumption DEF TypeOK
    <3> QED BY <1>3, <3>1 DEF Found, Alive
  <2> QED BY <1>1, <1>3, <2>1, <2>2, ConstantsAssumption
          DEF LookUp, Goto, TypeOK
<1> QED BY <1>2, <1>3

LEMMA MainNext ==
  ASSUME Threads = {"main"}, MainInv, [Next]_vars
  PROVE  MainInv'
<1>0. TypeOK' BY TypesNext DEF MainInv
<1>1. ASSUME NEW o \in Owner, Register("main", o) PROVE MainInv'
  BY <1>1, LookUpMain, ConstantsAssumption DEF Register
<1>2. CASE PreCreate("main")
  BY <1>2, LookUpMain DEF PreCreate
<1> USE DEF MainInv, EntryInv, LiveFound, OnlyOwnersHold, Unheld, Goto, At, refVars,
            TypeOK
<1>3. CASE Disown("main") BY <1>0, <1>3 DEF Disown, Disowned
<1>4. CASE Spare("main") BY <1>0, <1>4 DEF Spare, Spared
<1>5. CASE Return("main")
  <2>1. local["main"] = entry /\ entry # None /\ pre = {} /\ ~erasure
    BY <1>5 DEF Return
  <2>2. CASE caller["main"] = None
    BY <1>0, <1>5, <2>1, <2>2, ConstantsAssumption DEF Return, Forget
  <2>3. CASE caller["main"] # None
    BY <1>0, <1>5, <2>1, <2>3, ConstantsAssumption DEF Return, Forget
  <2> QED BY <2>2, <2>3
<1>6. CASE UnregisterStateBag("main") BY <1>0, <1>6 DEF UnregisterStateBag
<1>7. ASSUME NEW o \in Owner, Release("main", o) PROVE MainInv'
  <2>1. holder[o] = entry /\ pre = {} BY <1>7 DEF Release
  <2>2. \A x \in Owner : holder[x] \in {None, entry} OBVIOUS
  <2>3. LastOwner(o) => \A x \in Owner \ {o} : holder[x] = None
    BY <1>7, <2>1, <2>2 DEF LastOwner, Release
  <2> QED BY <1>0, <1>7, <2>1, <2>3, ConstantsAssumption DEF Release
<1>8. CASE Tick BY <1>0, <1>8 DEF Tick
<1>9. CASE Erase BY <1>0, <1>9 DEF Erase, Erased
<1>10. CASE UNCHANGED vars BY <1>10 DEF vars
<1> QED
  BY <1>1, <1>2, <1>3, <1>4, <1>5, <1>6, <1>7, <1>8, <1>9, <1>10 DEF Next, Continue

LEMMA MainInit == Init => MainInv
  BY ConstantsAssumption
  DEF Init, MainInv, TypeOK, Labels, LiveFound, OnlyOwnersHold, EntryInv, Unheld

\* On one thread GetStateBag finds the bag an owner holds: a destructor that
\* notes the id for erasure never costs a later bag of that id its entry.
THEOREM LiveStaysFound ==
  ASSUME Threads = {"main"}
  PROVE  Spec => []LiveFound
<1>1. MainInv /\ [Next]_vars => MainInv' BY MainNext
<1>2. MainInv => LiveFound BY DEF MainInv
<1> QED BY <1>1, <1>2, MainInit, PTL DEF Spec

\* On one thread the component gives up its own reference to a bag it made
\* ahead as soon as the bag has an owner.
THEOREM OwnersHoldAlone ==
  ASSUME Threads = {"main"}
  PROVE  Spec => []OnlyOwnersHold
<1>1. MainInv /\ [Next]_vars => MainInv' BY MainNext
<1>2. MainInv => OnlyOwnersHold BY DEF MainInv
<1> QED BY <1>1, <1>2, MainInit, PTL DEF Spec

===========================================================================
