-------------------------- MODULE ContainerProofs --------------------------
(***************************************************************************)
(* Option<DynObject<dyn Trait, S>> implements Option<Box<dyn Trait>>: each *)
(* operation of DynObject is an operation of Container, or changes nothing *)
(* that the owner sees.                                                    *)
(***************************************************************************)
EXTENDS DynObjectProofs

Dying == {"drop", "insert"}

(* LifeOf, read off the owner of the object. *)
LifeFacts ==
    /\ \A v \in Vals : v \in client \/ boxed[v] # None => LifeOf(v) = "client"
    /\ \A s \in Slots, v \in Vals : Held(s) = v =>
          LifeOf(v) = IF phase[s] \in Dying THEN "dying" ELSE "held"
    /\ \A v \in Vals : v \notin client /\ boxed[v] = None /\ (\A s \in Slots : Held(s) # v)
          => LifeOf(v) = "gone"

LEMMA Lives == IInv => LifeFacts
<1> SUFFICES ASSUME IInv PROVE LifeFacts
  OBVIOUS
<1>1. \A v \in Vals : v \in client \/ boxed[v] # None => LifeOf(v) = "client"
  BY DEF LifeOf
<1>2. ASSUME NEW s \in Slots, NEW v \in Vals, Held(s) = v
      PROVE  LifeOf(v) = IF phase[s] \in Dying THEN "dying" ELSE "held"
  <2>1. Full(s)
    BY <1>2, Separation, NoneAssumption
  <2>2. v \notin client /\ boxed[v] = None /\ \A t \in Slots : t # s => Held(t) # v
    BY <1>2, <2>1, HeldInVals
  <2> QED
    BY <1>2, <2>2 DEF LifeOf, Dying
<1>3. \A v \in Vals : v \notin client /\ boxed[v] = None /\ (\A s \in Slots : Held(s) # v)
          => LifeOf(v) = "gone"
  BY DEF LifeOf
<1> QED
  BY <1>1, <1>2, <1>3 DEF LifeFacts

(* An object whose owner does nothing with it. *)
LEMMA SameLife ==
    ASSUME NEW w \in Vals, w \in client' <=> w \in client, boxed'[w] = None <=> boxed[w] = None,
           \A s \in Slots : Held(s)' = w <=> Held(s) = w,
           \A s \in Slots : Held(s) = w => (phase'[s] \in Dying <=> phase[s] \in Dying)
    PROVE  LifeOf(w)' = LifeOf(w)
BY DEF LifeOf, Dying

LEMMA Primed == IInv' => LifeFacts'
BY Lives, PTL

-----------------------------------------------------------------------------
(* Operations that the owner does not see                                  *)

LEMMA Unseen ==
    ASSUME Kept({}), \A w \in Vals : LifeOf(w)' = LifeOf(w)
    PROVE  UNCHANGED Places!cvars
<1>1. [s \in Slots |-> Held(s)]' = [s \in Slots |-> Held(s)]
  BY DEF Kept
<1>2. [w \in Vals |-> LifeOf(w)]' = [w \in Vals |-> LifeOf(w)]
  OBVIOUS
<1> QED
  BY <1>1, <1>2 DEF Places!cvars

(* Calls, borrows and pinning. *)
LEMMA CallMap ==
    ASSUME IInv, NEW s \in Slots, phase[s] \notin Dying, NEW ph, ph \notin Dying,
           phase' = [phase EXCEPT ![s] = ph] \/ phase' = phase,
           UNCHANGED <<obj, heap, client, boxed>>
    PROVE  UNCHANGED Places!cvars
<1>1. Kept({}) /\ \A t \in Slots : Held(t)' = Held(t)
  BY DEF Kept, Held, Data
<1>2. \A t \in Slots : phase'[t] \in Dying <=> phase[t] \in Dying
  BY DEF IInv, TypeOK
<1>3. \A w \in Vals : LifeOf(w)' = LifeOf(w)
  BY <1>1, <1>2, SameLife
<1> QED
  BY <1>1, <1>3, Unseen

LEMMA BoxNewMap ==
    ASSUME IInv, NEW v \in Vals, box_new(v)
    PROVE  UNCHANGED Places!cvars
<1>1. IInv' /\ Kept({})
  BY BoxNewStep
<1>2. PICK p \in AllocPtrs(TypeOf[v]) : boxed' = [boxed EXCEPT ![v] = p]
  BY DEF box_new
<1>3. v \in client /\ client' = client \ {v} /\ phase' = phase
  BY DEF box_new
<1>4. boxed'[v] # None
  BY <1>2, NoneAssumption DEF AllocPtrs, IInv, TypeOK
<1>5. LifeOf(v)' = LifeOf(v)
  BY <1>1, <1>3, <1>4, Lives, Primed DEF LifeFacts
<1>6. \A w \in Vals : w # v => LifeOf(w)' = LifeOf(w)
  <2> TAKE w \in Vals
  <2> HAVE w # v
  <2>1. (w \in client' <=> w \in client) /\ boxed'[w] = boxed[w]
    BY <1>2, <1>3 DEF IInv, TypeOK
  <2> QED
    BY <2>1, <1>1, <1>3, SameLife DEF Kept
<1> QED
  BY <1>1, <1>5, <1>6, Unseen

-----------------------------------------------------------------------------
(* Objects that enter a slot                                               *)

(* v, owned by the client, goes into slot s, whose object, if there is one, *)
(* has no destructor.                                                      *)
LEMMA PutMap ==
    ASSUME IInv, IInv', NEW s \in Slots, NEW v \in Vals, Idle(s), ~HasDropFn(s),
           v \in client \/ boxed[v] # None,
           Held(s)' = v, Kept({s}), phase' = phase,
           client' \ {v} = client \ {v}, boxed' = [boxed EXCEPT ![v] = None]
    PROVE  Places!Put(s, v)
<1> DEFINE D == {w \in Vals : NeedsDrop[TypeOf[w]]}
<1>1. LifeOf(v) = "client" /\ LifeOf(v)' = "held"
  BY Lives, Primed DEF LifeFacts, Idle, Dying
<1>2. Held(s) \in (Vals \ D) \cup {None} /\ Held(s) # v
  <2>1. CASE Full(s)
    BY <2>1, HeldInVals
  <2>2. CASE ~Full(s)
    BY <2>2, Separation, NoneAssumption
  <2> QED
    BY <2>1, <2>2
<1>3. \A w \in Vals : w # v => boxed'[w] = boxed[w] /\ (w \in client' <=> w \in client)
  BY DEF IInv, TypeOK
<1>4. \A w \in Vals : w # v /\ w # Held(s) => LifeOf(w)' = LifeOf(w)
  <2> TAKE w \in Vals
  <2> HAVE w # v /\ w # Held(s)
  <2>1. \A t \in Slots : Held(t)' = w <=> Held(t) = w
    BY DEF Kept
  <2> QED
    BY <2>1, <1>3, SameLife
<1>5. \A w \in Vals : w = Held(s) => LifeOf(w)' = "gone"
  <2> TAKE w \in Vals
  <2> HAVE w = Held(s)
  <2>1. Full(s) /\ w # v
    BY <1>2, Separation, NoneAssumption
  <2>2. w \notin client /\ boxed[w] = None /\ \A t \in Slots : t # s => Held(t) # w
    BY <2>1, HeldInVals
  <2>3. \A t \in Slots : Held(t)' # w
    BY <2>1, <2>2 DEF Kept
  <2> QED
    BY <2>1, <2>2, <2>3, <1>3, Primed DEF LifeFacts
<1>6. [t \in Slots |-> Held(t)]' = [[t \in Slots |-> Held(t)] EXCEPT ![s] = v]
  BY DEF Kept
<1>7. Places!Killed(s) = IF Held(s) = None THEN [w \in Vals |-> LifeOf(w)]
                         ELSE [[w \in Vals |-> LifeOf(w)] EXCEPT ![Held(s)] = "gone"]
  BY DEF Places!Killed
<1>8. [w \in Vals |-> LifeOf(w)]' = [Places!Killed(s) EXCEPT ![v] = "held"]
  BY <1>1, <1>2, <1>4, <1>5, <1>7, NoneAssumption
<1> QED
  BY <1>1, <1>2, <1>6, <1>8 DEF Places!Put

LEMMA NewMap ==
    ASSUME IInv, NEW s \in Slots, NEW v \in Vals, new(s, v)
    PROVE  Places!Put(s, v)
<1>1. IInv' /\ Held(s)' = v /\ Kept({s})
  BY NewStep
<1>2. boxed' = [boxed EXCEPT ![v] = None] /\ client' = client \ {v}
  BY DEF new, IInv, TypeOK, OwnedOnce
<1> QED
  BY <1>1, <1>2, PutMap DEF new, HasDropFn

LEMMA FromBoxMap ==
    ASSUME IInv, NEW s \in Slots, NEW v \in Vals, from_box(s, v)
    PROVE  Places!Put(s, v)
<1>1. IInv' /\ Held(s)' = v /\ Kept({s})
  BY FromBoxStep
<1> QED
  BY <1>1, PutMap DEF from_box, HasDropFn

LEMMA InsertMap ==
    ASSUME IInv, NEW s \in Slots, NEW t \in Slots, NEW v \in Vals, insert(s, t, v)
    PROVE  Places!Put(s, v)
<1>1. IInv' /\ Held(s)' = v /\ Kept({s})
  BY InsertStep
<1>2. boxed' = [boxed EXCEPT ![v] = None] /\ client' = client \ {v}
  BY DEF insert, IInv, TypeOK, OwnedOnce
<1> QED
  BY <1>1, <1>2, PutMap DEF insert

(* The new object is put aside in t, and the destructor of the old one, in *)
(* s, starts.                                                              *)
LEMMA InsertStartMap ==
    ASSUME IInv, NEW s \in Slots, NEW t \in Slots, NEW v \in Vals, insert_start(s, t, v)
    PROVE  Places!BeginReplace(s, t, v)
<1>0. /\ s # t /\ ~Full(t) /\ Full(s) /\ Idle(s) /\ Idle(t) /\ HasDropFn(s) /\ v \in client
      /\ phase' = [phase EXCEPT ![s] = "insert", ![t] = "temp"]
      /\ client' = client \ {v} /\ boxed' = boxed
  BY DEF insert_start, HasDropFn
<1>1. IInv' /\ Held(t)' = v /\ Kept({t})
  BY InsertStartStep
<1>2. Held(t) = None /\ Held(s) \in Vals /\ NeedsDrop[TypeOf[Held(s)]] /\ Held(s) # v
  BY <1>0, Separation, HeldInVals
<1>3. Held(s)' = Held(s)
  BY <1>0, <1>1 DEF Kept
<1>4. /\ phase'[s] \in Dying /\ phase'[t] \notin Dying
      /\ \A u \in Slots : u # s => (phase'[u] \in Dying <=> phase[u] \in Dying)
  BY <1>0 DEF IInv, TypeOK, Idle, Dying
<1>5. LifeOf(v) = "client" /\ LifeOf(Held(s)) = "held"
  BY <1>0, <1>2, Lives DEF LifeFacts, Idle, Dying
<1>6. LifeOf(v)' = "held" /\ \A w \in Vals : w = Held(s) => LifeOf(w)' = "dying"
  BY <1>1, <1>3, <1>4, Primed DEF LifeFacts
<1>7. \A w \in Vals : w # v /\ w # Held(s) => LifeOf(w)' = LifeOf(w)
  <2> TAKE w \in Vals
  <2> HAVE w # v /\ w # Held(s)
  <2>1. \A u \in Slots : Held(u)' = w <=> Held(u) = w
    BY <1>1, <1>2, NoneAssumption DEF Kept
  <2>2. w \in client' <=> w \in client
    BY <1>0
  <2> QED
    BY <2>1, <2>2, <1>0, <1>4, SameLife
<1>8. [u \in Slots |-> Held(u)]' = [[u \in Slots |-> Held(u)] EXCEPT ![t] = v]
  BY <1>1 DEF Kept
<1>9. [w \in Vals |-> LifeOf(w)]'
         = [[w \in Vals |-> LifeOf(w)] EXCEPT ![Held(s)] = "dying", ![v] = "held"]
  BY <1>2, <1>6, <1>7
<1> QED
  BY <1>2, <1>5, <1>8, <1>9 DEF Places!BeginReplace

-----------------------------------------------------------------------------
(* Objects that leave a slot                                               *)

(* The state of every object but that of slot s, which becomes empty. *)
LEMMA OthersLive ==
    ASSUME IInv, NEW s \in Slots, Held(s)' = None, Kept({s}), NEW w \in Vals, w # Held(s),
           w \in client' <=> w \in client, boxed' = boxed,
           \A t \in Slots : t # s => phase'[t] = phase[t]
    PROVE  LifeOf(w)' = LifeOf(w)
<1>1. \A t \in Slots : Held(t)' = w <=> Held(t) = w
  BY NoneAssumption DEF Kept
<1>2. \A t \in Slots : Held(t) = w => phase'[t] = phase[t]
  OBVIOUS
<1> QED
  BY <1>1, <1>2, SameLife

LEMMA DowncastMap ==
    ASSUME IInv, NEW s \in Slots, NEW T \in Types, downcast(s, T)
    PROVE  Places!Take(s)
<1>0. /\ Full(s) /\ Idle(s) /\ client' = client \cup ({Held(s)} \cap Vals)
      /\ boxed' = boxed /\ phase' = phase
  BY DEF downcast
<1>1. IInv' /\ Held(s)' = None /\ Kept({s})
  BY DowncastStep
<1>2. Held(s) \in Vals /\ Held(s) \in client'
  BY <1>0, HeldInVals
<1>3. LifeOf(Held(s)) = "held" /\ \A w \in Vals : w = Held(s) => LifeOf(w)' = "client"
  BY <1>0, <1>1, <1>2, Lives, Primed DEF LifeFacts, Idle, Dying
<1>4. \A w \in Vals : w # Held(s) => LifeOf(w)' = LifeOf(w)
  BY <1>0, <1>1, OthersLive
<1>5. [t \in Slots |-> Held(t)]' = [[t \in Slots |-> Held(t)] EXCEPT ![s] = None]
  BY <1>1 DEF Kept
<1>6. [w \in Vals |-> LifeOf(w)]' = [[w \in Vals |-> LifeOf(w)] EXCEPT ![Held(s)] = "client"]
  BY <1>2, <1>3, <1>4
<1> QED
  BY <1>2, <1>3, <1>5, <1>6, NoneAssumption DEF Places!Take

LEMMA DropStartMap ==
    ASSUME IInv, NEW s \in Slots, drop_start(s)
    PROVE  Places!BeginDrop(s)
<1>0. /\ Full(s) /\ Idle(s) /\ HasDropFn(s) /\ client' = client /\ boxed' = boxed
      /\ phase' = [phase EXCEPT ![s] = "drop"]
  BY DEF drop_start, HasDropFn
<1>1. IInv' /\ \A t \in Slots : Held(t)' = Held(t)
  BY DropStartStep DEF Kept
<1>2. /\ Held(s) \in Vals /\ NeedsDrop[TypeOf[Held(s)]]
      /\ \A t \in Slots : t # s => Held(t) # Held(s)
  BY <1>0, HeldInVals
<1>3. phase'[s] \in Dying /\ phase[s] \notin Dying /\ \A t \in Slots : t # s => phase'[t] = phase[t]
  BY <1>0 DEF IInv, TypeOK, Idle, Dying
<1>4. LifeOf(Held(s)) = "held" /\ \A w \in Vals : w = Held(s) => LifeOf(w)' = "dying"
  BY <1>1, <1>2, <1>3, Lives, Primed DEF LifeFacts
<1>5. \A w \in Vals : w # Held(s) => LifeOf(w)' = LifeOf(w)
  BY <1>0, <1>1, <1>3, SameLife
<1>6. [t \in Slots |-> Held(t)]' = [t \in Slots |-> Held(t)]
  BY <1>1
<1>7. [w \in Vals |-> LifeOf(w)]' = [[w \in Vals |-> LifeOf(w)] EXCEPT ![Held(s)] = "dying"]
  BY <1>2, <1>4, <1>5
<1> QED
  BY <1>2, <1>4, <1>6, <1>7 DEF Places!BeginDrop

(* The storage is released, or its block lost when the destructor panics. *)
LEMMA DropEndMap ==
    ASSUME IInv, IInv', NEW s \in Slots, Full(s),
           phase[s] = "drop" \/ (Idle(s) /\ ~HasDropFn(s)),
           Held(s)' = None, Kept({s}), phase' = [phase EXCEPT ![s] = "idle"],
           UNCHANGED <<client, boxed>>
    PROVE  Places!EndDrop(s)
<1>1. /\ Held(s) \in Vals /\ Held(s) \notin client /\ boxed[Held(s)] = None
      /\ NeedsDrop[TypeOf[Held(s)]] <=> HasDropFn(s)
      /\ \A t \in Slots : t # s => Held(t) # Held(s)
  BY HeldInVals
<1>2. \A t \in Slots : t # s => phase'[t] = phase[t]
  BY DEF IInv, TypeOK
<1>3. \/ NeedsDrop[TypeOf[Held(s)]] /\ LifeOf(Held(s)) = "dying"
      \/ ~NeedsDrop[TypeOf[Held(s)]] /\ LifeOf(Held(s)) = "held"
  <2>1. phase[s] = "drop" => HasDropFn(s)
    BY DEF IInv, PhasesOK
  <2> QED
    BY <2>1, <1>1, Lives DEF LifeFacts, Idle, Dying
<1>4. \A t \in Slots : Held(t)' # Held(s)
  BY <1>1, NoneAssumption DEF Kept
<1>5. \A w \in Vals : w = Held(s) => LifeOf(w)' = "gone"
  BY <1>1, <1>4, Primed DEF LifeFacts
<1>6. \A w \in Vals : w # Held(s) => LifeOf(w)' = LifeOf(w)
  BY <1>2, OthersLive
<1>7. [t \in Slots |-> Held(t)]' = [[t \in Slots |-> Held(t)] EXCEPT ![s] = None]
  BY DEF Kept
<1>8. [w \in Vals |-> LifeOf(w)]' = [[w \in Vals |-> LifeOf(w)] EXCEPT ![Held(s)] = "gone"]
  BY <1>1, <1>5, <1>6
<1> QED
  BY <1>1, <1>3, <1>7, <1>8 DEF Places!EndDrop

LEMMA DropFinishMap ==
    ASSUME IInv, NEW s \in Slots, drop_finish(s)
    PROVE  Places!EndDrop(s)
<1>1. IInv' /\ Held(s)' = None /\ Kept({s})
  BY DropFinishStep
<1>2. Full(s)
  BY DEF drop_finish, IInv, PhasesOK
<1> QED
  BY <1>1, <1>2, DropEndMap DEF drop_finish

LEMMA DropUnwindMap ==
    ASSUME IInv, NEW s \in Slots, drop_unwind(s)
    PROVE  Places!EndDrop(s)
<1>1. IInv' /\ Held(s)' = None /\ Kept({s})
  BY DropUnwindStep
<1>2. Full(s)
  BY DEF drop_unwind, IInv, PhasesOK
<1> QED
  BY <1>1, <1>2, DropEndMap DEF drop_unwind

LEMMA ClientDropMap ==
    ASSUME IInv, NEW v \in Vals, client_drop(v)
    PROVE  Places!ClientDrop(v)
<1>0. /\ v \in client \/ boxed[v] # None
      /\ client' = client \ {v} /\ boxed' = [boxed EXCEPT ![v] = None] /\ phase' = phase
  BY DEF client_drop
<1>1. IInv' /\ \A t \in Slots : Held(t)' = Held(t)
  BY ClientDropStep DEF Kept
<1>2. \A t \in Slots : Held(t) # v
  BY <1>0 DEF IInv, OwnedOnce
<1>3. boxed'[v] = None /\ \A w \in Vals : w # v => boxed'[w] = boxed[w]
  BY <1>0 DEF IInv, TypeOK
<1>4. LifeOf(v) = "client" /\ LifeOf(v)' = "gone"
  BY <1>0, <1>1, <1>2, <1>3, Lives, Primed DEF LifeFacts
<1>5. \A w \in Vals : w # v => LifeOf(w)' = LifeOf(w)
  BY <1>0, <1>1, <1>3, SameLife
<1>6. [t \in Slots |-> Held(t)]' = [t \in Slots |-> Held(t)]
  BY <1>1
<1>7. [w \in Vals |-> LifeOf(w)]' = [[w \in Vals |-> LifeOf(w)] EXCEPT ![v] = "gone"]
  BY <1>4, <1>5
<1> QED
  BY <1>4, <1>6, <1>7 DEF Places!ClientDrop

-----------------------------------------------------------------------------
(* Objects that go from slot to slot                                       *)

LEMMA MoveMap ==
    ASSUME IInv, NEW s \in Slots, NEW t \in Slots, move(s, t)
    PROVE  Places!Transfer(s, t)
<1>0. /\ Full(s) /\ Idle(s) /\ Idle(t) /\ ~Full(t) /\ s # t
      /\ client' = client /\ boxed' = boxed /\ phase' = phase
  BY DEF move
<1>1. IInv' /\ Held(t)' = Held(s) /\ Held(s)' = None /\ Kept({s, t})
  BY MoveStep
<1>2. Held(t) = None /\ Held(s) \in Vals /\ \A u \in Slots : u # s => Held(u) # Held(s)
  BY <1>0, Separation, HeldInVals
<1>3. LifeOf(Held(s)) = "held" /\ \A w \in Vals : w = Held(s) => LifeOf(w)' = "held"
  BY <1>0, <1>1, <1>2, Lives, Primed DEF LifeFacts, Idle, Dying
<1>4. \A w \in Vals : w # Held(s) => LifeOf(w)' = LifeOf(w)
  <2> TAKE w \in Vals
  <2> HAVE w # Held(s)
  <2>1. \A u \in Slots : Held(u)' = w <=> Held(u) = w
    BY <1>1, <1>2, NoneAssumption DEF Kept
  <2> QED
    BY <2>1, <1>0, SameLife
<1>5. [u \in Slots |-> Held(u)]'
         = [[u \in Slots |-> Held(u)] EXCEPT ![s] = None, ![t] = Held(s)]
  BY <1>0, <1>1 DEF Kept
<1>6. [w \in Vals |-> LifeOf(w)]' = [w \in Vals |-> LifeOf(w)]
  BY <1>3, <1>4
<1> QED
  BY <1>2, <1>3, <1>5, <1>6, NoneAssumption DEF Places!Transfer

(* The new object takes the place of the old one, whose destructor has     *)
(* returned or panicked.                                                   *)
LEMMA InsertEndMap ==
    ASSUME IInv, IInv', NEW s \in Slots, InsertEnd(s),
           \A a \in Slots : a = source[s] =>
              Held(s)' = Held(a) /\ Held(a)' = None /\ Kept({s, a}),
           UNCHANGED <<client, boxed>>
    PROVE  \E a \in Slots : Places!EndReplace(s, a)
<1>0. PICK a \in Slots : a = source[s] /\ phase[s] = "insert" /\ phase[a] = "temp" /\ a # s
                         /\ Full(s) /\ Full(a) /\ HasDropFn(s)
  BY DEF InsertEnd, IInv, PhasesOK
<1>1. Held(s)' = Held(a) /\ Held(a)' = None /\ Kept({s, a})
  BY <1>0
<1>2. /\ phase'[s] = "idle"
      /\ \A u \in Slots : u # s /\ u # a => phase'[u] = phase[u]
  BY <1>0 DEF InsertEnd, IInv, TypeOK
<1>3. /\ Held(s) \in Vals /\ NeedsDrop[TypeOf[Held(s)]] /\ Held(a) \in Vals
      /\ Held(s) \notin client /\ boxed[Held(s)] = None
      /\ \A u \in Slots : u # s => Held(u) # Held(s)
      /\ \A u \in Slots : u # a => Held(u) # Held(a)
  BY <1>0, HeldInVals
<1>4. LifeOf(Held(s)) = "dying" /\ LifeOf(Held(a)) = "held"
  BY <1>0, <1>3, Lives DEF LifeFacts, Dying
<1>5. \A w \in Vals : w = Held(a) => LifeOf(w)' = "held"
  BY <1>1, <1>2, Primed DEF LifeFacts, Dying
<1>6. \A w \in Vals : w = Held(s) => LifeOf(w)' = "gone"
  <2>1. \A u \in Slots : Held(u)' # Held(s)
    BY <1>0, <1>1, <1>3, NoneAssumption DEF Kept
  <2> QED
    BY <2>1, <1>3, Primed DEF LifeFacts
<1>7. \A w \in Vals : w # Held(s) /\ w # Held(a) => LifeOf(w)' = LifeOf(w)
  <2> TAKE w \in Vals
  <2> HAVE w # Held(s) /\ w # Held(a)
  <2>1. \A u \in Slots : Held(u)' = w <=> Held(u) = w
    BY <1>1, NoneAssumption DEF Kept
  <2>2. \A u \in Slots : Held(u) = w => phase'[u] = phase[u]
    BY <1>2
  <2> QED
    BY <2>1, <2>2, SameLife
<1>8. [u \in Slots |-> Held(u)]'
         = [[u \in Slots |-> Held(u)] EXCEPT ![s] = Held(a), ![a] = None]
  BY <1>0, <1>1 DEF Kept
<1>9. [w \in Vals |-> LifeOf(w)]' = [[w \in Vals |-> LifeOf(w)] EXCEPT ![Held(s)] = "gone"]
  BY <1>3, <1>4, <1>5, <1>6, <1>7
<1>10. Places!EndReplace(s, a)
  BY <1>3, <1>4, <1>8, <1>9, NoneAssumption DEF Places!EndReplace
<1> QED
  BY <1>10

-----------------------------------------------------------------------------
(* The refinement                                                          *)

LEMMA InitMap == Init => Places!CInit
<1> SUFFICES ASSUME Init PROVE Places!CInit
  OBVIOUS
<1>1. \A s \in Slots : Held(s) = None
  BY NoneAssumption DEF Init, Held, Data, NoObj
<1>2. \A v \in Vals : LifeOf(v) = "client"
  BY DEF Init, LifeOf
<1> QED
  BY <1>1, <1>2 DEF Places!CInit

LEMMA NextMap == IInv /\ [Next]_vars => [Places!CNext]_(Places!cvars)
<1> SUFFICES ASSUME IInv, [Next]_vars PROVE Places!CNext \/ UNCHANGED Places!cvars
  OBVIOUS
<1>1. ASSUME NEW s \in Slots, NEW v \in Vals, new(s, v) PROVE Places!CNext
  BY <1>1, NewMap DEF Places!CNext
<1>2. ASSUME NEW s \in Slots, NEW v \in Vals, from_box(s, v) PROVE Places!CNext
  BY <1>2, FromBoxMap DEF Places!CNext
<1>3. ASSUME NEW s \in Slots, NEW t \in Slots, NEW v \in Vals, insert(s, t, v) PROVE Places!CNext
  BY <1>3, InsertMap DEF Places!CNext
<1>4. ASSUME NEW s \in Slots, NEW t \in Slots, NEW v \in Vals, insert_start(s, t, v)
      PROVE  Places!CNext
  BY <1>4, InsertStartMap DEF Places!CNext
<1>5. ASSUME NEW s \in Slots, insert_finish(s) PROVE Places!CNext
  <2>1. \E a \in Slots : Places!EndReplace(s, a)
    BY <1>5, InsertFinishStep, InsertEndMap DEF insert_finish
  <2> QED
    BY <2>1 DEF Places!CNext
<1>6. ASSUME NEW s \in Slots, insert_unwind(s) PROVE Places!CNext
  <2>1. \E a \in Slots : Places!EndReplace(s, a)
    BY <1>6, InsertUnwindStep, InsertEndMap DEF insert_unwind
  <2> QED
    BY <2>1 DEF Places!CNext
<1>7. ASSUME NEW s \in Slots, drop_start(s) PROVE Places!CNext
  BY <1>7, DropStartMap DEF Places!CNext
<1>8. ASSUME NEW s \in Slots, drop_finish(s) PROVE Places!CNext
  BY <1>8, DropFinishMap DEF Places!CNext
<1>9. ASSUME NEW s \in Slots, drop_unwind(s) PROVE Places!CNext
  BY <1>9, DropUnwindMap DEF Places!CNext
<1>10. ASSUME NEW s \in Slots, NEW recv \in {"Ref", "Mut", "Pinned"}, method(s, recv)
       PROVE  UNCHANGED Places!cvars
  BY <1>10, CallMap DEF method, Idle, Dying
<1>11. ASSUME NEW s \in Slots, NEW T \in Types, downcast_ref(s, T) PROVE UNCHANGED Places!cvars
  BY <1>11, CallMap DEF downcast_ref, Idle, Dying
<1>12. ASSUME NEW s \in Slots, NEW T \in Types, downcast_mut(s, T) PROVE UNCHANGED Places!cvars
  BY <1>11, <1>12 DEF downcast_mut
<1>13. ASSUME NEW s \in Slots, NEW T \in Types, downcast(s, T) PROVE Places!CNext
  BY <1>13, DowncastMap DEF Places!CNext
<1>14. ASSUME NEW s \in Slots, end_borrow(s) PROVE UNCHANGED Places!cvars
  BY <1>14, CallMap DEF end_borrow, Dying
<1>15. ASSUME NEW s \in Slots, NEW t \in Slots, move(s, t) PROVE Places!CNext
  BY <1>15, MoveMap DEF Places!CNext
<1>16. ASSUME NEW s \in Slots, pin(s) PROVE UNCHANGED Places!cvars
  BY <1>16, CallMap DEF pin, Idle, Dying
<1>17. ASSUME NEW v \in Vals, box_new(v) PROVE UNCHANGED Places!cvars
  BY <1>17, BoxNewMap
<1>18. ASSUME NEW v \in Vals, client_drop(v) PROVE Places!CNext
  BY <1>18, ClientDropMap DEF Places!CNext
<1>19. CASE UNCHANGED vars
  <2>1. Kept({}) /\ \A w \in Vals : LifeOf(w)' = LifeOf(w)
    BY <1>19 DEF vars, progVars, Kept, LifeOf, Held, Data
  <2> QED
    BY <2>1, Unseen
<1> QED
  BY <1>1, <1>2, <1>3, <1>4, <1>5, <1>6, <1>7, <1>8, <1>9, <1>10, <1>11, <1>12, <1>13, <1>14,
     <1>15, <1>16, <1>17, <1>18, <1>19 DEF Next

(* A place of type Option<DynObject> behaves like one of type              *)
(* Option<Box<dyn Trait>> for every storage: what the owner sees of        *)
(* DynObject::new, from_box, insert, downcast, of moves and of Drop, with  *)
(* or without panics, is what Container allows.                            *)
THEOREM BehavesLikeBox == Spec => ImplementsContainer
<1>1. Init => Places!CInit
  BY InitMap
<1>2. IInv /\ [Next]_vars => [Places!CNext]_(Places!cvars)
  BY NextMap
<1> QED
  BY <1>1, <1>2, Invariance, PTL DEF Spec, ImplementsContainer, Places!CSpec
=============================================================================
