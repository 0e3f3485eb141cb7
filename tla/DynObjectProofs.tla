-------------------------- MODULE DynObjectProofs --------------------------
(***************************************************************************)
(* The safety properties of DynObject, for all types, storages, slots and  *)
(* objects.                                                                *)
(***************************************************************************)
EXTENDS DynObject, TLAPS

(* The boxes of the client are what std's Box makes of them. *)
BoxesOK ==
    \A v \in Vals : boxed[v] # None =>
        \/ boxed[v] = Dangling /\ SizeOf[TypeOf[v]] = 0
        \/ /\ boxed[v] \in Blocks /\ SizeOf[TypeOf[v]] # 0
           /\ heap[boxed[v]].layout = LayoutOf(TypeOf[v]) /\ heap[boxed[v]].data = v

(* A callback in progress has its object, and an insert its temporary. *)
PhasesOK ==
    /\ \A s \in Slots : phase[s] # "idle" => Full(s)
    /\ \A s \in Slots : phase[s] \in {"drop", "insert"} => HasDropFn(s)
    /\ \A s \in Slots : phase[s] = "insert" =>
          /\ source[s] \in Slots /\ SameType(s, source[s])
          /\ phase[source[s]] = "temp" /\ ~pinned[source[s]]
    /\ \A s, t \in Slots :
          phase[s] = "insert" /\ phase[t] = "insert" /\ source[s] = source[t] => s = t

(* Lost blocks stay allocated and belong to nobody. *)
LostOK ==
    \A b \in lost :
        /\ heap[b].data \in Vals
        /\ \A s \in Slots : obj[s].ptr # b
        /\ \A v \in Vals : boxed[v] # b

AddressesOK == \A s \in Slots : addr[s] % storage_align(StorageOf[s]) = 0

(* An object that was handed out pinned is in a pinned slot. *)
PinsOK ==
    \A v \in Vals :
        pinAddr[v] # None /\ Alive(v) =>
            \E s \in Slots : Held(s) = v /\ pinned[s] /\ DataAddr(s, obj[s]) = pinAddr[v]

IInv ==
    /\ TypeOK
    /\ StorageMatchesVtable
    /\ BoxesOK
    /\ OwnedOnce
    /\ DroppedExactlyOnce
    /\ PhasesOK
    /\ LostOK
    /\ LeaksOnlyOnPanic
    /\ AddressesOK
    /\ PinsOK
    /\ NoUB

(* A step leaves the objects of the slots outside X where they are. *)
Kept(X) == \A t \in Slots : t \notin X => Held(t)' = Held(t)

-----------------------------------------------------------------------------
(* Lemmas about one state                                                  *)

(* Alignments are powers of two: an address aligned for the storage is     *)
(* aligned for every type that Raw::can_store admits.                      *)
LEMMA AlignedWrite ==
    ASSUME NEW S \in StorageTypes, NEW T \in Types, NEW a \in Nat,
           a % storage_align(S) = 0, can_store(S, T)
    PROVE  raw_write_ok(S, T, a)
<1> DEFINE A == S.align  B == AlignOf[T]
<1>1. A \in Nat \ {0} /\ B \in Nat \ {0} /\ A \in Alignments /\ B \in Alignments
  BY AlignmentsAssumption, TypesAssumption DEF StorageTypes
<1>2. B <= A
  BY DEF can_store
<1>3. PICK k \in 1..A : A = k * B
  BY <1>1, <1>2, AlignmentsAssumption
<1>4. a = A * (a \div A)
  BY <1>1, SMT DEF storage_align
<1>5. a = B * (k * (a \div A))
  BY <1>1, <1>3, <1>4, SMT
<1>6. a % B = 0
  BY <1>1, <1>3, <1>5, SMT
<1> QED
  BY <1>6 DEF raw_write_ok, can_store

(* A slot is empty or holds an object; no two owners share a block, and    *)
(* nobody owns a free one.                                                 *)
LEMMA Separation ==
    ASSUME IInv
    PROVE  /\ \A s \in Slots : ~Full(s) => obj[s].ptr = None /\ Held(s) = None
           /\ \A s, t \in Slots : s # t /\ obj[s].ptr \in Blocks => obj[t].ptr # obj[s].ptr
           /\ \A s \in Slots, v \in Vals : boxed[v] \in Blocks => obj[s].ptr # boxed[v]
           /\ \A v, w \in Vals : boxed[v] \in Blocks /\ v # w => boxed[w] # boxed[v]
           /\ \A b \in Blocks : IsFree(b) =>
                 /\ b \notin lost
                 /\ \A s \in Slots : obj[s].ptr # b
                 /\ \A v \in Vals : boxed[v] # b
<1> USE NoneAssumption
<1>1. \A s \in Slots : ~Full(s) => obj[s].ptr = None /\ Held(s) = None
  BY DEF Full, NoObj, Held, Data
<1>2. \A s \in Slots : obj[s].ptr \in Blocks => Full(s) /\ Held(s) = heap[obj[s].ptr].data /\ Held(s) \in Vals
  BY <1>1 DEF IInv, StorageMatchesVtable, Held, Data
<1>3. \A s, t \in Slots : s # t /\ obj[s].ptr \in Blocks => obj[t].ptr # obj[s].ptr
  BY <1>2 DEF IInv, OwnedOnce
<1>4. \A v \in Vals : boxed[v] \in Blocks => heap[boxed[v]].data = v
  BY DEF IInv, BoxesOK
<1>5. \A s \in Slots, v \in Vals : boxed[v] \in Blocks => obj[s].ptr # boxed[v]
  BY <1>2, <1>4 DEF IInv, OwnedOnce
<1>6. \A v, w \in Vals : boxed[v] \in Blocks /\ v # w => boxed[w] # boxed[v]
  BY <1>4
<1>7. \A b \in Blocks : IsFree(b) => heap[b].data = None
  BY DEF IsFree, FreeBlock
<1> QED
  BY <1>1, <1>2, <1>3, <1>4, <1>5, <1>6, <1>7 DEF IInv, LostOK

(* Init => IInv *)
LEMMA InitIInv == Init => IInv
<1> SUFFICES ASSUME Init PROVE IInv
  OBVIOUS
<1> USE NoneAssumption DEF Init
<1>1. \A s \in Slots : obj[s] = NoObj /\ ~Full(s) /\ Held(s) = None
  BY DEF Full, NoObj, Held, Data
<1>2. TypeOK
  BY SlotsAssumption DEF TypeOK, Objects, NoObj, Ptrs, Phases, FreeBlock, Layouts, NoLayout
<1>3. StorageMatchesVtable /\ PhasesOK
  BY <1>1 DEF StorageMatchesVtable, PhasesOK
<1>4. BoxesOK /\ LostOK /\ LeaksOnlyOnPanic
  BY DEF BoxesOK, LostOK, LeaksOnlyOnPanic, IsFree
<1>5. OwnedOnce
  BY <1>1 DEF OwnedOnce
<1>6. DroppedExactlyOnce /\ PinsOK
  BY <1>1 DEF DroppedExactlyOnce, PinsOK, Alive
<1>7. AddressesOK /\ NoUB
  BY DEF AddressesOK, NoUB
<1> QED
  BY <1>2, <1>3, <1>4, <1>5, <1>6, <1>7 DEF IInv

(* Every full slot can be released, and every idle one can be used. *)
LEMMA ReleaseAllowed ==
    ASSUME IInv, NEW s \in Slots, Full(s)
    PROVE  dealloc_ok(heap, obj[s], layout(obj[s].vtable))
BY NoneAssumption DEF IInv, StorageMatchesVtable, InPlace, InBox, dealloc_ok, layout, LayoutOf

LEMMA AccessAllowed ==
    ASSUME IInv, NEW s \in Slots, Full(s), Idle(s)
    PROVE  /\ AccessOK(s, obj[s].vtable)
           /\ as_mut_reachable(StorageOf[s], obj[s], obj[s].vtable)
           /\ Held(s) \in Vals /\ obj[s].vtable \in Types
<1>1. Held(s) \in Vals /\ TypeOf[Held(s)] = obj[s].vtable /\ (InPlace(s) \/ InBox(s))
  BY DEF IInv, StorageMatchesVtable
<1>2. obj[s].vtable \in Types
  BY <1>1, TypesAssumption
<1>3. drops[Held(s)] = 0
  BY <1>1 DEF IInv, DroppedExactlyOnce, Alive, Idle
<1>4. StorageOf[s] \in StorageTypes /\ addr[s] \in Nat
  BY SlotsAssumption DEF IInv, TypeOK
<1>5. obj[s].tag = "Raw" => raw_write_ok(StorageOf[s], obj[s].vtable, addr[s])
  BY <1>1, <1>2, <1>4, AlignedWrite DEF IInv, AddressesOK, InPlace, InBox
<1>6. AccessOK(s, obj[s].vtable)
  BY <1>1, <1>3, <1>5, NoneAssumption DEF AccessOK, InPlace, InBox, layout
<1>7. as_mut_reachable(StorageOf[s], obj[s], obj[s].vtable)
  BY <1>1 DEF as_mut_reachable, InPlace, InBox
<1> QED
  BY <1>1, <1>2, <1>6, <1>7

-----------------------------------------------------------------------------
(* Steps that move nothing: calls, borrows, pinning                        *)

(* All of IInv but the pins, when only phases other than those of a        *)
(* destructor change.                                                      *)
LEMMA BorrowStep ==
    ASSUME IInv, NEW s \in Slots, Full(s), NEW ph \in {"idle", "borrowed"},
           phase[s] \in {"idle", "borrowed"},
           phase' = [phase EXCEPT ![s] = ph],
           ub' = ub,
           UNCHANGED <<addr, obj, heap, source, pinned, client, boxed, drops, lost>>,
           pinAddr' \in [Vals -> Slots \cup Ptrs], PinsOK'
    PROVE  IInv'
<1>1. \A t \in Slots : Held(t)' = Held(t) /\ (Full(t)' <=> Full(t)) /\ (HasDropFn(t)' <=> HasDropFn(t))
  BY DEF Held, Data, Full, HasDropFn
<1>2. \A t \in Slots : phase'[t] \in {"drop", "insert"} <=> phase[t] \in {"drop", "insert"}
  BY DEF IInv, TypeOK
<1>3. \A v \in Vals : Alive(v)' <=> Alive(v)
  BY <1>1, <1>2 DEF Alive
<1>4. TypeOK'
  BY DEF IInv, TypeOK, Phases
<1>5. StorageMatchesVtable'
  BY <1>1 DEF IInv, StorageMatchesVtable, InPlace, InBox
<1>6. BoxesOK' /\ LostOK' /\ LeaksOnlyOnPanic' /\ AddressesOK' /\ NoUB'
  BY DEF IInv, BoxesOK, LostOK, LeaksOnlyOnPanic, IsFree, AddressesOK, NoUB
<1>7. OwnedOnce'
  BY <1>1 DEF IInv, OwnedOnce
<1>8. DroppedExactlyOnce'
  BY <1>3 DEF IInv, DroppedExactlyOnce
<1>9. PhasesOK'
  BY <1>1, <1>2 DEF IInv, TypeOK, PhasesOK, SameType
<1> QED
  BY <1>4, <1>5, <1>6, <1>7, <1>8, <1>9 DEF IInv

LEMMA MethodStep ==
    ASSUME IInv, NEW s \in Slots, NEW recv \in {"Ref", "Mut", "Pinned"}, method(s, recv)
    PROVE  IInv'
<1> USE DEF method
<1>1. Full(s) /\ Idle(s)
  OBVIOUS
<1>2. ub' = ub
  BY <1>1, AccessAllowed DEF AccessFaults, Fault
<1>3. Held(s) \in Vals
  BY <1>1, AccessAllowed
<1>4. DataAddr(s, obj[s]) \in Slots \cup Ptrs
  BY DEF DataAddr, IInv, TypeOK, Objects
<1>5. pinAddr' \in [Vals -> Slots \cup Ptrs]
  BY <1>3, <1>4 DEF IInv, TypeOK, PinAccess
<1>6. \A t \in Slots : Held(t)' = Held(t)
  BY DEF Held, Data
<1>7. \A v \in Vals : Alive(v)' <=> Alive(v)
  BY <1>1, <1>6 DEF Alive, Idle, IInv, TypeOK
<1>8. PinsOK'
  <2> SUFFICES ASSUME NEW v \in Vals, pinAddr'[v] # None, Alive(v)'
               PROVE  \E t \in Slots :
                         Held(t)' = v /\ pinned'[t] /\ DataAddr(t, obj[t])' = pinAddr'[v]
    BY DEF PinsOK
  <2>1. Alive(v)
    BY <1>7
  <2>2. CASE pinAddr'[v] = pinAddr[v]
    BY <2>1, <2>2, <1>6 DEF IInv, PinsOK, DataAddr
  <2>3. CASE pinAddr'[v] # pinAddr[v]
    <3>1. v = Held(s) /\ pinned[s] /\ pinAddr'[v] = DataAddr(s, obj[s])
      BY <2>3, <1>3 DEF PinAccess, IInv, TypeOK
    <3> QED
      BY <3>1, <1>6 DEF DataAddr
  <2> QED
    BY <2>2, <2>3
<1> QED
  BY <1>1, <1>2, <1>5, <1>8, BorrowStep DEF Idle

LEMMA SameObjectsPins ==
    ASSUME IInv, NEW s \in Slots, phase[s] \in {"idle", "borrowed"},
           NEW ph \in {"idle", "borrowed"},
           phase' = [phase EXCEPT ![s] = ph],
           UNCHANGED <<obj, heap, client, boxed, pinned, pinAddr>>
    PROVE  PinsOK'
<1>1. \A t \in Slots : Held(t)' = Held(t)
  BY DEF Held, Data
<1>2. \A v \in Vals : Alive(v)' <=> Alive(v)
  BY <1>1 DEF Alive, IInv, TypeOK
<1> QED
  BY <1>1, <1>2 DEF IInv, PinsOK, DataAddr

LEMMA DowncastRefStep ==
    ASSUME IInv, NEW s \in Slots, NEW T \in Types, downcast_ref(s, T)
    PROVE  IInv'
<1> USE DEF downcast_ref
<1>1. Full(s) /\ Idle(s) /\ T = obj[s].vtable
  BY DEF is, type_id
<1>2. ub' = ub
  BY <1>1, AccessAllowed DEF AccessFaults, Fault
<1>3. pinAddr' \in [Vals -> Slots \cup Ptrs]
  BY DEF IInv, TypeOK
<1>4. PinsOK'
  BY <1>1, SameObjectsPins DEF Idle
<1> QED
  BY <1>1, <1>2, <1>3, <1>4, BorrowStep DEF Idle

LEMMA EndBorrowStep ==
    ASSUME IInv, NEW s \in Slots, end_borrow(s)
    PROVE  IInv'
<1> USE DEF end_borrow
<1>1. Full(s)
  BY DEF IInv, PhasesOK
<1>2. pinAddr' \in [Vals -> Slots \cup Ptrs]
  BY DEF IInv, TypeOK
<1>3. PinsOK'
  BY SameObjectsPins
<1> QED
  BY <1>1, <1>2, <1>3, BorrowStep

LEMMA PinStep ==
    ASSUME IInv, NEW s \in Slots, pin(s)
    PROVE  IInv'
<1> USE DEF pin
<1>1. /\ \A t \in Slots : Held(t)' = Held(t) /\ (Full(t)' <=> Full(t)) /\ (HasDropFn(t)' <=> HasDropFn(t))
      /\ UNCHANGED <<addr, obj, heap, phase, source, client, boxed, drops, pinAddr, lost, ub>>
  BY DEF Held, Data, Full, HasDropFn, histVars
<1>2. \A v \in Vals : Alive(v)' <=> Alive(v)
  BY <1>1 DEF Alive
<1>3. TypeOK'
  BY <1>1 DEF IInv, TypeOK
<1>4. StorageMatchesVtable' /\ OwnedOnce'
  BY <1>1 DEF IInv, StorageMatchesVtable, InPlace, InBox, OwnedOnce
<1>5. BoxesOK' /\ LostOK' /\ LeaksOnlyOnPanic' /\ AddressesOK' /\ NoUB'
  BY <1>1 DEF IInv, BoxesOK, LostOK, LeaksOnlyOnPanic, IsFree, AddressesOK, NoUB
<1>6. DroppedExactlyOnce'
  BY <1>1, <1>2 DEF IInv, DroppedExactlyOnce
<1>7. PhasesOK'
  BY <1>1 DEF IInv, TypeOK, PhasesOK, SameType, Idle
<1>8. PinsOK'
  BY <1>1, <1>2 DEF IInv, TypeOK, PinsOK, DataAddr
<1> QED
  BY <1>3, <1>4, <1>5, <1>6, <1>7, <1>8 DEF IInv

-----------------------------------------------------------------------------
(* What moving objects does to storages and ownership                      *)

(* The part of IInv about where objects are. *)
Ownership ==
    /\ obj \in [Slots -> Objects]
    /\ heap \in [Blocks -> [layout : Layouts \cup {NoLayout}, data : Vals \cup {None}]]
    /\ client \in SUBSET Vals
    /\ boxed \in [Vals -> Ptrs]
    /\ lost \in SUBSET Blocks
    /\ StorageMatchesVtable
    /\ BoxesOK
    /\ OwnedOnce
    /\ LostOK
    /\ LeaksOnlyOnPanic

LEMMA HeldInVals ==
    ASSUME IInv, NEW s \in Slots, Full(s)
    PROVE  /\ Held(s) \in Vals /\ TypeOf[Held(s)] = obj[s].vtable /\ obj[s].vtable \in Types
           /\ NeedsDrop[TypeOf[Held(s)]] <=> HasDropFn(s)
           /\ Held(s) \notin client /\ boxed[Held(s)] = None
           /\ \A t \in Slots : t # s => Held(t) # Held(s)
<1>1. Held(s) \in Vals /\ TypeOf[Held(s)] = obj[s].vtable /\ obj[s].vtable \in Types
  BY TypesAssumption DEF IInv, StorageMatchesVtable
<1>2. \A t \in Slots : t # s => Held(t) # Held(s)
  BY <1>1, Separation, NoneAssumption DEF IInv, OwnedOnce
<1> QED
  BY <1>1, <1>2 DEF IInv, OwnedOnce, HasDropFn, drop_in_place_fn

(* Storage::drop_in_place frees the block of the object, if it has one. *)
LEMMA Released ==
    ASSUME IInv, NEW s \in Slots, Full(s), NEW h
    PROVE  ReleasedFrom(h, s) = Freed(h, obj[s].ptr)
<1>1. InPlace(s) \/ InBox(s)
  BY DEF IInv, StorageMatchesVtable
<1>2. CASE InPlace(s)
  BY <1>2, NoneAssumption DEF InPlace, ReleasedFrom, drop_in_place, Freed
<1>3. CASE InBox(s)
  BY <1>3, NoneAssumption DEF InBox, ReleasedFrom, drop_in_place, Freed, layout, LayoutOf
<1> QED
  BY <1>1, <1>2, <1>3

LEMMA Emptied ==
    ASSUME IInv, NEW s \in Slots, Full(s),
           obj' = [obj EXCEPT ![s] = NoObj],
           \/ heap' = Freed(heap, obj[s].ptr) /\ lost' = lost
           \/ heap' = heap /\ lost' = lost \cup ({obj[s].ptr} \cap Blocks),
           client' = client \/ client' = client \cup {Held(s)},
           boxed' = boxed
    PROVE  /\ Ownership'
           /\ ~Full(s)' /\ Held(s)' = None
           /\ \A t \in Slots : t # s => Held(t)' = Held(t) /\ obj'[t] = obj[t]
<1> USE NoneAssumption
<1> DEFINE p == obj[s].ptr
<1>1. obj'[s] = NoObj /\ \A t \in Slots : t # s => obj'[t] = obj[t]
  BY DEF IInv, TypeOK
<1>2. \A b \in Blocks : b # p => heap'[b] = heap[b]
  BY DEF Freed, IInv, TypeOK
<1>3. p \in Blocks => \/ heap'[p] = FreeBlock /\ lost' = lost
                      \/ heap' = heap /\ lost' = lost \cup {p}
  BY DEF Freed, IInv, TypeOK
<1>4. p \notin Blocks => heap' = heap /\ lost' = lost
  BY DEF Freed
<1>5. ~Full(s)' /\ Held(s)' = None
  BY <1>1 DEF Full, Held, Data, NoObj
<1>6. \A t \in Slots : t # s => Held(t)' = Held(t)
  BY <1>1, <1>2, Separation DEF Held, Data
<1>7. \A t \in Slots : t # s => (Full(t)' <=> Full(t))
  BY <1>1 DEF Full
<1>8. /\ obj' \in [Slots -> Objects] /\ client' \in SUBSET Vals /\ boxed' \in [Vals -> Ptrs]
      /\ lost' \in SUBSET Blocks
  BY HeldInVals DEF IInv, TypeOK, Objects, NoObj, Ptrs
<1>9. heap' \in [Blocks -> [layout : Layouts \cup {NoLayout}, data : Vals \cup {None}]]
  BY DEF Freed, FreeBlock, IInv, TypeOK
<1>10. StorageMatchesVtable'
  <2> SUFFICES ASSUME NEW t \in Slots, Full(t)'
               PROVE  /\ InPlace(t)' \/ InBox(t)'
                      /\ Held(t)' \in Vals /\ TypeOf[Held(t)'] = obj'[t].vtable
    BY DEF StorageMatchesVtable
  <2>1. t # s /\ Full(t)
    BY <1>5, <1>7
  <2>2. InPlace(t) \/ InBox(t)
    BY <2>1 DEF IInv, StorageMatchesVtable
  <2>3. obj[t].ptr \in Blocks => heap'[obj[t].ptr] = heap[obj[t].ptr]
    BY <2>1, <1>2, Separation
  <2>4. InPlace(t)' \/ InBox(t)'
    BY <2>1, <2>2, <2>3, <1>1 DEF InPlace, InBox
  <2> QED
    BY <2>1, <2>4, <1>1, <1>6, HeldInVals
<1>11. BoxesOK'
  BY <1>2, Separation DEF IInv, BoxesOK
<1>12. OwnedOnce'
  <2>1. \A t, u \in Slots : Full(t)' /\ Full(u)' /\ Held(t)' = Held(u)' => t = u
    BY <1>5, <1>6, <1>7 DEF IInv, OwnedOnce
  <2>2. \A t \in Slots : Held(t)' \notin client' \cup {v \in Vals : boxed'[v] # None}
    <3> TAKE t \in Slots
    <3>1. CASE t = s
      BY <3>1, <1>5, <1>8
    <3>2. CASE t # s
      <4>1. Held(t) # Held(s) /\ Held(t) \notin client \cup {v \in Vals : boxed[v] # None}
        BY <3>2, HeldInVals DEF IInv, OwnedOnce
      <4> QED
        BY <3>2, <4>1, <1>6
    <3> QED
      BY <3>1, <3>2
  <2>3. \A v \in client' : boxed'[v] = None
    BY HeldInVals DEF IInv, OwnedOnce
  <2> QED
    BY <2>1, <2>2, <2>3 DEF OwnedOnce
<1>13. LostOK'
  <2>1. p \in Blocks => heap[p].data = Held(s) /\ Held(s) \in Vals
    BY HeldInVals DEF Held, Data
  <2>2. \A t \in Slots : p \in Blocks => obj'[t].ptr # p
    BY <1>1, Separation DEF NoObj
  <2>3. \A v \in Vals : p \in Blocks => boxed[v] # p
    BY Separation
  <2>4. \A b \in lost : b \in Blocks /\ b # p /\ heap'[b].data \in Vals
                        /\ (\A t \in Slots : obj'[t].ptr # b) /\ (\A v \in Vals : boxed[v] # b)
    BY <1>1, <1>2 DEF IInv, TypeOK, LostOK, NoObj
  <2> QED
    BY <1>3, <1>4, <2>1, <2>2, <2>3, <2>4 DEF LostOK
<1>14. LeaksOnlyOnPanic'
  <2> SUFFICES ASSUME NEW b \in Blocks, ~IsFree(b)', b \notin lost', \A v \in Vals : boxed[v] # b
               PROVE  \E t \in Slots : obj'[t].ptr = b
    BY DEF LeaksOnlyOnPanic
  <2>1. b # p
    BY <1>3 DEF IsFree
  <2>2. ~IsFree(b) /\ b \notin lost
    BY <2>1, <1>2, <1>3, <1>4 DEF IsFree
  <2>3. PICK t \in Slots : obj[t].ptr = b
    BY <2>2 DEF IInv, LeaksOnlyOnPanic
  <2> QED
    BY <2>1, <2>3, <1>1
<1> QED
  BY <1>1, <1>5, <1>6, <1>8, <1>9, <1>10, <1>11, <1>12, <1>13, <1>14 DEF Ownership

-----------------------------------------------------------------------------
(* Steps that empty a slot                                                 *)

(* IInv', for a step that changes phases, destructor counts or pins beside *)
(* where objects are.                                                      *)
LEMMA Assemble ==
    ASSUME IInv, Ownership', addr' = addr, ub' = ub,
           phase' \in [Slots -> Phases], source' \in [Slots -> Slots \cup {None}],
           pinned' \in [Slots -> BOOLEAN], drops' \in [Vals -> 0..1],
           pinAddr' \in [Vals -> Slots \cup Ptrs],
           DroppedExactlyOnce', PhasesOK', PinsOK'
    PROVE  IInv'
<1>1. TypeOK'
  BY DEF IInv, TypeOK, Ownership
<1>2. AddressesOK' /\ NoUB'
  BY DEF IInv, AddressesOK, NoUB
<1> QED
  BY <1>1, <1>2 DEF IInv, Ownership

(* The object of slot s leaves it for good, after its destructor if it has *)
(* one.                                                                    *)
LEMMA DropEnds ==
    ASSUME IInv, NEW s \in Slots, Full(s),
           phase[s] = "drop" \/ (Idle(s) /\ ~HasDropFn(s)),
           obj' = [obj EXCEPT ![s] = NoObj],
           \/ heap' = Freed(heap, obj[s].ptr) /\ lost' = lost
           \/ heap' = heap /\ lost' = lost \cup ({obj[s].ptr} \cap Blocks),
           phase' = [phase EXCEPT ![s] = "idle"],
           pinned' = [pinned EXCEPT ![s] = FALSE],
           ub' = ub,
           UNCHANGED <<addr, source, client, boxed, drops, pinAddr>>
    PROVE  IInv' /\ Held(s)' = None /\ Kept({s})
<1>1. /\ Ownership' /\ ~Full(s)' /\ Held(s)' = None
      /\ \A t \in Slots : t # s => Held(t)' = Held(t) /\ obj'[t] = obj[t]
  BY Emptied
<1>2. \A t \in Slots : t # s => (Full(t)' <=> Full(t)) /\ (HasDropFn(t)' <=> HasDropFn(t))
  BY <1>1 DEF Full, HasDropFn
<1>3. phase'[s] = "idle" /\ \A t \in Slots : t # s => phase'[t] = phase[t] /\ pinned'[t] = pinned[t]
  BY DEF IInv, TypeOK
<1>4. \A v \in Vals : v # Held(s) => (Alive(v)' <=> Alive(v))
  BY <1>1, <1>3, NoneAssumption DEF Alive
<1>5. \A v \in Vals : v = Held(s) => ~Alive(v)'
  BY <1>1, HeldInVals, NoneAssumption DEF Alive
<1>6. \A v \in Vals : NeedsDrop[TypeOf[v]] => (Alive(v)' <=> Alive(v))
  <2>1. NeedsDrop[TypeOf[Held(s)]] => ~Alive(Held(s))
    BY HeldInVals DEF Alive
  <2> QED
    BY <2>1, <1>4, <1>5
<1>7. DroppedExactlyOnce'
  BY <1>6 DEF IInv, DroppedExactlyOnce
<1>8. PhasesOK'
  <2>1. \A t \in Slots : phase'[t] # "idle" => t # s /\ phase'[t] = phase[t]
    BY <1>3
  <2>2. \A t \in Slots : phase[t] = "insert" => source[t] # s
    BY DEF IInv, PhasesOK, Idle
  <2>3. \A t \in Slots : phase'[t] # "idle" => Full(t)'
    BY <2>1, <1>2 DEF IInv, PhasesOK
  <2>4. \A t \in Slots : phase'[t] \in {"drop", "insert"} => HasDropFn(t)'
    BY <2>1, <1>2 DEF IInv, PhasesOK
  <2> QED
    BY <1>3, <2>1, <2>2, <2>3, <2>4 DEF IInv, PhasesOK, SameType
<1>9. PinsOK'
  <2> SUFFICES ASSUME NEW v \in Vals, pinAddr[v] # None, Alive(v)'
               PROVE  \E t \in Slots :
                         Held(t)' = v /\ pinned'[t] /\ DataAddr(t, obj'[t]) = pinAddr[v]
    BY DEF PinsOK, DataAddr
  <2>1. v # Held(s) /\ Alive(v)
    BY <1>4, <1>5
  <2>2. PICK t \in Slots : Held(t) = v /\ pinned[t] /\ DataAddr(t, obj[t]) = pinAddr[v]
    BY <2>1 DEF IInv, PinsOK
  <2> QED
    BY <2>1, <2>2, <1>1, <1>3
<1>10. /\ phase' \in [Slots -> Phases] /\ pinned' \in [Slots -> BOOLEAN]
       /\ source' \in [Slots -> Slots \cup {None}] /\ drops' \in [Vals -> 0..1]
       /\ pinAddr' \in [Vals -> Slots \cup Ptrs]
  BY DEF IInv, TypeOK, Phases
<1> QED
  BY <1>1, <1>7, <1>8, <1>9, <1>10, Assemble DEF Kept

LEMMA DropFinishStep ==
    ASSUME IInv, NEW s \in Slots, drop_finish(s)
    PROVE  IInv' /\ Held(s)' = None /\ Kept({s})
<1>1. Full(s) /\ (phase[s] = "drop" \/ (Idle(s) /\ ~HasDropFn(s)))
  BY DEF drop_finish, IInv, PhasesOK
<1>2. heap' = Freed(heap, obj[s].ptr)
  BY <1>1, Released DEF drop_finish
<1>3. ub' = ub
  BY <1>1, ReleaseAllowed DEF drop_finish, ReleaseFaults, Fault
<1> QED
  BY <1>1, <1>2, <1>3, DropEnds DEF drop_finish

LEMMA DropUnwindStep ==
    ASSUME IInv, NEW s \in Slots, drop_unwind(s)
    PROVE  IInv' /\ Held(s)' = None /\ Kept({s})
<1>1. Full(s) /\ phase[s] = "drop"
  BY DEF drop_unwind, IInv, PhasesOK
<1> QED
  BY <1>1, DropEnds DEF drop_unwind

LEMMA DowncastStep ==
    ASSUME IInv, NEW s \in Slots, NEW T \in Types, downcast(s, T)
    PROVE  IInv' /\ Held(s)' = None /\ Kept({s})
<1> USE DEF downcast
<1>1. Full(s) /\ Idle(s) /\ ~pinned[s] /\ T = obj[s].vtable
  BY DEF is, type_id
<1>2. client' = client \cup {Held(s)}
  BY <1>1, HeldInVals
<1>3. heap' = Freed(heap, obj[s].ptr)
  BY <1>1, Released DEF ReleasedFrom, layout
<1>4. ub' = ub
  BY <1>1, AccessAllowed, ReleaseAllowed DEF Fault, layout
<1>5. /\ Ownership' /\ ~Full(s)' /\ Held(s)' = None
      /\ \A t \in Slots : t # s => Held(t)' = Held(t) /\ obj'[t] = obj[t]
  BY <1>1, <1>2, <1>3, Emptied
<1>6. \A t \in Slots : t # s => (Full(t)' <=> Full(t)) /\ (HasDropFn(t)' <=> HasDropFn(t))
  BY <1>5 DEF Full, HasDropFn
<1>7. \A v \in Vals : Alive(v)' <=> Alive(v)
  <2>1. \A v \in Vals : v # Held(s) => (Alive(v)' <=> Alive(v))
    BY <1>2, <1>5, NoneAssumption DEF Alive
  <2>2. \A v \in Vals : v = Held(s) => Alive(v)' /\ Alive(v)
    BY <1>1, <1>2 DEF Alive, Idle
  <2> QED
    BY <2>1, <2>2
<1>8. DroppedExactlyOnce'
  BY <1>7 DEF IInv, DroppedExactlyOnce
<1>9. PhasesOK'
  BY <1>1, <1>5, <1>6 DEF IInv, PhasesOK, SameType, Idle
<1>10. PinsOK'
  <2> SUFFICES ASSUME NEW v \in Vals, pinAddr[v] # None, Alive(v)'
               PROVE  \E t \in Slots :
                         Held(t)' = v /\ pinned[t] /\ DataAddr(t, obj'[t]) = pinAddr[v]
    BY DEF PinsOK, DataAddr
  <2>1. PICK t \in Slots : Held(t) = v /\ pinned[t] /\ DataAddr(t, obj[t]) = pinAddr[v]
    BY <1>7 DEF IInv, PinsOK
  <2> QED
    BY <2>1, <1>1, <1>5
<1> QED
  BY <1>4, <1>5, <1>8, <1>9, <1>10, Assemble DEF IInv, TypeOK, Kept

(* The destructor of the object in s starts. *)
LEMMA DropStartStep ==
    ASSUME IInv, NEW s \in Slots, drop_start(s)
    PROVE  IInv' /\ Kept({})
<1> USE DEF drop_start
<1>1. Full(s) /\ Idle(s) /\ HasDropFn(s)
  BY DEF HasDropFn
<1>2. Held(s) \in Vals /\ NeedsDrop[TypeOf[Held(s)]] /\ drops[Held(s)] = 0
  BY <1>1, HeldInVals, AccessAllowed DEF AccessOK
<1>3. ub' = ub
  BY <1>1, AccessAllowed DEF Fault
<1>4. \A t \in Slots : /\ Held(t)' = Held(t) /\ obj'[t] = obj[t]
                       /\ Full(t)' <=> Full(t)
                       /\ HasDropFn(t)' <=> HasDropFn(t)
  BY DEF Held, Data, Full, HasDropFn
<1>5. /\ obj' = obj /\ heap' = heap /\ client' = client /\ boxed' = boxed
      /\ lost' = lost /\ source' = source /\ pinned' = pinned /\ pinAddr' = pinAddr
  OBVIOUS
<1>6. Ownership'
  <2>1. StorageMatchesVtable'
    BY <1>4, <1>5 DEF IInv, StorageMatchesVtable, InPlace, InBox
  <2>2. BoxesOK' /\ LostOK' /\ LeaksOnlyOnPanic'
    BY <1>5 DEF IInv, BoxesOK, LostOK, LeaksOnlyOnPanic, IsFree
  <2>3. OwnedOnce'
    BY <1>4, <1>5 DEF IInv, OwnedOnce
  <2> QED
    BY <1>5, <2>1, <2>2, <2>3 DEF IInv, TypeOK, Ownership
<1>7. phase'[s] = "drop" /\ \A t \in Slots : t # s => phase'[t] = phase[t]
  BY DEF IInv, TypeOK
<1>8. \A v \in Vals : v # Held(s) => (Alive(v)' <=> Alive(v))
  BY <1>4, <1>7 DEF Alive
<1>9. \A v \in Vals : v = Held(s) => ~Alive(v)'
  BY <1>1, <1>4, <1>7, HeldInVals DEF Alive
<1>10. drops' = [drops EXCEPT ![Held(s)] = 1]
  BY <1>2 DEF Dropped
<1>11. DroppedExactlyOnce' /\ drops' \in [Vals -> 0..1]
  BY <1>2, <1>8, <1>9, <1>10 DEF IInv, TypeOK, DroppedExactlyOnce
<1>12. PhasesOK'
  <2>1. \A t \in Slots : phase'[t] = "insert" => t # s /\ phase[t] = "insert" /\ source[t] # s
    BY <1>1, <1>7 DEF IInv, PhasesOK, Idle
  <2> QED
    BY <1>1, <1>4, <1>5, <1>7, <2>1 DEF IInv, PhasesOK, SameType
<1>13. PinsOK'
  BY <1>4, <1>5, <1>8, <1>9 DEF IInv, PinsOK, DataAddr
<1>14. phase' \in [Slots -> Phases]
  BY DEF IInv, TypeOK, Phases
<1> QED
  BY <1>3, <1>4, <1>5, <1>6, <1>11, <1>12, <1>13, <1>14, Assemble DEF IInv, TypeOK, Kept

LEMMA ClientDropStep ==
    ASSUME IInv, NEW v \in Vals, client_drop(v)
    PROVE  IInv' /\ Kept({})
<1> USE NoneAssumption DEF client_drop
<1> DEFINE p == boxed[v]
<1>1. /\ obj' = obj /\ lost' = lost /\ source' = source /\ pinned' = pinned
      /\ pinAddr' = pinAddr /\ phase' = phase /\ ub' = ub /\ addr' = addr
  OBVIOUS
<1>2. \A b \in Blocks : b # p => heap'[b] = heap[b]
  BY DEF Freed, IInv, TypeOK
<1>3. p \in Blocks => heap'[p] = FreeBlock
  BY DEF Freed, IInv, TypeOK
<1>4. heap' \in [Blocks -> [layout : Layouts \cup {NoLayout}, data : Vals \cup {None}]]
  BY DEF Freed, FreeBlock, IInv, TypeOK
<1>5. \A t \in Slots : /\ Held(t)' = Held(t)
                       /\ Full(t)' <=> Full(t)
                       /\ HasDropFn(t)' <=> HasDropFn(t)
  BY <1>1, <1>2, Separation DEF Held, Data, Full, HasDropFn
<1>6. boxed'[v] = None /\ v \notin client' /\ \A w \in Vals : w # v => boxed'[w] = boxed[w]
  BY DEF IInv, TypeOK
<1>7. Alive(v) /\ \A t \in Slots : Held(t) # v
  BY DEF Alive, IInv, OwnedOnce
<1>8. ~Alive(v)' /\ \A w \in Vals : w # v => (Alive(w)' <=> Alive(w))
  BY <1>1, <1>5, <1>6, <1>7 DEF Alive
<1>9. StorageMatchesVtable'
  <2> SUFFICES ASSUME NEW t \in Slots, Full(t)
               PROVE  InPlace(t)' \/ InBox(t)'
    BY <1>1, <1>5, HeldInVals DEF StorageMatchesVtable
  <2>1. InPlace(t) \/ InBox(t)
    BY DEF IInv, StorageMatchesVtable
  <2>2. obj[t].ptr \in Blocks => heap'[obj[t].ptr] = heap[obj[t].ptr]
    BY <1>2, Separation
  <2> QED
    BY <1>1, <2>1, <2>2 DEF InPlace, InBox
<1>10. BoxesOK'
  BY <1>2, <1>6, Separation DEF IInv, BoxesOK
<1>11. OwnedOnce'
  BY <1>5, <1>6 DEF IInv, OwnedOnce, TypeOK
<1>12. LostOK'
  BY <1>1, <1>2, <1>6 DEF IInv, TypeOK, LostOK
<1>13. LeaksOnlyOnPanic'
  <2> SUFFICES ASSUME NEW b \in Blocks, ~IsFree(b)', b \notin lost, \A t \in Slots : obj[t].ptr # b
               PROVE  \E w \in Vals : boxed'[w] = b
    BY <1>1 DEF LeaksOnlyOnPanic
  <2>1. b # p /\ ~IsFree(b)
    BY <1>2, <1>3 DEF IsFree
  <2> QED
    BY <2>1, <1>6 DEF IInv, LeaksOnlyOnPanic
<1>14. Ownership'
  BY <1>1, <1>4, <1>9, <1>10, <1>11, <1>12, <1>13 DEF IInv, TypeOK, Ownership, Ptrs
<1>15. drops[v] = 0
  BY <1>7 DEF IInv, DroppedExactlyOnce
<1>16. DroppedExactlyOnce' /\ drops' \in [Vals -> 0..1]
  BY <1>8, <1>15 DEF IInv, TypeOK, DroppedExactlyOnce, Dropped
<1>17. PhasesOK'
  BY <1>1, <1>5 DEF IInv, PhasesOK, SameType
<1>18. PinsOK'
  BY <1>1, <1>5, <1>8 DEF IInv, PinsOK, DataAddr
<1> QED
  BY <1>1, <1>5, <1>14, <1>16, <1>17, <1>18, Assemble DEF IInv, TypeOK, Kept

-----------------------------------------------------------------------------
(* Steps that put an object into a slot                                    *)

(* o is a DynObject of storage type S for v. *)
FitsIn(S, v, o) ==
    /\ o \in Objects /\ o.vtable = TypeOf[v]
    /\ o.buf = IF o.ptr \in Blocks THEN None ELSE v
    /\ \/ o.tag = "Raw" /\ o.ptr = None /\ can_store(S, TypeOf[v]) /\ S.kind # "Box"
       \/ /\ o.tag = "Box" /\ S.kind # "Raw"
          /\ S.kind = "RawOrBox" => ~can_store(S, TypeOf[v])
          /\ \/ o.ptr = Dangling /\ SizeOf[TypeOf[v]] = 0
             \/ o.ptr \in Blocks /\ SizeOf[TypeOf[v]] # 0

(* The step gives v the block p, which was free or v's own, and frees the  *)
(* other blocks of v and of slot d.                                        *)
HeapTakes(d, v, p) ==
    /\ heap' \in [Blocks -> [layout : Layouts \cup {NoLayout}, data : Vals \cup {None}]]
    /\ p \in Blocks => /\ IsFree(p) \/ p = boxed[v]
                       /\ heap'[p].layout = LayoutOf(TypeOf[v]) /\ heap'[p].data = v
    /\ \A b \in Blocks : b # p =>
          heap'[b] = IF b \in {boxed[v], obj[d].ptr} THEN FreeBlock ELSE heap[b]

(* v, owned by the client, goes into slot d as o; what was in d is gone. *)
LEMMA Placed ==
    ASSUME IInv, NEW d \in Slots, NEW v \in Vals, v \in client \/ boxed[v] # None,
           NEW o, FitsIn(StorageOf[d], v, o), obj' = [obj EXCEPT ![d] = o],
           HeapTakes(d, v, o.ptr),
           client' = client \ {v}, boxed' = [boxed EXCEPT ![v] = None], lost' = lost
    PROVE  /\ Ownership'
           /\ Full(d)' /\ Held(d)' = v
           /\ \A t \in Slots : t # d => Held(t)' = Held(t) /\ obj'[t] = obj[t]
<1> USE NoneAssumption
<1> DEFINE p == o.ptr
<1>1. obj'[d] = o /\ \A t \in Slots : t # d => obj'[t] = obj[t]
  BY DEF IInv, TypeOK
<1>2. /\ obj'[d].ptr = p /\ obj'[d].vtable = TypeOf[v] /\ o \in Objects /\ obj'[d].tag # "None"
      /\ obj'[d].buf = IF p \in Blocks THEN None ELSE v
  BY <1>1 DEF FitsIn
<1>H. /\ heap' \in [Blocks -> [layout : Layouts \cup {NoLayout}, data : Vals \cup {None}]]
      /\ p \in Blocks => /\ IsFree(p) \/ p = boxed[v]
                         /\ heap'[p].layout = LayoutOf(TypeOf[v]) /\ heap'[p].data = v
      /\ \A b \in Blocks : b # p /\ b \in {boxed[v], obj[d].ptr} => heap'[b] = FreeBlock
      /\ \A b \in Blocks : b # p /\ b \notin {boxed[v], obj[d].ptr} => heap'[b] = heap[b]
  BY DEF HeapTakes
<1>3. Full(d)' /\ Held(d)' = v
  BY <1>2, <1>H DEF Full, NoObj, Held, Data
<1>4. \A t \in Slots : t # d /\ obj[t].ptr \in Blocks =>
          obj[t].ptr # p /\ heap'[obj[t].ptr] = heap[obj[t].ptr]
  BY <1>H, Separation
<1>5. \A t \in Slots : t # d => Held(t)' = Held(t) /\ (Full(t)' <=> Full(t))
  BY <1>1, <1>4 DEF Held, Data, Full
<1>6. /\ obj' \in [Slots -> Objects] /\ client' \in SUBSET Vals /\ boxed' \in [Vals -> Ptrs]
      /\ lost' \in SUBSET Blocks
  BY <1>2 DEF IInv, TypeOK, Ptrs
<1>7. StorageMatchesVtable'
  <2> SUFFICES ASSUME NEW t \in Slots, Full(t)'
               PROVE  /\ InPlace(t)' \/ InBox(t)'
                      /\ Held(t)' \in Vals /\ TypeOf[Held(t)'] = obj'[t].vtable
    BY DEF StorageMatchesVtable
  <2>1. CASE t = d
    <3>1. InPlace(d)' \/ InBox(d)'
      BY <1>1, <1>2, <1>H DEF FitsIn, InPlace, InBox, layout
    <3> QED
      BY <2>1, <3>1, <1>2, <1>3
  <2>2. CASE t # d
    <3>1. Full(t)
      BY <2>2, <1>5
    <3>2. InPlace(t) \/ InBox(t)
      BY <3>1 DEF IInv, StorageMatchesVtable
    <3>3. InPlace(t)' \/ InBox(t)'
      BY <2>2, <3>2, <1>1, <1>4 DEF InPlace, InBox
    <3> QED
      BY <2>2, <3>1, <3>3, <1>1, <1>5, HeldInVals
  <2> QED
    BY <2>1, <2>2
<1>8. boxed'[v] = None /\ \A w \in Vals : w # v => boxed'[w] = boxed[w]
  BY DEF IInv, TypeOK
<1>9. BoxesOK'
  <2> SUFFICES ASSUME NEW w \in Vals, boxed'[w] # None
               PROVE  \/ boxed'[w] = Dangling /\ SizeOf[TypeOf[w]] = 0
                      \/ /\ boxed'[w] \in Blocks /\ SizeOf[TypeOf[w]] # 0
                         /\ heap'[boxed'[w]].layout = LayoutOf(TypeOf[w])
                         /\ heap'[boxed'[w]].data = w
    BY DEF BoxesOK
  <2>1. w # v /\ boxed'[w] = boxed[w]
    BY <1>8
  <2>2. boxed[w] \in Blocks => boxed[w] # p /\ boxed[w] \notin {boxed[v], obj[d].ptr}
    BY <2>1, <1>H, Separation
  <2> QED
    BY <2>1, <2>2, <1>H DEF IInv, BoxesOK
<1>10. OwnedOnce'
  <2>1. \A t \in Slots : t # d => Held(t) # v
    BY DEF IInv, OwnedOnce
  <2>2. \A t, u \in Slots : Full(t)' /\ Full(u)' /\ Held(t)' = Held(u)' => t = u
    BY <2>1, <1>3, <1>5 DEF IInv, OwnedOnce
  <2>3. \A t \in Slots : Held(t)' \notin client' \cup {w \in Vals : boxed'[w] # None}
    BY <1>3, <1>5, <1>8 DEF IInv, OwnedOnce
  <2>4. \A w \in client' : boxed'[w] = None
    BY <1>6, <1>8 DEF IInv, OwnedOnce
  <2> QED
    BY <2>2, <2>3, <2>4 DEF OwnedOnce
<1>11. LostOK'
  <2> SUFFICES ASSUME NEW b \in lost
               PROVE  /\ heap'[b].data \in Vals
                      /\ \A t \in Slots : obj'[t].ptr # b
                      /\ \A w \in Vals : boxed'[w] # b
    BY DEF LostOK
  <2>1. /\ b \in Blocks /\ heap[b].data \in Vals
        /\ \A t \in Slots : obj[t].ptr # b
        /\ \A w \in Vals : boxed[w] # b
    BY DEF IInv, TypeOK, LostOK
  <2>2. b # p
    BY <2>1, <1>H DEF IsFree, FreeBlock
  <2> QED
    BY <2>1, <2>2, <1>H, <1>1, <1>2, <1>8
<1>12. LeaksOnlyOnPanic'
  <2> SUFFICES ASSUME NEW b \in Blocks, ~IsFree(b)', b \notin lost
               PROVE  (\E w \in Vals : boxed'[w] = b) \/ (\E t \in Slots : obj'[t].ptr = b)
    BY DEF LeaksOnlyOnPanic
  <2>1. CASE b = p
    BY <2>1, <1>2
  <2>2. CASE b # p
    <3>1. b \notin {boxed[v], obj[d].ptr} /\ ~IsFree(b)
      BY <2>2, <1>H DEF IsFree
    <3>2. (\E w \in Vals : boxed[w] = b) \/ (\E t \in Slots : obj[t].ptr = b)
      BY <3>1 DEF IInv, LeaksOnlyOnPanic
    <3> QED
      BY <3>1, <3>2, <1>1, <1>8
  <2> QED
    BY <2>1, <2>2
<1> QED
  BY <1>H, <1>1, <1>3, <1>5, <1>6, <1>7, <1>9, <1>10, <1>11, <1>12 DEF Ownership

(* What Storage::new may build for v in a slot like d. *)
LEMMA NewShape ==
    ASSUME IInv, NEW d \in Slots, NEW v \in Vals, new_compiles(StorageOf[d], TypeOf[v]),
           NEW p \in NewPtrs(StorageOf[d], TypeOf[v])
    PROVE  /\ FitsIn(StorageOf[d], v, NewObj(StorageOf[d], v, p))
           /\ p \in Blocks => IsFree(p)
           /\ p = NewObj(StorageOf[d], v, p).ptr
           /\ NewFaults(d, v) = {}
<1> DEFINE S == StorageOf[d]  T == TypeOf[v]
<1>0. S \in StorageTypes /\ T \in Types /\ addr[d] \in Nat
  BY SlotsAssumption, TypesAssumption DEF IInv, TypeOK
<1>1. S.kind \in {"Raw", "Box", "RawOrBox"}
  BY <1>0 DEF StorageTypes
<1> DEFINE o == NewObj(S, v, p)
<1>2. o.tag = new_tag(S, T) /\ o.ptr = p /\ o.vtable = T /\ o.buf = IF p \in Blocks THEN None ELSE v
  BY DEF NewObj
<1>3. o = [tag |-> o.tag, ptr |-> o.ptr, buf |-> o.buf, vtable |-> o.vtable]
  BY DEF NewObj
<1> HIDE DEF o
<1>4. CASE new_tag(S, T) = "Raw"
  <2>1. can_store(S, T) /\ S.kind # "Box"
    BY <1>1, <1>4 DEF new_tag, new_compiles
  <2>2. p = None
    BY <1>4 DEF NewPtrs
  <2>3. raw_write_ok(S, T, addr[d])
    BY <1>0, <2>1, AlignedWrite DEF IInv, AddressesOK
  <2>4. NewFaults(d, v) = {}
    BY <2>3 DEF NewFaults, Fault
  <2>5. o \in Objects
    BY <1>0, <1>2, <1>3, <1>4, <2>2, NoneAssumption DEF Objects, Ptrs
  <2>6. FitsIn(S, v, o)
    BY <1>2, <1>4, <2>1, <2>2, <2>5 DEF FitsIn
  <2> QED
    BY <1>2, <2>2, <2>4, <2>6, NoneAssumption DEF o
<1>5. CASE new_tag(S, T) # "Raw"
  <2>1. new_tag(S, T) = "Box" /\ S.kind # "Raw" /\ (S.kind = "RawOrBox" => ~can_store(S, T))
    BY <1>1, <1>5 DEF new_tag
  <2>2. /\ (p = Dangling /\ SizeOf[T] = 0) \/ (p \in Blocks /\ SizeOf[T] # 0)
        /\ p \in Blocks => IsFree(p)
    BY <1>5, NoneAssumption DEF NewPtrs, AllocPtrs
  <2>3. NewFaults(d, v) = {}
    BY <1>5 DEF NewFaults, Fault
  <2>4. o \in Objects
    BY <1>0, <1>2, <1>3, <2>1, <2>2 DEF Objects, Ptrs
  <2>5. FitsIn(S, v, o)
    BY <1>2, <2>1, <2>2, <2>4 DEF FitsIn
  <2> QED
    BY <1>2, <2>2, <2>3, <2>5 DEF o
<1> QED
  BY <1>4, <1>5

LEMMA AllocatedHeap ==
    ASSUME IInv, NEW v \in Vals, NEW p, NEW h, h = Allocated(heap, p, v)
    PROVE  /\ h \in [Blocks -> [layout : Layouts \cup {NoLayout}, data : Vals \cup {None}]]
           /\ p \in Blocks => h[p].layout = LayoutOf(TypeOf[v]) /\ h[p].data = v
           /\ \A b \in Blocks : b # p => h[b] = heap[b]
<1>1. TypeOf[v] \in Types
  BY TypesAssumption
<1>2. LayoutOf(TypeOf[v]) \in Layouts
  BY <1>1, TypesAssumption DEF LayoutOf, Layouts
<1> QED
  BY <1>2 DEF Allocated, IInv, TypeOK

(* v goes into the empty and idle slot d; nothing else happens. *)
LEMMA PlacedIdle ==
    ASSUME IInv, Ownership', NEW d \in Slots, NEW v \in Vals, Idle(d), ~Full(d),
           v \in client \/ boxed[v] # None,
           Full(d)', Held(d)' = v,
           \A t \in Slots : t # d => Held(t)' = Held(t) /\ obj'[t] = obj[t],
           client' = client \ {v}, boxed' = [boxed EXCEPT ![v] = None], ub' = ub,
           UNCHANGED <<addr, phase, source, pinned, drops, pinAddr, lost>>
    PROVE  IInv'
<1>1. \A t \in Slots : t # d => (Full(t)' <=> Full(t)) /\ (HasDropFn(t)' <=> HasDropFn(t))
  BY DEF Full, HasDropFn
<1>2. Held(d) = None
  BY Separation
<1>3. boxed'[v] = None /\ \A w \in Vals : w # v => boxed'[w] = boxed[w]
  BY DEF IInv, TypeOK
<1>4. \A w \in Vals : Alive(w)' <=> Alive(w)
  <2>1. \A w \in Vals : w # v => (Alive(w)' <=> Alive(w))
    BY <1>2, <1>3, NoneAssumption DEF Alive
  <2>2. Alive(v)
    BY DEF Alive
  <2>3. Alive(v)'
    BY DEF Alive, Idle
  <2> QED
    BY <2>1, <2>2, <2>3
<1>5. DroppedExactlyOnce'
  BY <1>4 DEF IInv, DroppedExactlyOnce
<1>6. PhasesOK'
  BY <1>1 DEF IInv, PhasesOK, SameType, Idle
<1>7. PinsOK'
  <2> SUFFICES ASSUME NEW w \in Vals, pinAddr[w] # None, Alive(w)'
               PROVE  \E t \in Slots :
                         Held(t)' = w /\ pinned[t] /\ DataAddr(t, obj'[t]) = pinAddr[w]
    BY DEF PinsOK, DataAddr
  <2>1. PICK t \in Slots : Held(t) = w /\ pinned[t] /\ DataAddr(t, obj[t]) = pinAddr[w]
    BY <1>4 DEF IInv, PinsOK
  <2> QED
    BY <2>1, <1>2, NoneAssumption
<1> QED
  BY <1>5, <1>6, <1>7, Assemble DEF IInv, TypeOK

LEMMA NewStep ==
    ASSUME IInv, NEW s \in Slots, NEW v \in Vals, new(s, v)
    PROVE  IInv' /\ Held(s)' = v /\ Kept({s})
<1> USE DEF new
<1> DEFINE S == StorageOf[s]  T == TypeOf[v]
<1>1. PICK p \in NewPtrs(S, T) : /\ obj' = [obj EXCEPT ![s] = NewObj(S, v, p)]
                                /\ heap' = Allocated(heap, p, v)
  OBVIOUS
<1>2. boxed[v] = None /\ boxed' = [boxed EXCEPT ![v] = None]
  BY DEF IInv, TypeOK, OwnedOnce
<1>3. obj[s].ptr = None
  BY Separation
<1>4. ub' = ub
  BY NewShape
<1>5. HeapTakes(s, v, p)
  BY <1>1, <1>2, <1>3, NewShape, AllocatedHeap, NoneAssumption DEF HeapTakes
<1>6. /\ Ownership' /\ Full(s)' /\ Held(s)' = v
      /\ \A t \in Slots : t # s => Held(t)' = Held(t) /\ obj'[t] = obj[t]
  <2>1. FitsIn(S, v, NewObj(S, v, p)) /\ NewObj(S, v, p).ptr = p
    BY NewShape
  <2> QED
    BY <1>1, <1>2, <1>5, <2>1, Placed
<1> QED
  BY <1>2, <1>4, <1>6, PlacedIdle DEF Kept

LEMMA FromBoxStep ==
    ASSUME IInv, NEW s \in Slots, NEW v \in Vals, from_box(s, v)
    PROVE  IInv' /\ Held(s)' = v /\ Kept({s})
<1> USE NoneAssumption
<1> DEFINE S == StorageOf[s]  T == TypeOf[v]
<1>0. /\ Idle(s) /\ ~Full(s) /\ boxed[v] # None /\ from_box_compiles(S)
      /\ boxed' = [boxed EXCEPT ![v] = None]
      /\ UNCHANGED <<addr, phase, source, pinned, client, drops, pinAddr, lost>>
  BY DEF from_box
<1>1. S \in StorageTypes /\ T \in Types /\ addr[s] \in Nat /\ S.kind \in {"Box", "RawOrBox"}
  <2>1. S \in StorageTypes /\ T \in Types /\ addr[s] \in Nat
    BY SlotsAssumption, TypesAssumption DEF IInv, TypeOK
  <2> QED
    BY <1>0, <2>1 DEF from_box_compiles
<1>2. client' = client \ {v}
  BY <1>0 DEF IInv, OwnedOnce
<1>3. obj[s].ptr = None
  BY <1>0, Separation
<1>4. \/ boxed[v] = Dangling /\ SizeOf[T] = 0
      \/ /\ boxed[v] \in Blocks /\ SizeOf[T] # 0
         /\ heap[boxed[v]].layout = LayoutOf(T) /\ heap[boxed[v]].data = v
  BY <1>0 DEF IInv, BoxesOK
<1>5. ub' = ub /\ \E o : FitsIn(S, v, o) /\ obj' = [obj EXCEPT ![s] = o] /\ HeapTakes(s, v, o.ptr)
  <2>1. CASE from_box_tag(S, T) = "Raw"
    <3> DEFINE o == [tag |-> "Raw", ptr |-> None, buf |-> v, vtable |-> T]
    <3>1. /\ obj' = [obj EXCEPT ![s] = o] /\ heap' = Freed(heap, boxed[v])
          /\ ub' = ub \cup Fault(raw_write_ok(S, T, addr[s]), "write")
      BY <2>1 DEF from_box
    <3>2. can_store(S, T) /\ S.kind = "RawOrBox"
      BY <2>1, <1>1 DEF from_box_tag
    <3>3. raw_write_ok(S, T, addr[s])
      BY <3>2, <1>1, AlignedWrite DEF IInv, AddressesOK
    <3>4. FitsIn(S, v, o)
      BY <3>2, <1>1 DEF FitsIn, Objects, Ptrs
    <3>5. HeapTakes(s, v, None)
      BY <3>1, <1>3, <1>4 DEF HeapTakes, Freed, FreeBlock, IInv, TypeOK
    <3>6. o.ptr = None /\ ub' = ub
      BY <3>1, <3>3 DEF Fault
    <3> HIDE DEF o
    <3> QED
      BY <3>1, <3>4, <3>5, <3>6
  <2>2. CASE from_box_tag(S, T) # "Raw"
    <3> DEFINE o == [tag |-> "Box", ptr |-> boxed[v],
                     buf |-> IF boxed[v] \in Blocks THEN None ELSE v, vtable |-> T]
    <3>1. from_box_tag(S, T) = "Box"
      BY <2>2 DEF from_box_tag
    <3>2. obj' = [obj EXCEPT ![s] = o] /\ heap' = heap /\ ub' = ub
      BY <2>2, <3>1 DEF from_box
    <3>3. S.kind = "RawOrBox" => ~can_store(S, T)
      BY <2>2 DEF from_box_tag
    <3>4. FitsIn(S, v, o)
      BY <3>3, <1>1, <1>4 DEF FitsIn, Objects, Ptrs
    <3>5. HeapTakes(s, v, boxed[v])
      BY <3>2, <1>3, <1>4 DEF HeapTakes, IInv, TypeOK
    <3>6. o.ptr = boxed[v]
      OBVIOUS
    <3> HIDE DEF o
    <3> QED
      BY <3>2, <3>4, <3>5, <3>6
  <2> QED
    BY <2>1, <2>2
<1>6. /\ Ownership' /\ Full(s)' /\ Held(s)' = v
      /\ \A t \in Slots : t # s => Held(t)' = Held(t) /\ obj'[t] = obj[t]
  BY <1>0, <1>2, <1>5, Placed
<1> QED
  BY <1>0, <1>2, <1>5, <1>6, PlacedIdle DEF Kept

LEMMA BoxNewStep ==
    ASSUME IInv, NEW v \in Vals, box_new(v)
    PROVE  IInv' /\ Kept({})
<1> USE NoneAssumption
<1>0. PICK p \in AllocPtrs(TypeOf[v]) : boxed' = [boxed EXCEPT ![v] = p] /\ heap' = Allocated(heap, p, v)
  BY DEF box_new
<1>1. /\ v \in client /\ client' = client \ {v} /\ boxed[v] = None
      /\ UNCHANGED <<addr, obj, phase, source, pinned, drops, pinAddr, lost, ub>>
  BY DEF box_new, histVars, IInv, OwnedOnce
<1>2. /\ (p = Dangling /\ SizeOf[TypeOf[v]] = 0) \/ (p \in Blocks /\ SizeOf[TypeOf[v]] # 0)
      /\ p \in Blocks => IsFree(p)
      /\ p \in Ptrs /\ p # None
  BY DEF AllocPtrs, Ptrs
<1>3. /\ heap' \in [Blocks -> [layout : Layouts \cup {NoLayout}, data : Vals \cup {None}]]
      /\ p \in Blocks => heap'[p].layout = LayoutOf(TypeOf[v]) /\ heap'[p].data = v
      /\ \A b \in Blocks : b # p => heap'[b] = heap[b]
  BY <1>0, AllocatedHeap
<1>4. boxed'[v] = p /\ \A w \in Vals : w # v => boxed'[w] = boxed[w]
  BY <1>0 DEF IInv, TypeOK
<1>5. \A t \in Slots : obj[t].ptr \in Blocks => heap'[obj[t].ptr] = heap[obj[t].ptr]
  BY <1>2, <1>3, Separation
<1>6. \A t \in Slots : /\ Held(t)' = Held(t)
                       /\ Full(t)' <=> Full(t)
                       /\ HasDropFn(t)' <=> HasDropFn(t)
  BY <1>1, <1>5 DEF Held, Data, Full, HasDropFn
<1>7. \A w \in Vals : Alive(w)' <=> Alive(w)
  BY <1>1, <1>2, <1>4, <1>6 DEF Alive
<1>8. StorageMatchesVtable'
  <2> SUFFICES ASSUME NEW t \in Slots, Full(t)
               PROVE  InPlace(t)' \/ InBox(t)'
    BY <1>1, <1>6, HeldInVals DEF StorageMatchesVtable
  <2>1. InPlace(t) \/ InBox(t)
    BY DEF IInv, StorageMatchesVtable
  <2> QED
    BY <1>1, <1>5, <2>1 DEF InPlace, InBox
<1>9. BoxesOK'
  <2>1. \A w \in Vals : w # v /\ boxed[w] \in Blocks => heap'[boxed[w]] = heap[boxed[w]]
    BY <1>2, <1>3, Separation
  <2> QED
    BY <1>2, <1>3, <1>4, <2>1 DEF IInv, BoxesOK
<1>10. OwnedOnce'
  BY <1>1, <1>4, <1>6 DEF IInv, OwnedOnce, TypeOK
<1>11. LostOK'
  <2>1. \A b \in lost : b \in Blocks /\ b # p
    BY <1>2, Separation DEF IInv, TypeOK
  <2> QED
    BY <2>1, <1>1, <1>3, <1>4 DEF IInv, LostOK
<1>12. LeaksOnlyOnPanic'
  <2> SUFFICES ASSUME NEW b \in Blocks, ~IsFree(b)', b \notin lost, \A t \in Slots : obj[t].ptr # b
               PROVE  \E w \in Vals : boxed'[w] = b
    BY <1>1 DEF LeaksOnlyOnPanic
  <2>1. CASE b = p
    BY <2>1, <1>4
  <2>2. CASE b # p
    <3>1. PICK w \in Vals : boxed[w] = b
      BY <2>2, <1>3 DEF IsFree, IInv, LeaksOnlyOnPanic
    <3> QED
      BY <3>1, <1>1, <1>4
  <2> QED
    BY <2>1, <2>2
<1>13. Ownership'
  BY <1>0, <1>1, <1>2, <1>3, <1>8, <1>9, <1>10, <1>11, <1>12 DEF IInv, TypeOK, Ownership
<1>14. DroppedExactlyOnce'
  BY <1>1, <1>7 DEF IInv, DroppedExactlyOnce
<1>15. PhasesOK'
  BY <1>1, <1>6 DEF IInv, PhasesOK, SameType
<1>16. PinsOK'
  BY <1>1, <1>6, <1>7 DEF IInv, PinsOK, DataAddr
<1> QED
  BY <1>1, <1>6, <1>13, <1>14, <1>15, <1>16, Assemble DEF IInv, TypeOK, Kept

-----------------------------------------------------------------------------
(* Steps of insert and insert_pinned                                       *)

LEMMA FitsReachable ==
    ASSUME NEW S, NEW v \in Vals, NEW o, FitsIn(S, v, o)
    PROVE  as_mut_reachable(S, o, TypeOf[v])
BY DEF FitsIn, as_mut_reachable

LEMMA InsertStep ==
    ASSUME IInv, NEW s \in Slots, NEW t \in Slots, NEW v \in Vals, insert(s, t, v)
    PROVE  IInv' /\ Held(s)' = v /\ Kept({s})
<1> USE NoneAssumption
<1> DEFINE S == StorageOf[s]  T == TypeOf[v]
<1>0. /\ Idle(s) /\ ~HasDropFn(s) /\ v \in client /\ new_compiles(S, T) /\ StorageOf[t] = S
      /\ client' = client \ {v}
      /\ UNCHANGED <<addr, phase, source, pinned, boxed, drops, lost>>
  BY DEF insert, SameType
<1>1. PICK p \in NewPtrs(S, T) :
         /\ obj' = [obj EXCEPT ![s] = NewObj(S, v, p)]
         /\ heap' = IF Full(s) THEN ReleasedFrom(Allocated(heap, p, v), s)
                               ELSE Allocated(heap, p, v)
         /\ ub' = ub \cup NewFaults(t, v)
                     \cup (IF Full(s) THEN ReleaseFaults(s) ELSE {})
                     \cup Fault(as_mut_reachable(S, NewObj(S, v, p), T), "unreachable")
         /\ pinAddr' = PinAccess(s, v, NewObj(S, v, p))
  BY DEF insert
<1> DEFINE o == NewObj(S, v, p)
<1>2. boxed[v] = None /\ boxed' = [boxed EXCEPT ![v] = None]
  BY <1>0 DEF IInv, TypeOK, OwnedOnce
<1>3. FitsIn(S, v, o) /\ o.ptr = p /\ (p \in Blocks => IsFree(p))
  BY <1>0, NewShape
<1>4. NewFaults(t, v) = {}
  BY <1>0, NewShape
<1> HIDE DEF o
<1>5. ub' = ub
  <2>1. Full(s) => ReleaseFaults(s) = {}
    BY ReleaseAllowed DEF ReleaseFaults, Fault
  <2>2. as_mut_reachable(S, o, T)
    BY <1>3, FitsReachable
  <2> QED
    BY <1>1, <1>4, <2>1, <2>2 DEF Fault, o
<1>6. HeapTakes(s, v, p)
  <2> DEFINE h == Allocated(heap, p, v)
  <2>1. /\ h \in [Blocks -> [layout : Layouts \cup {NoLayout}, data : Vals \cup {None}]]
        /\ p \in Blocks => h[p].layout = LayoutOf(T) /\ h[p].data = v
        /\ \A b \in Blocks : b # p => h[b] = heap[b]
    BY AllocatedHeap
  <2> HIDE DEF h
  <2>2. CASE Full(s)
    <3>1. heap' = Freed(h, obj[s].ptr)
      BY <2>2, <1>1, Released DEF h
    <3>2. p \in Blocks => obj[s].ptr # p
      BY <1>3, Separation
    <3> QED
      BY <2>1, <3>1, <3>2, <1>2, <1>3 DEF HeapTakes, Freed, FreeBlock
  <2>3. CASE ~Full(s)
    <3>1. heap' = h /\ obj[s].ptr = None
      BY <2>3, <1>1, Separation DEF h
    <3> QED
      BY <2>1, <3>1, <1>2, <1>3 DEF HeapTakes
  <2> QED
    BY <2>2, <2>3
<1>7. /\ Ownership' /\ Full(s)' /\ Held(s)' = v
      /\ \A u \in Slots : u # s => Held(u)' = Held(u) /\ obj'[u] = obj[u]
  BY <1>0, <1>1, <1>2, <1>3, <1>6, Placed DEF o
<1>8. \A u \in Slots : u # s => (Full(u)' <=> Full(u)) /\ (HasDropFn(u)' <=> HasDropFn(u))
  BY <1>7 DEF Full, HasDropFn
<1>9. obj'[s] = o
  BY <1>1 DEF IInv, TypeOK, o
<1>10. \A w \in Vals : w # Held(s) => (Alive(w)' <=> Alive(w))
  <2>1. Alive(v) /\ Alive(v)'
    BY <1>0, <1>7 DEF Alive, Idle
  <2>2. \A w \in Vals : w # v /\ w # Held(s) => (Alive(w)' <=> Alive(w))
    BY <1>0, <1>7 DEF Alive
  <2> QED
    BY <2>1, <2>2
<1>11. \A w \in Vals : w = Held(s) => ~Alive(w)' /\ ~NeedsDrop[TypeOf[w]]
  <2>1. CASE Full(s)
    BY <2>1, <1>0, <1>7, HeldInVals DEF Alive
  <2>2. CASE ~Full(s)
    BY <2>2, Separation
  <2> QED
    BY <2>1, <2>2
<1>12. DroppedExactlyOnce'
  BY <1>0, <1>10, <1>11 DEF IInv, DroppedExactlyOnce
<1>13. PhasesOK'
  BY <1>0, <1>7, <1>8 DEF IInv, PhasesOK, SameType, Idle
<1>14. DataAddr(s, o) \in Slots \cup Ptrs
  BY <1>3 DEF DataAddr, FitsIn, Objects
<1>15. pinAddr' \in [Vals -> Slots \cup Ptrs]
  BY <1>1, <1>14 DEF IInv, TypeOK, PinAccess, o
<1>16. PinsOK'
  <2> SUFFICES ASSUME NEW w \in Vals, pinAddr'[w] # None, Alive(w)'
               PROVE  \E u \in Slots :
                         Held(u)' = w /\ pinned[u] /\ DataAddr(u, obj'[u]) = pinAddr'[w]
    BY <1>0 DEF PinsOK, DataAddr
  <2>1. w # Held(s) /\ Alive(w)
    BY <1>10, <1>11
  <2>2. CASE pinAddr'[w] = pinAddr[w]
    <3>1. PICK u \in Slots : Held(u) = w /\ pinned[u] /\ DataAddr(u, obj[u]) = pinAddr[w]
      BY <2>1, <2>2 DEF IInv, PinsOK
    <3> QED
      BY <2>1, <2>2, <3>1, <1>7
  <2>3. CASE pinAddr'[w] # pinAddr[w]
    <3>1. w = v /\ pinned[s] /\ pinAddr'[w] = DataAddr(s, o)
      BY <2>3, <1>1 DEF PinAccess, IInv, TypeOK, o
    <3> QED
      BY <3>1, <1>7, <1>9
  <2> QED
    BY <2>2, <2>3
<1> QED
  BY <1>0, <1>5, <1>7, <1>12, <1>13, <1>15, <1>16, Assemble DEF IInv, TypeOK, Kept

LEMMA InsertStartStep ==
    ASSUME IInv, NEW s \in Slots, NEW t \in Slots, NEW v \in Vals, insert_start(s, t, v)
    PROVE  IInv' /\ Held(t)' = v /\ Kept({t})
<1> USE NoneAssumption
<1> DEFINE S == StorageOf[t]  T == TypeOf[v]
<1>0. /\ Idle(s) /\ Idle(t) /\ s # t /\ SameType(s, t) /\ ~Full(t) /\ ~pinned[t]
      /\ HasDropFn(s) /\ Full(s) /\ v \in client /\ new_compiles(S, T)
      /\ phase' = [phase EXCEPT ![s] = "insert", ![t] = "temp"]
      /\ source' = [source EXCEPT ![s] = t]
      /\ drops' = Dropped(Held(s))
      /\ client' = client \ {v}
      /\ UNCHANGED <<addr, pinned, boxed, pinAddr, lost>>
  BY DEF insert_start, SameType, HasDropFn
<1>1. PICK p \in NewPtrs(S, T) : /\ obj' = [obj EXCEPT ![t] = NewObj(S, v, p)]
                                /\ heap' = Allocated(heap, p, v)
  BY <1>0 DEF insert_start, SameType
<1>2. boxed[v] = None /\ boxed' = [boxed EXCEPT ![v] = None]
  BY <1>0 DEF IInv, TypeOK, OwnedOnce
<1>3. FitsIn(S, v, NewObj(S, v, p)) /\ NewObj(S, v, p).ptr = p /\ (p \in Blocks => IsFree(p))
  BY <1>0, NewShape
<1>4. ub' = ub
  <2>1. NewFaults(t, v) = {}
    BY <1>0, NewShape
  <2>2. AccessOK(s, obj[s].vtable)
    BY <1>0, AccessAllowed
  <2> QED
    BY <2>1, <2>2 DEF insert_start, Fault
<1>5. HeapTakes(t, v, p)
  <2>1. obj[t].ptr = None
    BY <1>0, Separation
  <2> QED
    BY <2>1, <1>1, <1>2, <1>3, AllocatedHeap DEF HeapTakes
<1>6. /\ Ownership' /\ Full(t)' /\ Held(t)' = v
      /\ \A u \in Slots : u # t => Held(u)' = Held(u) /\ obj'[u] = obj[u]
  BY <1>0, <1>1, <1>2, <1>3, <1>5, Placed
<1>7. \A u \in Slots : u # t => (Full(u)' <=> Full(u)) /\ (HasDropFn(u)' <=> HasDropFn(u))
  BY <1>6 DEF Full, HasDropFn
<1>8. /\ phase'[s] = "insert" /\ phase'[t] = "temp" /\ source'[s] = t
      /\ \A u \in Slots : u # s => source'[u] = source[u]
      /\ \A u \in Slots \ {s, t} : phase'[u] = phase[u]
  BY <1>0 DEF IInv, TypeOK
<1>9. Held(t) = None /\ Held(s) \in Vals /\ NeedsDrop[TypeOf[Held(s)]] /\ Held(s) # v
  BY <1>0, Separation, HeldInVals
<1>10. drops[Held(s)] = 0
  BY <1>0, AccessAllowed DEF AccessOK
<1>11. \A w \in Vals : w # Held(s) => (Alive(w)' <=> Alive(w))
  <2>1. Alive(v) /\ Alive(v)'
    BY <1>0, <1>6, <1>8 DEF Alive
  <2>2. \A w \in Vals : w # v /\ w # Held(s) => (Alive(w)' <=> Alive(w))
    <3> TAKE w \in Vals
    <3> HAVE w # v /\ w # Held(s)
    <3>1. \A u \in Slots : Held(u)' = w /\ phase'[u] \notin {"drop", "insert"}
                           <=> Held(u) = w /\ phase[u] \notin {"drop", "insert"}
      BY <1>6, <1>8, <1>9
    <3>2. w \in client' <=> w \in client
      BY <1>0
    <3> QED
      BY <3>1, <3>2, <1>0 DEF Alive
  <2> QED
    BY <2>1, <2>2
<1>12. \A w \in Vals : w = Held(s) => ~Alive(w)'
  BY <1>0, <1>6, <1>8, <1>9, HeldInVals DEF Alive
<1>13. drops' = [drops EXCEPT ![Held(s)] = 1]
  BY <1>0, <1>9, <1>10 DEF Dropped
<1>14. DroppedExactlyOnce' /\ drops' \in [Vals -> 0..1]
  BY <1>9, <1>11, <1>12, <1>13 DEF IInv, TypeOK, DroppedExactlyOnce
<1>15. PhasesOK'
  <2>1. \A u \in Slots : phase[u] = "insert" => u # s /\ u # t /\ source[u] # s /\ source[u] # t
    BY <1>0 DEF IInv, PhasesOK, Idle
  <2>2. \A u \in Slots : phase'[u] # "idle" => Full(u)'
    BY <1>0, <1>6, <1>7, <1>8 DEF IInv, PhasesOK
  <2>3. \A u \in Slots : phase'[u] \in {"drop", "insert"} => HasDropFn(u)'
    BY <1>0, <1>7, <1>8 DEF IInv, PhasesOK
  <2>4. \A u \in Slots : phase'[u] = "insert" =>
           /\ source'[u] \in Slots /\ SameType(u, source'[u])
           /\ phase'[source'[u]] = "temp" /\ ~pinned'[source'[u]]
    <3> TAKE u \in Slots
    <3> HAVE phase'[u] = "insert"
    <3>1. CASE u = s
      BY <3>1, <1>0, <1>8
    <3>2. CASE u # s
      <4>1. phase[u] = "insert" /\ source'[u] = source[u]
        BY <3>2, <1>8
      <4>2. /\ source[u] \in Slots \ {s, t} /\ SameType(u, source[u])
            /\ phase[source[u]] = "temp" /\ ~pinned[source[u]]
        BY <4>1, <2>1 DEF IInv, PhasesOK
      <4> QED
        BY <4>1, <4>2, <1>0, <1>8
    <3> QED
      BY <3>1, <3>2
  <2>5. \A u, w \in Slots :
           phase'[u] = "insert" /\ phase'[w] = "insert" /\ source'[u] = source'[w] => u = w
    BY <1>8, <2>1 DEF IInv, PhasesOK
  <2> QED
    BY <2>2, <2>3, <2>4, <2>5 DEF PhasesOK, SameType
<1>16. PinsOK'
  <2> SUFFICES ASSUME NEW w \in Vals, pinAddr[w] # None, Alive(w)'
               PROVE  \E u \in Slots :
                         Held(u)' = w /\ pinned[u] /\ DataAddr(u, obj'[u]) = pinAddr[w]
    BY <1>0 DEF PinsOK, DataAddr
  <2>1. Alive(w)
    BY <1>11, <1>12
  <2>2. PICK u \in Slots : Held(u) = w /\ pinned[u] /\ DataAddr(u, obj[u]) = pinAddr[w]
    BY <2>1 DEF IInv, PinsOK
  <2> QED
    BY <2>2, <1>6, <1>9
<1>17. phase' \in [Slots -> Phases] /\ source' \in [Slots -> Slots \cup {None}]
  BY <1>0 DEF IInv, TypeOK, Phases
<1> QED
  BY <1>0, <1>4, <1>6, <1>14, <1>15, <1>16, <1>17, Assemble DEF IInv, TypeOK, Kept

-----------------------------------------------------------------------------
(* Steps that move an object from slot to slot                             *)

(* The object of a goes to d, of the same type; what was in d is released, *)
(* or its block is lost.                                                   *)
LEMMA Relocated ==
    ASSUME IInv, NEW a \in Slots, NEW d \in Slots, a # d, Full(a), SameType(a, d),
           obj' = [obj EXCEPT ![d] = obj[a], ![a] = NoObj],
           \/ heap' = Freed(heap, obj[d].ptr) /\ lost' = lost
           \/ heap' = heap /\ lost' = lost \cup ({obj[d].ptr} \cap Blocks),
           client' = client, boxed' = boxed
    PROVE  /\ Ownership'
           /\ Full(d)' /\ Held(d)' = Held(a) /\ obj'[d] = obj[a]
           /\ ~Full(a)' /\ Held(a)' = None
           /\ \A u \in Slots : u # d /\ u # a => Held(u)' = Held(u) /\ obj'[u] = obj[u]
<1> USE NoneAssumption
<1> DEFINE p == obj[d].ptr
<1>1. obj'[d] = obj[a] /\ obj'[a] = NoObj /\ \A u \in Slots : u # d /\ u # a => obj'[u] = obj[u]
  BY DEF IInv, TypeOK
<1>2. \A b \in Blocks : b # p => heap'[b] = heap[b]
  BY DEF Freed, IInv, TypeOK
<1>3. p \in Blocks => \/ heap'[p] = FreeBlock /\ lost' = lost
                      \/ heap' = heap /\ lost' = lost \cup {p}
  BY DEF Freed, IInv, TypeOK
<1>4. p \notin Blocks => heap' = heap /\ lost' = lost
  BY DEF Freed
<1>5. \A u \in Slots : u # d /\ obj[u].ptr \in Blocks =>
         obj[u].ptr # p /\ heap'[obj[u].ptr] = heap[obj[u].ptr]
  BY <1>2, Separation
<1>6. ~Full(a)' /\ Held(a)' = None
  BY <1>1 DEF Full, Held, Data, NoObj
<1>7. Full(d)' /\ Held(d)' = Held(a)
  BY <1>1, <1>5 DEF Full, Held, Data
<1>8. \A u \in Slots : u # d /\ u # a => Held(u)' = Held(u) /\ (Full(u)' <=> Full(u))
  <2>1. \A u \in Slots : u # d /\ u # a => Held(u)' = Held(u)
    <3> TAKE u \in Slots
    <3> HAVE u # d /\ u # a
    <3>1. obj'[u] = obj[u] /\ (obj[u].ptr \in Blocks => heap'[obj[u].ptr] = heap[obj[u].ptr])
      BY <1>1, <1>5
    <3> QED
      BY <3>1 DEF Held, Data
  <2>2. \A u \in Slots : u # d /\ u # a => (Full(u)' <=> Full(u))
    BY <1>1 DEF Full
  <2> QED
    BY <2>1, <2>2
<1>9. /\ obj' \in [Slots -> Objects] /\ client' \in SUBSET Vals /\ boxed' \in [Vals -> Ptrs]
      /\ lost' \in SUBSET Blocks
  BY DEF IInv, TypeOK, Objects, NoObj, Ptrs
<1>10. heap' \in [Blocks -> [layout : Layouts \cup {NoLayout}, data : Vals \cup {None}]]
  BY DEF Freed, FreeBlock, IInv, TypeOK
<1>11. StorageMatchesVtable'
  <2> SUFFICES ASSUME NEW u \in Slots, Full(u)'
               PROVE  /\ InPlace(u)' \/ InBox(u)'
                      /\ Held(u)' \in Vals /\ TypeOf[Held(u)'] = obj'[u].vtable
    BY DEF StorageMatchesVtable
  <2>1. CASE u = d
    <3>1. InPlace(a) \/ InBox(a)
      BY DEF IInv, StorageMatchesVtable
    <3>2. InPlace(d)' \/ InBox(d)'
      BY <3>1, <1>1, <1>5 DEF InPlace, InBox, SameType
    <3> QED
      BY <2>1, <3>2, <1>1, <1>7, HeldInVals
  <2>2. CASE u # d
    <3>1. u # a /\ Full(u)
      BY <2>2, <1>6, <1>8
    <3>2. InPlace(u) \/ InBox(u)
      BY <3>1 DEF IInv, StorageMatchesVtable
    <3>3. InPlace(u)' \/ InBox(u)'
      BY <2>2, <3>1, <3>2, <1>1, <1>5 DEF InPlace, InBox
    <3> QED
      BY <2>2, <3>1, <3>3, <1>1, <1>8, HeldInVals
  <2> QED
    BY <2>1, <2>2
<1>12. BoxesOK'
  BY <1>2, Separation DEF IInv, BoxesOK
<1>13. OwnedOnce'
  <2>1. \A u, w \in Slots : Full(u)' /\ Full(w)' /\ Held(u)' = Held(w)' => u = w
    <3>1. \A u \in Slots : u # d /\ Full(u)' => Held(u)' # Held(a)
      BY <1>6, <1>8, HeldInVals
    <3> QED
      BY <3>1, <1>6, <1>7, <1>8 DEF IInv, OwnedOnce
  <2>2. \A u \in Slots : Held(u)' \notin client' \cup {v \in Vals : boxed'[v] # None}
    BY <1>6, <1>7, <1>8, <1>9 DEF IInv, OwnedOnce
  <2>3. \A v \in client' : boxed'[v] = None
    BY DEF IInv, OwnedOnce
  <2> QED
    BY <2>1, <2>2, <2>3 DEF OwnedOnce
<1>14. LostOK'
  <2>1. p \in Blocks => heap[p].data \in Vals
    <3> SUFFICES ASSUME p \in Blocks PROVE heap[p].data \in Vals
      OBVIOUS
    <3>1. Full(d)
      BY Separation
    <3> QED
      BY <3>1, HeldInVals DEF Held, Data
  <2>2. \A u \in Slots : p \in Blocks => obj'[u].ptr # p
    <3>1. p \in Blocks => obj'[a].ptr # p
      BY <1>1 DEF NoObj
    <3>2. \A u \in Slots : u # d /\ p \in Blocks => obj[u].ptr # p
      BY Separation
    <3> QED
      BY <3>1, <3>2, <1>1
  <2>3. \A v \in Vals : p \in Blocks => boxed[v] # p
    BY Separation
  <2>4. \A b \in lost : b \in Blocks /\ b # p /\ heap'[b].data \in Vals
                        /\ (\A u \in Slots : obj'[u].ptr # b) /\ (\A v \in Vals : boxed[v] # b)
    BY <1>1, <1>2 DEF IInv, TypeOK, LostOK, NoObj
  <2> QED
    BY <1>3, <1>4, <2>1, <2>2, <2>3, <2>4 DEF LostOK
<1>15. LeaksOnlyOnPanic'
  <2> SUFFICES ASSUME NEW b \in Blocks, ~IsFree(b)', b \notin lost', \A v \in Vals : boxed[v] # b
               PROVE  \E u \in Slots : obj'[u].ptr = b
    BY DEF LeaksOnlyOnPanic
  <2>1. b # p
    BY <1>3 DEF IsFree
  <2>2. ~IsFree(b) /\ b \notin lost
    BY <2>1, <1>2, <1>3, <1>4 DEF IsFree
  <2>3. PICK u \in Slots : obj[u].ptr = b
    BY <2>2 DEF IInv, LeaksOnlyOnPanic
  <2> QED
    BY <2>1, <2>3, <1>1
<1> QED
  BY <1>1, <1>6, <1>7, <1>8, <1>9, <1>10, <1>11, <1>12, <1>13, <1>14, <1>15 DEF Ownership

LEMMA MoveStep ==
    ASSUME IInv, NEW s \in Slots, NEW t \in Slots, move(s, t)
    PROVE  IInv' /\ Held(t)' = Held(s) /\ Held(s)' = None /\ Kept({s, t})
<1> USE NoneAssumption
<1>0. /\ Idle(s) /\ Full(s) /\ ~pinned[s] /\ Idle(t) /\ ~Full(t) /\ SameType(s, t) /\ s # t
      /\ UNCHANGED <<addr, heap, phase, source, pinned, client, boxed, drops, pinAddr, lost, ub>>
  BY DEF move, Movable, histVars
<1>1. obj[t].ptr = None /\ Held(t) = None
  BY <1>0, Separation
<1>2. /\ obj' = [obj EXCEPT ![t] = obj[s], ![s] = NoObj]
      /\ heap' = Freed(heap, obj[t].ptr)
  BY <1>0, <1>1 DEF move, Freed, IInv, TypeOK
<1>3. /\ Ownership'
      /\ Full(t)' /\ Held(t)' = Held(s) /\ obj'[t] = obj[s]
      /\ ~Full(s)' /\ Held(s)' = None
      /\ \A u \in Slots : u # t /\ u # s => Held(u)' = Held(u) /\ obj'[u] = obj[u]
  BY <1>0, <1>2, Relocated
<1>4. \A w \in Vals : Alive(w)' <=> Alive(w)
  BY <1>0, <1>1, <1>3 DEF Alive, Idle
<1>5. DroppedExactlyOnce'
  BY <1>0, <1>4 DEF IInv, DroppedExactlyOnce
<1>6. PhasesOK'
  <2>1. \A u \in Slots : u # t /\ u # s => (Full(u)' <=> Full(u)) /\ (HasDropFn(u)' <=> HasDropFn(u))
    BY <1>3 DEF Full, HasDropFn
  <2> QED
    BY <2>1, <1>0, <1>3 DEF IInv, PhasesOK, SameType, Idle
<1>7. PinsOK'
  <2> SUFFICES ASSUME NEW w \in Vals, pinAddr[w] # None, Alive(w)'
               PROVE  \E u \in Slots :
                         Held(u)' = w /\ pinned[u] /\ DataAddr(u, obj'[u]) = pinAddr[w]
    BY <1>0 DEF PinsOK, DataAddr
  <2>1. PICK u \in Slots : Held(u) = w /\ pinned[u] /\ DataAddr(u, obj[u]) = pinAddr[w]
    BY <1>4 DEF IInv, PinsOK
  <2> QED
    BY <2>1, <1>0, <1>1, <1>3
<1> QED
  BY <1>0, <1>3, <1>5, <1>6, <1>7, Assemble DEF IInv, TypeOK, Kept

(* The end of an insert, normal or unwinding. *)
LEMMA InsertEnds ==
    ASSUME IInv, NEW s \in Slots, InsertEnd(s),
           \/ heap' = Freed(heap, obj[s].ptr) /\ lost' = lost
           \/ heap' = heap /\ lost' = lost \cup ({obj[s].ptr} \cap Blocks),
           \/ pinAddr' = pinAddr
           \/ pinAddr' = PinAccess(s, Held(source[s]), obj[source[s]]),
           ub' = ub,
           UNCHANGED <<addr, pinned, client, boxed, drops>>
    PROVE  /\ IInv'
           /\ \A a \in Slots : a = source[s] =>
                 Held(s)' = Held(a) /\ Held(a)' = None /\ Kept({s, a})
<1> USE NoneAssumption
<1>0. PICK a \in Slots :
         /\ a = source[s]
         /\ phase[s] = "insert" /\ phase[a] = "temp" /\ a # s /\ ~pinned[a]
         /\ SameType(a, s) /\ Full(a) /\ Full(s) /\ HasDropFn(s)
  BY DEF InsertEnd, IInv, PhasesOK, SameType
<1>1. /\ obj' = [obj EXCEPT ![s] = obj[a], ![a] = NoObj]
      /\ phase' = [phase EXCEPT ![s] = "idle", ![a] = "idle"]
      /\ source' = [source EXCEPT ![s] = None]
  BY <1>0 DEF InsertEnd, Assigned
<1>2. /\ Ownership'
      /\ Full(s)' /\ Held(s)' = Held(a) /\ obj'[s] = obj[a]
      /\ ~Full(a)' /\ Held(a)' = None
      /\ \A u \in Slots : u # s /\ u # a => Held(u)' = Held(u) /\ obj'[u] = obj[u]
  <2>1. client' = client /\ boxed' = boxed
    OBVIOUS
  <2>2. obj' = [obj EXCEPT ![s] = obj[a], ![a] = NoObj]
    BY <1>1
  <2> QED
    BY <1>0, <2>1, <2>2, Relocated
<1>3. \A u \in Slots : u # s /\ u # a => (Full(u)' <=> Full(u)) /\ (HasDropFn(u)' <=> HasDropFn(u))
  BY <1>2 DEF Full, HasDropFn
<1>4. /\ phase'[s] = "idle" /\ phase'[a] = "idle"
      /\ \A u \in Slots : u # s /\ u # a => phase'[u] = phase[u]
      /\ \A u \in Slots : u # s => source'[u] = source[u]
  BY <1>0, <1>1 DEF IInv, TypeOK
<1>5. Held(s) \in Vals /\ Held(a) \in Vals /\ Held(s) # Held(a)
  BY <1>0, HeldInVals
<1>6. \A w \in Vals : Alive(w)' <=> Alive(w)
  <2>1. \A w \in Vals : w # Held(s) /\ w # Held(a) => (Alive(w)' <=> Alive(w))
    <3> TAKE w \in Vals
    <3> HAVE w # Held(s) /\ w # Held(a)
    <3>1. \A u \in Slots : Held(u)' = w /\ phase'[u] \notin {"drop", "insert"}
                           <=> Held(u) = w /\ phase[u] \notin {"drop", "insert"}
      BY <1>2, <1>4
    <3> QED
      BY <3>1 DEF Alive
  <2>2. \A w \in Vals : w = Held(a) => Alive(w)' /\ Alive(w)
    BY <1>0, <1>2, <1>4 DEF Alive
  <2>3. \A w \in Vals : w = Held(s) => ~Alive(w)
    BY <1>0, HeldInVals DEF Alive
  <2>4. \A w \in Vals : w = Held(s) => ~Alive(w)'
    <3>1. \A u \in Slots : Held(u)' # Held(s)
      BY <1>0, <1>2, <1>5, HeldInVals
    <3>2. Held(s) \notin client' /\ boxed'[Held(s)] = None
      BY <1>0, HeldInVals
    <3> QED
      BY <3>1, <3>2 DEF Alive
  <2> QED
    BY <2>1, <2>2, <2>3, <2>4
<1>7. DroppedExactlyOnce'
  BY <1>6 DEF IInv, DroppedExactlyOnce
<1>8. PhasesOK'
  <2>1. \A u \in Slots : phase'[u] # "idle" => u # s /\ u # a /\ phase'[u] = phase[u]
    BY <1>4
  <2>2. \A u \in Slots : phase[u] = "insert" /\ u # s => source[u] # a /\ source[u] # s
    BY <1>0 DEF IInv, PhasesOK
  <2>3. \A u \in Slots : phase'[u] # "idle" => Full(u)'
    BY <2>1, <1>3 DEF IInv, PhasesOK
  <2>4. \A u \in Slots : phase'[u] \in {"drop", "insert"} => HasDropFn(u)'
    BY <2>1, <1>3 DEF IInv, PhasesOK
  <2>5. \A u \in Slots : phase'[u] = "insert" =>
           /\ source'[u] \in Slots /\ SameType(u, source'[u])
           /\ phase'[source'[u]] = "temp" /\ ~pinned'[source'[u]]
    BY <2>1, <2>2, <1>4 DEF IInv, PhasesOK
  <2>6. \A u, w \in Slots :
           phase'[u] = "insert" /\ phase'[w] = "insert" /\ source'[u] = source'[w] => u = w
    BY <2>1, <1>4 DEF IInv, PhasesOK
  <2> QED
    BY <2>3, <2>4, <2>5, <2>6 DEF PhasesOK, SameType
<1>9. DataAddr(s, obj[a]) \in Slots \cup Ptrs
  BY <1>0 DEF DataAddr, IInv, TypeOK, Objects
<1>10. pinAddr' \in [Vals -> Slots \cup Ptrs]
  BY <1>0, <1>9, <1>5 DEF PinAccess, IInv, TypeOK
<1>11. PinsOK'
  <2> SUFFICES ASSUME NEW w \in Vals, pinAddr'[w] # None, Alive(w)'
               PROVE  \E u \in Slots :
                         Held(u)' = w /\ pinned[u] /\ DataAddr(u, obj'[u]) = pinAddr'[w]
    BY DEF PinsOK, DataAddr
  <2>1. Alive(w)
    BY <1>6
  <2>2. CASE pinAddr'[w] = pinAddr[w]
    <3>1. PICK u \in Slots : Held(u) = w /\ pinned[u] /\ DataAddr(u, obj[u]) = pinAddr[w]
      BY <2>1, <2>2 DEF IInv, PinsOK
    <3>2. u # a /\ u # s
      BY <2>1, <3>1, <1>0, HeldInVals DEF Alive
    <3> QED
      BY <2>2, <3>1, <3>2, <1>2
  <2>3. CASE pinAddr'[w] # pinAddr[w]
    <3>1. w = Held(a) /\ pinned[s] /\ pinAddr'[w] = DataAddr(s, obj[a])
      BY <2>3, <1>0, <1>5 DEF PinAccess, IInv, TypeOK
    <3> QED
      BY <3>1, <1>2
  <2> QED
    BY <2>2, <2>3
<1>12. phase' \in [Slots -> Phases] /\ source' \in [Slots -> Slots \cup {None}]
  BY <1>1 DEF IInv, TypeOK, Phases
<1> QED
  BY <1>0, <1>2, <1>7, <1>8, <1>10, <1>11, <1>12, Assemble DEF IInv, TypeOK, Kept

LEMMA InsertFinishStep ==
    ASSUME IInv, NEW s \in Slots, insert_finish(s)
    PROVE  /\ IInv'
           /\ \A a \in Slots : a = source[s] =>
                 Held(s)' = Held(a) /\ Held(a)' = None /\ Kept({s, a})
<1>1. PICK a \in Slots : a = source[s] /\ Full(a) /\ Full(s) /\ SameType(s, a)
  BY DEF insert_finish, InsertEnd, IInv, PhasesOK
<1>2. heap' = Freed(heap, obj[s].ptr)
  BY <1>1, Released DEF insert_finish
<1>3. ub' = ub
  <2>1. InPlace(a) \/ InBox(a)
    BY <1>1 DEF IInv, StorageMatchesVtable
  <2>2. as_mut_reachable(StorageOf[s], obj[a], obj[a].vtable)
    BY <1>1, <2>1 DEF as_mut_reachable, InPlace, InBox, SameType
  <2>3. ReleaseFaults(s) = {}
    BY <1>1, ReleaseAllowed DEF ReleaseFaults, Fault
  <2> QED
    BY <1>1, <2>2, <2>3 DEF insert_finish, Fault
<1>4. pinAddr' = PinAccess(s, Held(source[s]), obj[source[s]])
  BY DEF insert_finish, Held
<1> QED
  BY <1>2, <1>3, <1>4, InsertEnds DEF insert_finish

LEMMA InsertUnwindStep ==
    ASSUME IInv, NEW s \in Slots, insert_unwind(s)
    PROVE  /\ IInv'
           /\ \A a \in Slots : a = source[s] =>
                 Held(s)' = Held(a) /\ Held(a)' = None /\ Kept({s, a})
BY InsertEnds DEF insert_unwind

-----------------------------------------------------------------------------
(* The theorems                                                            *)

(* Every operation of the client preserves IInv. *)
LEMMA NextIInv == IInv /\ [Next]_vars => IInv'
<1> SUFFICES ASSUME IInv, [Next]_vars PROVE IInv'
  OBVIOUS
<1>1. ASSUME NEW s \in Slots, NEW v \in Vals, new(s, v) PROVE IInv'
  BY <1>1, NewStep
<1>2. ASSUME NEW s \in Slots, NEW v \in Vals, from_box(s, v) PROVE IInv'
  BY <1>2, FromBoxStep
<1>3. ASSUME NEW s \in Slots, NEW t \in Slots, NEW v \in Vals, insert(s, t, v) PROVE IInv'
  BY <1>3, InsertStep
<1>4. ASSUME NEW s \in Slots, NEW t \in Slots, NEW v \in Vals, insert_start(s, t, v) PROVE IInv'
  BY <1>4, InsertStartStep
<1>5. ASSUME NEW s \in Slots, insert_finish(s) PROVE IInv'
  BY <1>5, InsertFinishStep
<1>6. ASSUME NEW s \in Slots, insert_unwind(s) PROVE IInv'
  BY <1>6, InsertUnwindStep
<1>7. ASSUME NEW s \in Slots, drop_start(s) PROVE IInv'
  BY <1>7, DropStartStep
<1>8. ASSUME NEW s \in Slots, drop_finish(s) PROVE IInv'
  BY <1>8, DropFinishStep
<1>9. ASSUME NEW s \in Slots, drop_unwind(s) PROVE IInv'
  BY <1>9, DropUnwindStep
<1>10. ASSUME NEW s \in Slots, NEW recv \in {"Ref", "Mut", "Pinned"}, method(s, recv) PROVE IInv'
  BY <1>10, MethodStep
<1>11. ASSUME NEW s \in Slots, NEW T \in Types, downcast_ref(s, T) PROVE IInv'
  BY <1>11, DowncastRefStep
<1>12. ASSUME NEW s \in Slots, NEW T \in Types, downcast_mut(s, T) PROVE IInv'
  BY <1>12, DowncastRefStep DEF downcast_mut
<1>13. ASSUME NEW s \in Slots, NEW T \in Types, downcast(s, T) PROVE IInv'
  BY <1>13, DowncastStep
<1>14. ASSUME NEW s \in Slots, end_borrow(s) PROVE IInv'
  BY <1>14, EndBorrowStep
<1>15. ASSUME NEW s \in Slots, NEW t \in Slots, move(s, t) PROVE IInv'
  BY <1>15, MoveStep
<1>16. ASSUME NEW s \in Slots, pin(s) PROVE IInv'
  BY <1>16, PinStep
<1>17. ASSUME NEW v \in Vals, box_new(v) PROVE IInv'
  BY <1>17, BoxNewStep
<1>18. ASSUME NEW v \in Vals, client_drop(v) PROVE IInv'
  BY <1>18, ClientDropStep
<1>19. CASE UNCHANGED vars
  BY <1>19 DEF vars, progVars, histVars, IInv, TypeOK, StorageMatchesVtable, InPlace, InBox,
     BoxesOK, OwnedOnce, DroppedExactlyOnce, PhasesOK, LostOK, LeaksOnlyOnPanic, AddressesOK,
     PinsOK, NoUB, Alive, Held, Data, Full, HasDropFn, IsFree, DataAddr, SameType
<1> QED
  BY <1>1, <1>2, <1>3, <1>4, <1>5, <1>6, <1>7, <1>8, <1>9, <1>10, <1>11, <1>12, <1>13, <1>14,
     <1>15, <1>16, <1>17, <1>18, <1>19 DEF Next

(* The invariant holds of every client program. *)
THEOREM Invariance == Spec => []IInv
<1>1. Init => IInv
  BY InitIInv
<1>2. IInv /\ [Next]_vars => IInv'
  BY NextIInv
<1> QED
  BY <1>1, <1>2, PTL DEF Spec

(* Type correctness: in particular no destructor is called twice. *)
THEOREM TypeCorrect == Spec => []TypeOK
<1>1. IInv => TypeOK
  BY DEF IInv
<1> QED
  BY <1>1, Invariance, PTL

(* No unsafe block of storage.rs, object.rs or impls.rs is ever executed   *)
(* without its precondition.                                               *)
THEOREM MemorySafe == Spec => []NoUB
<1>1. IInv => NoUB
  BY DEF IInv
<1> QED
  BY <1>1, Invariance, PTL

(* The variant of the storage, the object and the vtable always agree, so  *)
(* unreachable_unchecked in RawOrBox is never reached.                     *)
THEOREM StorageConsistent == Spec => []StorageMatchesVtable
<1>1. IInv => StorageMatchesVtable
  BY DEF IInv
<1> QED
  BY <1>1, Invariance, PTL

(* No object ever has two owners. *)
THEOREM SingleOwner == Spec => []OwnedOnce
<1>1. IInv => OwnedOnce
  BY DEF IInv
<1> QED
  BY <1>1, Invariance, PTL

(* The destructor of each object is called once when it is given up, and   *)
(* not before.                                                             *)
THEOREM DropOnce == Spec => []DroppedExactlyOnce
<1>1. IInv => DroppedExactlyOnce
  BY DEF IInv
<1> QED
  BY <1>1, Invariance, PTL

(* A block is given back unless the destructor of its object panicked. *)
THEOREM NoOtherLeak == Spec => []LeaksOnlyOnPanic
<1>1. IInv => LeaksOnlyOnPanic
  BY DEF IInv
<1> QED
  BY <1>1, Invariance, PTL

(* A pinned object does not move until its destructor is called. *)
THEOREM PinRespected == Spec => []PinnedInPlace
<1>1. IInv => PinnedInPlace
  BY DEF IInv, PinsOK, PinnedInPlace
<1> QED
  BY <1>1, Invariance, PTL
=============================================================================
