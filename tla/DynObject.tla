----------------------------- MODULE DynObject -----------------------------
(***************************************************************************)
(* DynObject<Dyn, S> of src/object.rs, with the trait impls of             *)
(* src/impls.rs, driven by an arbitrary safe client.                       *)
(*                                                                         *)
(* A slot is a place of the client's program of type Option<DynObject>.    *)
(* The client creates objects in slots, calls them, moves them from slot   *)
(* to slot, pins slots, replaces and drops objects, in any order and on    *)
(* several slots at once: an operation that calls back into the erased     *)
(* type (its destructor, its methods) has a step that starts the callback  *)
(* and steps for its return and its unwinding, so that anything may happen *)
(* on the other slots in between, whether by re-entrance or on another     *)
(* thread.  What the borrow checker and Pin forbid the client is a guard.  *)
(*                                                                         *)
(* ub collects the unsafe operations that were executed without their      *)
(* precondition, as Miri would report them; the code is right when it      *)
(* stays empty.                                                            *)
(***************************************************************************)
EXTENDS Storage

CONSTANTS
    Slots,      \* places of type Option<DynObject<Dyn, S>>
    StorageOf,  \* the storage type S of each slot
    DynOf,      \* the trait object type Dyn of each slot
    MaxAddr     \* bound on the address of a slot

Dyns == {"Any", "Future", "Iterator"}

ASSUME SlotsAssumption ==
    /\ None \notin Slots /\ Dangling \notin Slots /\ Slots \cap Blocks = {}
    /\ StorageOf \in [Slots -> StorageTypes]
    /\ DynOf \in [Slots -> Dyns]
    /\ MaxAddr \in Nat

VARIABLES
    addr,     \* the address of each slot
    obj,      \* the DynObject in each slot: its storage and its vtable
    phase,    \* the callback in progress on each slot
    source,   \* during an insert, the slot that holds the new object
    pinned,   \* the slots behind a Pin
    client,   \* the objects the client owns by value
    boxed,    \* the objects the client owns in a std Box, with its pointer
    drops,    \* history: how often the destructor of each object was called
    pinAddr,  \* history: where each object was when first accessed pinned
    lost,     \* history: blocks whose object's destructor panicked
    ub        \* history: unsafe operations executed without precondition

progVars == <<addr, obj, heap, phase, source, pinned, client, boxed>>
histVars == <<drops, pinAddr, lost, ub>>
vars == <<progVars, histVars>>

(* None of an Option<DynObject>. *)
NoObj == [tag |-> "None", ptr |-> None, buf |-> None, vtable |-> None]

Objects == [tag : {"None", "Raw", "Box"}, ptr : Ptrs, buf : Vals \cup {None},
            vtable : Types \cup {None}]

Phases == {"idle", "borrowed", "drop", "insert", "temp"}

(* Types, and the value ranges an unsafe operation can take. *)
TypeOK ==
    /\ addr \in [Slots -> 1..MaxAddr]
    /\ obj \in [Slots -> Objects]
    /\ heap \in [Blocks -> [layout : Layouts \cup {NoLayout}, data : Vals \cup {None}]]
    /\ phase \in [Slots -> Phases]
    /\ source \in [Slots -> Slots \cup {None}]
    /\ pinned \in [Slots -> BOOLEAN]
    /\ client \in SUBSET Vals
    /\ boxed \in [Vals -> Ptrs]
    /\ drops \in [Vals -> 0..1]
    /\ pinAddr \in [Vals -> Slots \cup Ptrs]
    /\ lost \in SUBSET Blocks
    /\ ub \in SUBSET {"write", "unreachable", "access", "drop", "dealloc"}

Init ==
    /\ addr \in {f \in [Slots -> 1..MaxAddr] :
                    \A s \in Slots : f[s] % storage_align(StorageOf[s]) = 0}
    /\ obj = [s \in Slots |-> NoObj]
    /\ heap = [b \in Blocks |-> FreeBlock]
    /\ phase = [s \in Slots |-> "idle"]
    /\ source = [s \in Slots |-> None]
    /\ pinned = [s \in Slots |-> FALSE]
    /\ client = Vals
    /\ boxed = [v \in Vals |-> None]
    /\ drops = [v \in Vals |-> 0]
    /\ pinAddr = [v \in Vals |-> None]
    /\ lost = {}
    /\ ub = {}

-----------------------------------------------------------------------------
(* The static vtable of T: its fields, as DynTrait reads them.             *)

(* Mutants: the drop function is never there; the layout is not that of T. *)
drop_in_place_fn_none(T) == FALSE
layout_unaligned(T) == [LayoutOf(T) EXCEPT !.align = 1]

drop_in_place_fn(T) == NeedsDrop[T]
layout(T) == LayoutOf(T)
type_id(T) == T

(* The receivers of the vtable methods of each trait object type.          *)
receivers(D) == CASE D = "Future" -> {"Pinned"}
                  [] D = "Iterator" -> {"Mut", "Ref"}
                  [] OTHER -> {}

-----------------------------------------------------------------------------
(* Reading the state                                                       *)

Idle(s) == phase[s] = "idle"
Full(s) == obj[s] # NoObj
Held(s) == Data(heap, obj[s])
DataAddr(s, o) == IF o.ptr = None THEN s ELSE o.ptr
SameType(s, t) == StorageOf[s] = StorageOf[t] /\ DynOf[s] = DynOf[t]

(* Using the data pointer of slot s at type T is defined. *)
AccessOK(s, T) ==
    /\ Held(s) \in Vals
    /\ TypeOf[Held(s)] = T
    /\ drops[Held(s)] = 0
    /\ obj[s].tag = "Raw" => raw_write_ok(StorageOf[s], T, addr[s])
    /\ obj[s].tag = "Box" => \/ obj[s].ptr = Dangling /\ SizeOf[T] = 0
                             \/ obj[s].ptr \in Blocks /\ heap[obj[s].ptr].layout = LayoutOf(T)

Fault(ok, what) == IF ok THEN {} ELSE {what}

(* storage.as_ref / as_mut / as_pinned_mut::<T>() and the use of the result. *)
AccessFaults(s, T) ==
    Fault(as_mut_reachable(StorageOf[s], obj[s], T), "unreachable")
        \cup Fault(AccessOK(s, T), "access")

(* The destructor that drop_inner calls runs on the object it is given. *)
Dropped(v) == IF v \in Vals THEN [drops EXCEPT ![v] = @ + 1] ELSE drops

-----------------------------------------------------------------------------
(* DynObject::new, DynObject::from_box                                     *)

(* The DynObject that `new` builds for v at pointer p (None: in place). *)
NewObj(S, v, p) ==
    [tag |-> new_tag(S, TypeOf[v]), ptr |-> p,
     buf |-> IF p \in Blocks THEN None ELSE v, vtable |-> TypeOf[v]]

(* Storage::new allocates through std's Box unless the object goes in place. *)
NewPtrs(S, T) == IF new_tag(S, T) = "Raw" THEN {None} ELSE AllocPtrs(T)

NewFaults(s, v) ==
    Fault(new_tag(StorageOf[s], TypeOf[v]) = "Raw"
            => raw_write_ok(StorageOf[s], TypeOf[v], addr[s]), "write")

new(s, v) ==
    /\ Idle(s) /\ ~Full(s) /\ v \in client
    /\ new_compiles(StorageOf[s], TypeOf[v])
    /\ \E p \in NewPtrs(StorageOf[s], TypeOf[v]) :
          /\ obj' = [obj EXCEPT ![s] = NewObj(StorageOf[s], v, p)]
          /\ heap' = Allocated(heap, p, v)
    /\ client' = client \ {v}
    /\ ub' = ub \cup NewFaults(s, v)
    /\ UNCHANGED <<addr, phase, source, pinned, boxed, drops, pinAddr, lost>>

(* The pointer is kept, or the object is moved in place and the box freed. *)
from_box(s, v) ==
    LET S == StorageOf[s]
        T == TypeOf[v]
        tag == from_box_tag(S, T)
    IN  /\ Idle(s) /\ ~Full(s) /\ boxed[v] # None
        /\ from_box_compiles(S)
        /\ \/ /\ tag = "Raw"
              /\ obj' = [obj EXCEPT ![s] = [tag |-> tag, ptr |-> None, buf |-> v, vtable |-> T]]
              /\ heap' = Freed(heap, boxed[v])
              /\ ub' = ub \cup Fault(raw_write_ok(S, T, addr[s]), "write")
           \/ /\ tag = "Box"
              /\ obj' = [obj EXCEPT ![s] = [tag |-> tag, ptr |-> boxed[v],
                                            buf |-> IF boxed[v] \in Blocks THEN None ELSE v,
                                            vtable |-> T]]
              /\ UNCHANGED <<heap, ub>>
        /\ boxed' = [boxed EXCEPT ![v] = None]
        /\ UNCHANGED <<addr, phase, source, pinned, client, drops, pinAddr, lost>>

-----------------------------------------------------------------------------
(* Drop for DynObject: drop_inner(ptr) if the vtable has a drop function,  *)
(* then storage.drop_in_place(layout).                                     *)

HasDropFn(s) == Full(s) /\ drop_in_place_fn(obj[s].vtable)

(* Storage::drop_in_place of the object in s, applied to heap h. *)
ReleasedFrom(h, s) == drop_in_place(h, obj[s], layout(obj[s].vtable))
ReleaseFaults(s) == Fault(dealloc_ok(heap, obj[s], layout(obj[s].vtable)), "dealloc")

(* drop_inner is called: the destructor of the object starts. *)
drop_start(s) ==
    /\ Idle(s) /\ HasDropFn(s)
    /\ phase' = [phase EXCEPT ![s] = "drop"]
    /\ drops' = Dropped(Held(s))
    /\ ub' = ub \cup Fault(AccessOK(s, obj[s].vtable), "drop")
    /\ UNCHANGED <<addr, obj, heap, source, pinned, client, boxed, pinAddr, lost>>

(* The storage is released after the destructor has returned, or at once   *)
(* when the type has none.  The place then goes out of scope.              *)
drop_finish(s) ==
    /\ phase[s] = "drop" \/ (Idle(s) /\ Full(s) /\ ~HasDropFn(s))
    /\ obj' = [obj EXCEPT ![s] = NoObj]
    /\ heap' = ReleasedFrom(heap, s)
    /\ ub' = ub \cup ReleaseFaults(s)
    /\ phase' = [phase EXCEPT ![s] = "idle"]
    /\ pinned' = [pinned EXCEPT ![s] = FALSE]
    /\ UNCHANGED <<addr, source, client, boxed, drops, pinAddr, lost>>

(* Mutant of drop_unwind: the object stays in the slot. *)
drop_unwind_keeps(s) ==
    /\ phase[s] = "drop"
    /\ phase' = [phase EXCEPT ![s] = "idle"]
    /\ UNCHANGED <<addr, obj, heap, source, pinned, client, boxed, histVars>>

(* The destructor panics: unwinding leaves `drop` before drop_in_place, and*)
(* the storage, which has no destructor of its own, is gone.               *)
drop_unwind(s) ==
    /\ phase[s] = "drop"
    /\ obj' = [obj EXCEPT ![s] = NoObj]
    /\ phase' = [phase EXCEPT ![s] = "idle"]
    /\ pinned' = [pinned EXCEPT ![s] = FALSE]
    /\ lost' = lost \cup ({obj[s].ptr} \cap Blocks)
    /\ UNCHANGED <<addr, heap, source, client, boxed, drops, pinAddr, ub>>

-----------------------------------------------------------------------------
(* DynObject::insert and insert_pinned (the slot is pinned): Option::insert*)
(* of a new object, then as_mut on it.  The new object is built in a       *)
(* temporary, slot t, before the old one is dropped.                       *)

PinAccess(s, v, o) ==
    IF pinned[s] THEN [pinAddr EXCEPT ![v] = DataAddr(s, o)] ELSE pinAddr

(* The slot was empty, or its object needs no destructor. *)
insert(s, t, v) ==
    /\ Idle(s) /\ Idle(t) /\ s # t /\ SameType(s, t) /\ ~Full(t) /\ ~pinned[t]
    /\ v \in client /\ new_compiles(StorageOf[s], TypeOf[v])
    /\ ~HasDropFn(s)
    /\ \E p \in NewPtrs(StorageOf[s], TypeOf[v]) :
          LET o == NewObj(StorageOf[s], v, p)
          IN  /\ obj' = [obj EXCEPT ![s] = o]
              /\ heap' = IF Full(s) THEN ReleasedFrom(Allocated(heap, p, v), s)
                                    ELSE Allocated(heap, p, v)
              /\ ub' = ub \cup NewFaults(t, v)
                          \cup (IF Full(s) THEN ReleaseFaults(s) ELSE {})
                          \cup Fault(as_mut_reachable(StorageOf[s], o, TypeOf[v]), "unreachable")
              /\ pinAddr' = PinAccess(s, v, o)
    /\ client' = client \ {v}
    /\ UNCHANGED <<addr, phase, source, pinned, boxed, drops, lost>>

(* The old object has a destructor, which starts. *)
insert_start(s, t, v) ==
    /\ Idle(s) /\ Idle(t) /\ s # t /\ SameType(s, t) /\ ~Full(t) /\ ~pinned[t]
    /\ v \in client /\ new_compiles(StorageOf[s], TypeOf[v])
    /\ HasDropFn(s)
    /\ \E p \in NewPtrs(StorageOf[s], TypeOf[v]) :
          /\ obj' = [obj EXCEPT ![t] = NewObj(StorageOf[s], v, p)]
          /\ heap' = Allocated(heap, p, v)
    /\ phase' = [phase EXCEPT ![s] = "insert", ![t] = "temp"]
    /\ source' = [source EXCEPT ![s] = t]
    /\ client' = client \ {v}
    /\ drops' = Dropped(Held(s))
    /\ ub' = ub \cup NewFaults(t, v) \cup Fault(AccessOK(s, obj[s].vtable), "drop")
    /\ UNCHANGED <<addr, pinned, boxed, pinAddr, lost>>

(* The new object is moved from the temporary into the slot. *)
Assigned(s) == [obj EXCEPT ![s] = obj[source[s]], ![source[s]] = NoObj]

InsertEnd(s) ==
    /\ phase[s] = "insert"
    /\ obj' = Assigned(s)
    /\ phase' = [phase EXCEPT ![s] = "idle", ![source[s]] = "idle"]
    /\ source' = [source EXCEPT ![s] = None]

insert_finish(s) ==
    LET o == obj[source[s]]
    IN  /\ InsertEnd(s)
        /\ heap' = ReleasedFrom(heap, s)
        /\ ub' = ub \cup ReleaseFaults(s)
                    \cup Fault(as_mut_reachable(StorageOf[s], o, o.vtable), "unreachable")
        /\ pinAddr' = PinAccess(s, Data(heap, o), o)
        /\ UNCHANGED <<addr, pinned, client, boxed, drops, lost>>

(* Mutants of insert_unwind: the new object is forgotten in the temporary, *)
(* or the slot keeps the old one.                                          *)
insert_unwind_forgets(s) ==
    /\ phase[s] = "insert"
    /\ obj' = [obj EXCEPT ![s] = NoObj, ![source[s]] = NoObj]
    /\ phase' = [phase EXCEPT ![s] = "idle", ![source[s]] = "idle"]
    /\ source' = [source EXCEPT ![s] = None]
    /\ UNCHANGED <<addr, heap, pinned, client, boxed, histVars>>

insert_unwind_keeps_old(s) ==
    /\ phase[s] = "insert"
    /\ phase' = [phase EXCEPT ![s] = "idle", ![source[s]] = "idle"]
    /\ source' = [source EXCEPT ![s] = None]
    /\ UNCHANGED <<addr, obj, heap, pinned, client, boxed, histVars>>

(* The old object's destructor panics: the assignment of Option::insert    *)
(* still writes the new object while unwinding.                            *)
insert_unwind(s) ==
    /\ InsertEnd(s)
    /\ lost' = lost \cup ({obj[s].ptr} \cap Blocks)
    /\ UNCHANGED <<addr, heap, pinned, client, boxed, drops, pinAddr, ub>>

-----------------------------------------------------------------------------
(* Calls through the vtable, and dyn Any                                   *)

(* A vtable method: the erased function casts the storage to the type it   *)
(* was monomorphized for and calls the method of that type.                *)
method(s, recv) ==
    /\ Idle(s) /\ Full(s) /\ recv \in receivers(DynOf[s])
    /\ recv = "Pinned" => pinned[s]
    /\ recv = "Mut" => ~pinned[s]
    /\ phase' = [phase EXCEPT ![s] = "borrowed"]
    /\ ub' = ub \cup AccessFaults(s, obj[s].vtable)
    /\ pinAddr' = IF recv = "Pinned" THEN PinAccess(s, Held(s), obj[s]) ELSE pinAddr
    /\ UNCHANGED <<addr, obj, heap, source, pinned, client, boxed, drops, lost>>

is(s, T) == type_id(obj[s].vtable) = T

(* downcast_ref and downcast_mut, when they return Some; on another type    *)
(* they return None and nothing changes.                                   *)
downcast_ref(s, T) ==
    /\ Idle(s) /\ Full(s) /\ DynOf[s] = "Any" /\ is(s, T)
    /\ phase' = [phase EXCEPT ![s] = "borrowed"]
    /\ ub' = ub \cup AccessFaults(s, T)
    /\ UNCHANGED <<addr, obj, heap, source, pinned, client, boxed, drops, pinAddr, lost>>

downcast_mut(s, T) == ~pinned[s] /\ downcast_ref(s, T)

(* The method returns or unwinds, or the borrow ends. *)
end_borrow(s) ==
    /\ phase[s] = "borrowed"
    /\ phase' = [phase EXCEPT ![s] = "idle"]
    /\ UNCHANGED <<addr, obj, heap, source, pinned, client, boxed, drops, pinAddr, lost, ub>>

(* Mutant of downcast: without ManuallyDrop the DynObject is still there. *)
downcast_copies(s, T) ==
    /\ Idle(s) /\ Full(s) /\ ~pinned[s] /\ DynOf[s] = "Any" /\ is(s, T)
    /\ client' = client \cup ({Held(s)} \cap Vals)
    /\ UNCHANGED <<addr, obj, heap, phase, source, pinned, boxed, histVars>>

(* downcast, when it returns Ok: the object is read out, and the storage   *)
(* released with the layout of T while ManuallyDrop keeps `drop` away.  On *)
(* another type it returns Err(self), unchanged.                           *)
downcast(s, T) ==
    /\ Idle(s) /\ Full(s) /\ ~pinned[s] /\ DynOf[s] = "Any" /\ is(s, T)
    /\ client' = client \cup ({Held(s)} \cap Vals)
    /\ obj' = [obj EXCEPT ![s] = NoObj]
    /\ heap' = drop_in_place(heap, obj[s], LayoutOf(T))
    /\ ub' = ub \cup Fault(AccessOK(s, T), "access")
                \cup Fault(dealloc_ok(heap, obj[s], LayoutOf(T)), "dealloc")
    /\ UNCHANGED <<addr, phase, source, pinned, boxed, drops, pinAddr, lost>>

-----------------------------------------------------------------------------
(* The client                                                              *)

(* Mutant of Movable: DynObject is Unpin whatever Dyn is. *)
movable_always(s) == TRUE

(* DynObject is Unpin only if Dyn is: a pinned object cannot be moved. *)
Movable(s) == ~pinned[s]

move(s, t) ==
    /\ Idle(s) /\ Full(s) /\ Movable(s)
    /\ Idle(t) /\ ~Full(t) /\ SameType(s, t)
    /\ obj' = [obj EXCEPT ![s] = NoObj, ![t] = obj[s]]
    /\ UNCHANGED <<addr, heap, phase, source, pinned, client, boxed, histVars>>

pin(s) ==
    /\ Idle(s) /\ ~pinned[s]
    /\ pinned' = [pinned EXCEPT ![s] = TRUE]
    /\ UNCHANGED <<addr, obj, heap, phase, source, client, boxed, histVars>>

box_new(v) ==
    /\ Alloc /\ v \in client
    /\ \E p \in AllocPtrs(TypeOf[v]) :
          /\ boxed' = [boxed EXCEPT ![v] = p]
          /\ heap' = Allocated(heap, p, v)
    /\ client' = client \ {v}
    /\ UNCHANGED <<addr, obj, phase, source, pinned, histVars>>

(* The client drops what it owns itself. *)
client_drop(v) ==
    /\ v \in client \/ boxed[v] # None
    /\ client' = client \ {v}
    /\ boxed' = [boxed EXCEPT ![v] = None]
    /\ heap' = Freed(heap, boxed[v])
    /\ drops' = IF NeedsDrop[TypeOf[v]] THEN Dropped(v) ELSE drops
    /\ UNCHANGED <<addr, obj, phase, source, pinned, pinAddr, lost, ub>>

Next ==
    \/ \E s \in Slots :
          \/ \E v \in Vals : new(s, v)
          \/ \E v \in Vals : from_box(s, v)
          \/ \E t \in Slots, v \in Vals : insert(s, t, v)
          \/ \E t \in Slots, v \in Vals : insert_start(s, t, v)
          \/ insert_finish(s)
          \/ insert_unwind(s)
          \/ drop_start(s)
          \/ drop_finish(s)
          \/ drop_unwind(s)
          \/ \E recv \in {"Ref", "Mut", "Pinned"} : method(s, recv)
          \/ \E T \in Types : downcast_ref(s, T)
          \/ \E T \in Types : downcast_mut(s, T)
          \/ \E T \in Types : downcast(s, T)
          \/ end_borrow(s)
          \/ \E t \in Slots : move(s, t)
          \/ pin(s)
    \/ \E v \in Vals : box_new(v)
    \/ \E v \in Vals : client_drop(v)

Spec == Init /\ [][Next]_vars

-----------------------------------------------------------------------------
(* Properties                                                              *)

(* The object is owned and its destructor has not been called. *)
Alive(v) ==
    \/ v \in client
    \/ boxed[v] # None
    \/ \E s \in Slots : Held(s) = v /\ phase[s] \notin {"drop", "insert"}

(* Every unsafe block of storage.rs, object.rs and impls.rs runs with its  *)
(* precondition, whatever the client does: in-place writes fit and are     *)
(* aligned, unreachable_unchecked is not reached, accesses and destructors *)
(* find a live object of the type the vtable was built for, and dealloc    *)
(* gets a live block and the layout it was allocated with.                 *)
NoUB == ub = {}

(* DynObject moves bits around with ptr::write, ptr::read and into_raw: no *)
(* object ever has two owners, across slots, temporaries, boxes and client.*)
OwnedOnce ==
    /\ \A s, t \in Slots : Full(s) /\ Full(t) /\ Held(s) = Held(t) => s = t
    /\ \A s \in Slots : Held(s) \notin client \cup {v \in Vals : boxed[v] # None}
    /\ \A v \in client : boxed[v] = None

(* drop_inner of DynObject::drop, or the client's own drop, is called once *)
(* on each object with a destructor that is no longer owned, and on no     *)
(* other: also when an insert or a destructor unwinds.                     *)
DroppedExactlyOnce ==
    \A v \in Vals :
        drops[v] = IF NeedsDrop[TypeOf[v]] /\ ~Alive(v) THEN 1 ELSE 0

(* Storage::drop_in_place gives every block back: a live block belongs to a*)
(* box or a DynObject, except when the object's destructor panicked.       *)
LeaksOnlyOnPanic ==
    \A b \in Blocks :
        IsFree(b) \/ b \in lost \/ (\E v \in Vals : boxed[v] = b) \/ (\E s \in Slots : obj[s].ptr = b)

(* Pin: an object once handed out pinned (Future::poll, insert_pinned) is  *)
(* at the same address until its destructor is called, or for good when it *)
(* has none.                                                               *)
PinnedInPlace ==
    \A v \in Vals :
        pinAddr[v] # None /\ Alive(v) =>
            \E s \in Slots : Held(s) = v /\ DataAddr(s, obj[s]) = pinAddr[v]

(* Storage and vtable agree: the object is in place exactly when RawOrBox  *)
(* can store it (the SAFETY comment of its as_ref and as_mut), it has the  *)
(* type of the vtable, and a block has the layout that the vtable gives to *)
(* Storage::drop_in_place.                                                 *)
InPlace(s) ==
    /\ obj[s].tag = "Raw" /\ obj[s].ptr = None
    /\ can_store(StorageOf[s], obj[s].vtable) /\ StorageOf[s].kind # "Box"

InBox(s) ==
    /\ obj[s].tag = "Box" /\ StorageOf[s].kind # "Raw"
    /\ StorageOf[s].kind = "RawOrBox" => ~can_store(StorageOf[s], obj[s].vtable)
    /\ \/ obj[s].ptr = Dangling /\ SizeOf[obj[s].vtable] = 0
       \/ /\ obj[s].ptr \in Blocks /\ obj[s].buf = None /\ SizeOf[obj[s].vtable] # 0
          /\ heap[obj[s].ptr].layout = layout(obj[s].vtable)

StorageMatchesVtable ==
    \A s \in Slots : Full(s) =>
        /\ InPlace(s) \/ InBox(s)
        /\ Held(s) \in Vals /\ TypeOf[Held(s)] = obj[s].vtable

(* The life of an object, as its owner sees it. *)
LifeOf(v) ==
    IF v \in client \/ boxed[v] # None THEN "client"
    ELSE IF \E s \in Slots : Held(s) = v /\ phase[s] \in {"drop", "insert"} THEN "dying"
    ELSE IF \E s \in Slots : Held(s) = v THEN "held"
    ELSE "gone"

Places == INSTANCE Container WITH
    Droppable <- {v \in Vals : NeedsDrop[TypeOf[v]]},
    holds <- [s \in Slots |-> Held(s)],
    state <- [v \in Vals |-> LifeOf(v)]

(* A place of type Option<DynObject> behaves like one of type              *)
(* Option<Box<dyn Trait>>, whichever storage is behind it.                 *)
ImplementsContainer == Places!CSpec
=============================================================================
