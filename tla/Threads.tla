------------------------------ MODULE Threads ------------------------------
(***************************************************************************)
(* DynObject across threads: which objects the Vtable impls let in, and    *)
(* what the Send and Sync impls of src/object.rs let the client do with    *)
(* them.                                                                   *)
(*                                                                         *)
(* A trait object type Dyn is a record of its trait and the auto traits    *)
(* among its bounds.  The erased object keeps its own auto traits, which   *)
(* the compiler no longer sees.  The client's threads own DynObjects, send *)
(* them, lend them to each other and call them; the guards are what the    *)
(* compiler checks.  Storage and unwinding are in DynObject.               *)
(***************************************************************************)
CONSTANTS
    Threads,
    Slots,      \* places of type Option<DynObject<Dyn, S>>
    DynOf,      \* the trait object type Dyn of each slot
    Vals,       \* the objects of the program
    AutoTraits, \* the auto traits of each object's type
    HomeOf,     \* the thread that made each object
    None

Bounds == SUBSET {"Send", "Sync"}
Dyns == [trait : {"Any", "Future", "Iterator", "Custom"}, bounds : Bounds]

ASSUME ThreadsAssumption ==
    /\ DynOf \in [Slots -> Dyns]
    /\ AutoTraits \in [Vals -> Bounds]
    /\ HomeOf \in [Vals -> Threads]
    /\ None \notin Threads /\ None \notin Vals

VARIABLES
    place,  \* the thread that owns each object by value
    held,   \* the object in each slot
    at,     \* the thread that owns each slot
    refs,   \* the threads each slot is lent to, as &DynObject
    calls   \* the calls into the object of each slot: thread and access

vars == <<place, held, at, refs, calls>>

Calls == [thread : Threads, access : {"Ref", "Mut", "Drop"}]

(* Types of the state. *)
TypeOK ==
    /\ place \in [Vals -> Threads \cup {None}]
    /\ held \in [Slots -> Vals \cup {None}]
    /\ at \in [Slots -> Threads \cup {None}]
    /\ refs \in [Slots -> SUBSET Threads]
    /\ calls \in [Slots -> SUBSET Calls]

Init ==
    /\ place = HomeOf
    /\ held = [s \in Slots |-> None]
    /\ at = [s \in Slots |-> None]
    /\ refs = [s \in Slots |-> {}]
    /\ calls = [s \in Slots |-> {}]

-----------------------------------------------------------------------------
(* Mutant of admits: the bounds are not asked of the object. *)
admits_all(D, T) == TRUE

(* Vtable<__Dyn> for Dyn: __Dyn has to implement dyn_trait with its bounds,*)
(* but any_impl! only asks for core::any::Any.                             *)
admits(D, T) == D.trait = "Any" \/ D.bounds \subseteq T

(* Mutant of is_sync: Sync for DynObject needs Dyn: Send only. *)
is_sync_if_send(D) == "Send" \in D.bounds

(* Send for DynObject, Sync for DynObject *)
is_send(D) == "Send" \in D.bounds
is_sync(D) == "Sync" \in D.bounds

-----------------------------------------------------------------------------
Full(s) == held[s] # None
Unused(s) == refs[s] = {} /\ calls[s] = {}
Call(t, a) == [thread |-> t, access |-> a]

(* DynObject::new in thread t *)
new(s, t, v) ==
    /\ ~Full(s) /\ place[v] = t
    /\ admits(DynOf[s], AutoTraits[v])
    /\ place' = [place EXCEPT ![v] = None]
    /\ held' = [held EXCEPT ![s] = v]
    /\ at' = [at EXCEPT ![s] = t]
    /\ UNCHANGED <<refs, calls>>

(* A method with receiver &self, size_hint or downcast_ref, in thread t. *)
call_ref(s, t) ==
    /\ Full(s) /\ t \in refs[s] \cup {at[s]}
    /\ \A c \in calls[s] : c.thread # t /\ c.access = "Ref"
    /\ calls' = [calls EXCEPT ![s] = @ \cup {Call(t, "Ref")}]
    /\ UNCHANGED <<place, held, at, refs>>

(* A method with receiver &mut self or Pin<&mut Self>, or downcast_mut. *)
call_mut(s) ==
    /\ Full(s) /\ Unused(s)
    /\ calls' = [calls EXCEPT ![s] = {Call(at[s], "Mut")}]
    /\ UNCHANGED <<place, held, at, refs>>

end_call(s, t) ==
    /\ \E c \in calls[s] : c.thread = t /\ c.access # "Drop"
    /\ calls' = [calls EXCEPT ![s] = {c \in @ : c.thread # t}]
    /\ UNCHANGED <<place, held, at, refs>>

(* Drop for DynObject: the destructor runs in the owning thread. *)
drop(s) ==
    /\ Full(s) /\ Unused(s)
    /\ calls' = [calls EXCEPT ![s] = {Call(at[s], "Drop")}]
    /\ UNCHANGED <<place, held, at, refs>>

end_drop(s) ==
    /\ \E c \in calls[s] : c.access = "Drop"
    /\ calls' = [calls EXCEPT ![s] = {}]
    /\ held' = [held EXCEPT ![s] = None]
    /\ at' = [at EXCEPT ![s] = None]
    /\ UNCHANGED <<place, refs>>

(* downcast to the type of the object *)
downcast(s) ==
    /\ Full(s) /\ Unused(s) /\ DynOf[s].trait = "Any"
    /\ place' = [place EXCEPT ![held[s]] = at[s]]
    /\ held' = [held EXCEPT ![s] = None]
    /\ at' = [at EXCEPT ![s] = None]
    /\ UNCHANGED <<refs, calls>>

-----------------------------------------------------------------------------
(* The client: what the compiler accepts.                                  *)

send(s, t) ==
    /\ Full(s) /\ Unused(s) /\ t # at[s] /\ is_send(DynOf[s])
    /\ at' = [at EXCEPT ![s] = t]
    /\ UNCHANGED <<place, held, refs, calls>>

(* &DynObject goes to another thread. *)
lend(s, t) ==
    /\ Full(s) /\ t \notin refs[s] \cup {at[s]} /\ is_sync(DynOf[s])
    /\ \A c \in calls[s] : c.access = "Ref"
    /\ refs' = [refs EXCEPT ![s] = @ \cup {t}]
    /\ UNCHANGED <<place, held, at, calls>>

end_lend(s, t) ==
    /\ t \in refs[s] /\ \A c \in calls[s] : c.thread # t
    /\ refs' = [refs EXCEPT ![s] = @ \ {t}]
    /\ UNCHANGED <<place, held, at, calls>>

(* The client sends an object that it owns by value. *)
send_value(v, t) ==
    /\ place[v] \notin {t, None} /\ "Send" \in AutoTraits[v]
    /\ place' = [place EXCEPT ![v] = t]
    /\ UNCHANGED <<held, at, refs, calls>>

Next ==
    \/ \E s \in Slots :
          \/ \E t \in Threads, v \in Vals : new(s, t, v)
          \/ \E t \in Threads : call_ref(s, t)
          \/ call_mut(s)
          \/ \E t \in Threads : end_call(s, t)
          \/ drop(s)
          \/ end_drop(s)
          \/ downcast(s)
          \/ \E t \in Threads : send(s, t)
          \/ \E t \in Threads : lend(s, t)
          \/ \E t \in Threads : end_lend(s, t)
    \/ \E v \in Vals, t \in Threads : send_value(v, t)

Spec == Init /\ [][Next]_vars

-----------------------------------------------------------------------------
(* Properties                                                              *)

(* The unsafe impls of Send and Sync for DynObject are sound: an object    *)
(* that is not Send is mutated and destroyed only by the thread that made  *)
(* it, and read by another one only if it is Sync.                         *)
ThreadConfined ==
    \A s \in Slots : \A c \in calls[s] :
        c.thread = HomeOf[held[s]]
          \/ (IF c.access = "Ref" THEN AutoTraits[held[s]] # {}
                                  ELSE "Send" \in AutoTraits[held[s]])

(* An object that is not Sync is never in use by two threads at once,      *)
(* whichever way the DynObject around it went.                             *)
NoSharedUse ==
    \A s \in Slots : \A c, d \in calls[s] :
        c.thread # d.thread => "Sync" \in AutoTraits[held[s]]
=============================================================================
