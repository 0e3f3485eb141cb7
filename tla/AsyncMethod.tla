---------------------------- MODULE AsyncMethod ----------------------------
(***************************************************************************)
(* The methods that #[dyn_trait(maybe_sync)] generates, at run time: they  *)
(* return a MaybeSync<DynObject<dyn Future, S>>.  MaybeSync is composed    *)
(* with DynObject: the Async variant holds a DynObject, in the slot where  *)
(* the MaybeSync itself is.  The caller moves it, pins it, polls it and    *)
(* drops it; a poll and a destructor take time during which other calls go *)
(* on.  Handovers between tasks are in MaybeSync alone.                    *)
(*                                                                         *)
(* The receivers are left out: the result borrows them only as far as the  *)
(* signature captures their lifetimes, so calls are made in any order.     *)
(***************************************************************************)
EXTENDS DynObject

CONSTANTS
    Calls, SyncImpls, Tasks, NoTask, MaxEvents, MaxMoves,   \* see MaybeSync
    FutureOf    \* the concrete future that each call creates if it is async

ASSUME MethodsAssumption ==
    /\ FutureOf \in [Calls -> Vals]
    /\ \A c, d \in Calls : FutureOf[c] = FutureOf[d] => c = d
    /\ SyncImpls \subseteq Calls /\ NoTask \notin Tasks
    /\ MaxEvents \in Nat /\ MaxMoves \in Nat

VARIABLES
    fut, body, output, deliveries, lastPoll, events, waker, woken, owner, moves,
    at      \* the slot of each call's MaybeSync

M == INSTANCE MaybeSync

syncVars == <<fut, body, output, deliveries, lastPoll, events, waker, woken, owner, moves>>
allVars == <<vars, syncVars, at>>

(* A #[sync] body waits for nothing. *)
MInit ==
    /\ Init /\ M!Init
    /\ \A c \in SyncImpls : events[c] = 0
    /\ at = [c \in Calls |-> None]

Live(c) == fut[c] \in {"Sync", "Async", "SyncPolled"}
Vacant(s) == Idle(s) /\ ~Full(s) /\ ~pinned[s] /\ \A c \in Calls : Live(c) => at[c] # s

-----------------------------------------------------------------------------
(* The generated method: the sync method is run, or the future of the async*)
(* one is put into a DynObject.  The result is stored in slot s.           *)
maybe_sync_impl(c, t, s) ==
    /\ Vacant(s)
    /\ M!call(c, t)
    /\ IF fut'[c] = "Async" THEN new(s, FutureOf[c]) ELSE UNCHANGED vars
    /\ at' = IF fut'[c] = "None" THEN at ELSE [at EXCEPT ![c] = s]

-----------------------------------------------------------------------------
(* Poll: the Async arm calls DynObject's poll through the vtable.          *)

Woken(c) == owner[c] \in woken[c]
PollStep(c) == M!run_task(c) \/ (~Woken(c) /\ M!poll_unwoken(c))

poll_begin(c) ==
    /\ fut[c] = "Async"
    /\ method(at[c], "Pinned")
    /\ UNCHANGED <<syncVars, at>>

poll_end(c) ==
    /\ fut[c] = "Async"
    /\ PollStep(c)
    /\ end_borrow(at[c])
    /\ UNCHANGED at

(* The other arms return or panic at once. *)
poll_sync(c) ==
    /\ fut[c] \in {"Sync", "SyncPolled"} /\ pinned[at[c]]
    /\ PollStep(c)
    /\ UNCHANGED <<vars, at>>

-----------------------------------------------------------------------------
(* Drop glue of MaybeSync: DynObject's drop in the Async variant.          *)

drop_begin(c) ==
    /\ fut[c] = "Async"
    /\ drop_start(at[c])
    /\ UNCHANGED <<syncVars, at>>

(* Mutant of drop_end: the variant has no drop glue. *)
drop_end_forgets(c) ==
    /\ fut[c] = "Async" /\ Idle(at[c])
    /\ M!drop_call(c)
    /\ obj' = [obj EXCEPT ![at[c]] = NoObj]
    /\ UNCHANGED <<addr, heap, phase, source, pinned, client, boxed, histVars, at>>

(* The destructor returns or panics; the MaybeSync is gone in either case. *)
drop_end(c) ==
    /\ fut[c] = "Async"
    /\ drop_finish(at[c]) \/ drop_unwind(at[c])
    /\ M!drop_call(c)
    /\ UNCHANGED at

drop_sync(c) ==
    /\ fut[c] \in {"Sync", "SyncPolled"}
    /\ M!drop_call(c)
    /\ pinned' = [pinned EXCEPT ![at[c]] = FALSE]
    /\ UNCHANGED <<addr, obj, heap, phase, source, client, boxed, histVars, at>>

-----------------------------------------------------------------------------
(* The caller                                                              *)

move_result(c, s) ==
    /\ Live(c) /\ Vacant(s) /\ Movable(at[c])
    /\ IF fut[c] = "Async" THEN move(at[c], s) ELSE UNCHANGED vars
    /\ at' = [at EXCEPT ![c] = s]
    /\ UNCHANGED <<syncVars>>

pin_result(c) ==
    /\ Live(c) /\ pin(at[c])
    /\ UNCHANGED <<syncVars, at>>

(* An event that fires when nobody waits is one that the future does not see. *)
fire(c) == fut[c] = "Async" /\ M!fire(c) /\ UNCHANGED <<vars, at>>

MNext ==
    \E c \in Calls :
        \/ \E t \in Tasks, s \in Slots : maybe_sync_impl(c, t, s)
        \/ poll_begin(c)
        \/ poll_end(c)
        \/ poll_sync(c)
        \/ drop_begin(c)
        \/ drop_end(c)
        \/ drop_sync(c)
        \/ \E s \in Slots : move_result(c, s)
        \/ pin_result(c)
        \/ fire(c)

InDrop(c) == at[c] # None /\ phase[at[c]] = "drop"

(* A woken task pins and polls, polls and destructors return, events happen.*)
Progress(c) ==
    /\ WF_allVars(Woken(c) /\ pin_result(c))
    /\ WF_allVars(Woken(c) /\ (poll_begin(c) \/ poll_sync(c)))
    /\ WF_allVars(poll_end(c))
    /\ WF_allVars(InDrop(c) /\ drop_end(c))
    /\ WF_allVars(fire(c))

MSpec == MInit /\ [][MNext]_allVars /\ \A c \in Calls : Progress(c)

-----------------------------------------------------------------------------
(* Properties                                                              *)

(* The variant of the MaybeSync and its storage agree through moves, drops *)
(* and panics: in Async the slot holds the future of this very call, which *)
(* once polled stays at its address; otherwise no slot holds it.           *)
FutureInPlace ==
    \A c \in Calls :
        IF fut[c] = "Async"
        THEN /\ Held(at[c]) = FutureOf[c]
             /\ body[c] # "idle" => pinAddr[FutureOf[c]] = DataAddr(at[c], obj[at[c]])
        ELSE \A s \in Slots : Held(s) # FutureOf[c]

(* With the future in a DynObject and a poll that takes time, a call that  *)
(* is not given up is still answered once, by its output or its panic.     *)
AnsweredOnce == M!ImplementsAsyncCall
=============================================================================
