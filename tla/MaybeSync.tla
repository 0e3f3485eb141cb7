----------------------------- MODULE MaybeSync -----------------------------
(***************************************************************************)
(* MaybeSync of src/lib.rs, the methods that #[dyn_trait(maybe_sync)] and  *)
(* #[sync] generate around it (macros/src/dyn_trait.rs, macros/src/sync.rs)*)
(* and the tasks that await the result.                                    *)
(*                                                                         *)
(* A call is made by a task and yields a MaybeSync: Sync(output) when the  *)
(* implementation is marked #[sync], whose body has then already run, or   *)
(* Async(future).  The task polls it when it is woken, but also at any     *)
(* other moment, completion included; it may hand it over to another task, *)
(* which polls it with another waker, or drop it.                          *)
(*                                                                         *)
(* The inner future (async body, timers, sockets) and the executor are     *)
(* external: the future waits for a number of events, keeps the waker of   *)
(* the last poll while it waits and wakes it when an event fires.  Polled  *)
(* after it has ended, it may do anything a Future may.                    *)
(***************************************************************************)
EXTENDS Naturals

CONSTANTS
    Calls,      \* the calls of the program
    SyncImpls,  \* those whose implementation is marked #[sync]
    Tasks,      \* the tasks of the executor
    NoTask,     \* no waker, no owner
    MaxEvents,  \* bound on the events a body waits for
    MaxMoves    \* bound on the handovers of a call between tasks

ASSUME CallsAssumption ==
    /\ SyncImpls \subseteq Calls
    /\ NoTask \notin Tasks
    /\ MaxEvents \in Nat /\ MaxMoves \in Nat

VARIABLES
    fut,        \* the variant of each call's MaybeSync, "None" before the call
    body,       \* the method body of each call
    output,     \* where the output of each call is
    deliveries, \* history: how often poll returned the output of the body
    lastPoll,   \* history: how the last poll ended
    events,     \* external: events the inner future still waits for
    waker,      \* external: the waker the inner future keeps
    woken,      \* external: the tasks woken for a call
    owner,      \* the task that holds the MaybeSync
    moves       \* bound: handovers so far

vars == <<fut, body, output, deliveries, lastPoll, events, waker, woken, owner, moves>>
implVars == <<fut, body, output, deliveries, lastPoll>>

(* Types; a MaybeSync in variant SyncPolled, a delivered and a dropped     *)
(* output, and a panicked body are different things.                       *)
TypeOK ==
    /\ fut \in [Calls -> {"None", "Sync", "Async", "SyncPolled", "Dropped"}]
    /\ body \in [Calls -> {"idle", "running", "done", "panicked", "unimplemented"}]
    /\ output \in [Calls -> {"none", "stored", "delivered", "dropped"}]
    /\ deliveries \in [Calls -> 0..1]
    /\ lastPoll \in [Calls -> {"never", "Pending", "Ready", "Panic"}]
    /\ events \in [Calls -> 0..MaxEvents]
    /\ waker \in [Calls -> Tasks \cup {NoTask}]
    /\ woken \in [Calls -> SUBSET Tasks]
    /\ owner \in [Calls -> Tasks \cup {NoTask}]
    /\ moves \in [Calls -> 0..MaxMoves]

Init ==
    /\ fut = [c \in Calls |-> "None"]
    /\ body = [c \in Calls |-> "idle"]
    /\ output = [c \in Calls |-> "none"]
    /\ deliveries = [c \in Calls |-> 0]
    /\ lastPoll = [c \in Calls |-> "never"]
    /\ events \in [Calls -> 0..MaxEvents]
    /\ waker = [c \in Calls |-> NoTask]
    /\ woken = [c \in Calls |-> {}]
    /\ owner = [c \in Calls |-> NoTask]
    /\ moves = [c \in Calls |-> 0]

-----------------------------------------------------------------------------
(* The generated method                                                    *)

(* The associated constant: false by default, true in a #[sync] impl.      *)
is_sync_const(c) == c \in SyncImpls

(* What running the sync method comes to: the body, which returns or       *)
(* panics, or the default's unimplemented!().                              *)
sync_fn(c) == IF c \in SyncImpls THEN {"done", "panicked"} ELSE {"unimplemented"}

(* The sync method runs during the call; its output is kept in Sync.  The  *)
(* async method only builds the future.                                    *)
call(c, t) ==
    /\ fut[c] = "None" /\ body[c] = "idle"
    /\ IF is_sync_const(c)
       THEN \E b \in sync_fn(c) :
               /\ body' = [body EXCEPT ![c] = b]
               /\ IF b = "done"
                  THEN /\ fut' = [fut EXCEPT ![c] = "Sync"]
                       /\ output' = [output EXCEPT ![c] = "stored"]
                       /\ owner' = [owner EXCEPT ![c] = t]
                       /\ woken' = [woken EXCEPT ![c] = {t}]
                  ELSE UNCHANGED <<fut, output, owner, woken>>
       ELSE /\ fut' = [fut EXCEPT ![c] = "Async"]
            /\ owner' = [owner EXCEPT ![c] = t]
            /\ woken' = [woken EXCEPT ![c] = {t}]
            /\ UNCHANGED <<body, output>>
    /\ UNCHANGED <<deliveries, lastPoll, events, waker, moves>>

-----------------------------------------------------------------------------
(* Future for MaybeSync                                                    *)

Delivered(c) ==
    /\ output' = [output EXCEPT ![c] = "delivered"]
    /\ deliveries' = [deliveries EXCEPT ![c] = @ + 1]
    /\ lastPoll' = [lastPoll EXCEPT ![c] = "Ready"]

(* Mutant of take_sync: the output is copied out, the variant stays. *)
take_sync_copies(c) == "Sync"

(* What mem::replace leaves behind when take_sync moves the output out. *)
take_sync(c) == "SyncPolled"

poll_sync(c) ==
    /\ fut[c] = "Sync"
    /\ fut' = [fut EXCEPT ![c] = take_sync(c)]
    /\ Delivered(c)
    /\ UNCHANGED <<body, waker>>

(* Mutants of inner_cx: no waker is given; the waker of the first poll is  *)
(* kept.                                                                   *)
inner_cx_noop(c, t) == NoTask
inner_cx_first(c, t) == IF waker[c] = NoTask THEN t ELSE waker[c]

(* The waker that the inner future sees: cx is passed on. *)
inner_cx(c, t) == t

(* The inner future: pending on an event, ready or panicking.  Resumed     *)
(* after it has ended, an async body panics, but any Future may be inside: *)
(* it may be pending, keeping the waker or not, or return another value of *)
(* its own making, which is not the output of the body.                    *)
poll_async(c, t) ==
    /\ fut[c] = "Async"
    /\ \/ /\ body[c] \in {"idle", "running"} /\ events[c] > 0
          /\ body' = [body EXCEPT ![c] = "running"]
          /\ waker' = [waker EXCEPT ![c] = inner_cx(c, t)]
          /\ lastPoll' = [lastPoll EXCEPT ![c] = "Pending"]
          /\ UNCHANGED <<output, deliveries>>
       \/ /\ body[c] \in {"idle", "running"} /\ events[c] = 0
          /\ body' = [body EXCEPT ![c] = "done"]
          /\ Delivered(c)
          /\ UNCHANGED waker
       \/ /\ body[c] \in {"idle", "running"}
          /\ body' = [body EXCEPT ![c] = "panicked"]
          /\ lastPoll' = [lastPoll EXCEPT ![c] = "Panic"]
          /\ UNCHANGED <<output, deliveries, waker>>
       \/ /\ body[c] \in {"done", "panicked"}
          /\ \E r \in {"Pending", "Ready", "Panic"} :
                lastPoll' = [lastPoll EXCEPT ![c] = r]
          /\ waker' \in {waker, [waker EXCEPT ![c] = inner_cx(c, t)]}
          /\ UNCHANGED <<body, output, deliveries>>
    /\ UNCHANGED fut

(* panic!("future polled after completion") *)
poll_completed(c) ==
    /\ fut[c] = "SyncPolled"
    /\ lastPoll' = [lastPoll EXCEPT ![c] = "Panic"]
    /\ UNCHANGED <<fut, body, output, deliveries, waker>>

(* MaybeSync::poll with the waker of task t. *)
poll(c, t) == poll_sync(c) \/ poll_async(c, t) \/ poll_completed(c)

(* Mutant of drop_call: the output of Sync is not dropped. *)
drop_call_forgets(c) ==
    /\ fut[c] \in {"Sync", "Async", "SyncPolled"}
    /\ fut' = [fut EXCEPT ![c] = "Dropped"]
    /\ waker' = [waker EXCEPT ![c] = NoTask]
    /\ UNCHANGED <<body, output, deliveries, lastPoll, events, woken, owner, moves>>

(* Dropping a MaybeSync drops what the variant holds: an output that nobody*)
(* has taken, a future with its suspended body.                            *)
drop_call(c) ==
    /\ fut[c] \in {"Sync", "Async", "SyncPolled"}
    /\ fut' = [fut EXCEPT ![c] = "Dropped"]
    /\ output' = IF fut[c] = "Sync" THEN [output EXCEPT ![c] = "dropped"] ELSE output
    /\ waker' = [waker EXCEPT ![c] = NoTask]
    /\ UNCHANGED <<body, deliveries, lastPoll, events, woken, owner, moves>>

-----------------------------------------------------------------------------
(* Tasks and events (external)                                             *)

(* The executor runs a woken task, which polls. *)
run_task(c) ==
    /\ owner[c] \in woken[c]
    /\ woken' = [woken EXCEPT ![c] = @ \ {owner[c]}]
    /\ poll(c, owner[c])
    /\ UNCHANGED <<events, owner, moves>>

(* A poll without wake-up, for instance from a select or join combinator. *)
poll_unwoken(c) ==
    /\ owner[c] # NoTask
    /\ poll(c, owner[c])
    /\ UNCHANGED <<events, woken, owner, moves>>

(* The new owner polls what it receives. *)
hand_over(c, t) ==
    /\ fut[c] \in {"Sync", "Async", "SyncPolled"} /\ owner[c] # t /\ moves[c] < MaxMoves
    /\ owner' = [owner EXCEPT ![c] = t]
    /\ woken' = [woken EXCEPT ![c] = @ \cup {t}]
    /\ moves' = [moves EXCEPT ![c] = @ + 1]
    /\ UNCHANGED <<implVars, events, waker>>

fire(c) ==
    /\ events[c] > 0
    /\ events' = [events EXCEPT ![c] = @ - 1]
    /\ woken' = [woken EXCEPT ![c] = @ \cup ({waker[c]} \cap Tasks)]
    /\ waker' = [waker EXCEPT ![c] = NoTask]
    /\ UNCHANGED <<implVars, owner, moves>>

Next ==
    \E c \in Calls :
        \/ \E t \in Tasks : call(c, t)
        \/ run_task(c)
        \/ poll_unwoken(c)
        \/ drop_call(c)
        \/ \E t \in Tasks : hand_over(c, t)
        \/ fire(c)

(* The executor runs woken tasks, and events happen; nothing forces a call,*)
(* a handover or a drop.                                                   *)
Spec ==
    /\ Init /\ [][Next]_vars
    /\ \A c \in Calls : WF_vars(run_task(c)) /\ WF_vars(fire(c))

-----------------------------------------------------------------------------
(* Properties                                                              *)

(* The output of a body that has run is in one place and reaches the caller*)
(* at most once, although take_sync moves it out of a value that the caller*)
(* keeps and may poll or drop again.                                       *)
OutputOwnedOnce ==
    \A c \in Calls :
        /\ body[c] = "done" <=> output[c] # "none"
        /\ output[c] = "stored" <=> fut[c] = "Sync"
        /\ deliveries[c] = IF output[c] = "delivered" THEN 1 ELSE 0

(* While a call is unanswered, the task that holds it will poll it again:  *)
(* it is woken, or the inner future keeps its waker, not that of a previous*)
(* holder, and has an event to come.  A poll of it that panics is one that *)
(* its body made panic, never the last arm of poll.                        *)
NeverStranded ==
    \A c \in Calls :
        fut[c] \in {"Sync", "Async"} /\ output[c] # "delivered" /\ body[c] # "panicked" =>
            /\ owner[c] \in woken[c] \/ (waker[c] = owner[c] /\ events[c] > 0)
            /\ lastPoll[c] # "Panic"

OutcomeOf(c) ==
    IF body[c] = "unimplemented" THEN "broken"
    ELSE IF body[c] = "panicked" THEN "panicked"
    ELSE IF output[c] = "delivered" THEN "delivered"
    ELSE IF fut[c] = "Dropped" THEN "cancelled"
    ELSE IF fut[c] = "None" THEN "new"
    ELSE "pending"

Method == INSTANCE AsyncCall WITH outcome <- [c \in Calls |-> OutcomeOf(c)]

(* Both dispatch paths keep the promise of an async method, across handovers*)
(* between tasks: every call is answered once or given up by its caller, and*)
(* the unimplemented!() default of the sync method is never run.           *)
ImplementsAsyncCall == Method!ASpec
=============================================================================
