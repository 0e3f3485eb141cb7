-------------------------- MODULE MaybeSyncProofs --------------------------
(***************************************************************************)
(* The safety properties of MaybeSync, for any number of calls, tasks,     *)
(* events and handovers.                                                   *)
(***************************************************************************)
EXTENDS MaybeSync, TLAPS

(* Which variant goes with which state of body and output. *)
VariantsOK ==
    \A c \in Calls :
        /\ body[c] # "unimplemented"
        /\ body[c] = "running" => fut[c] \in {"Async", "Dropped"}
        /\ fut[c] = "None" => body[c] \in {"idle", "panicked"} /\ lastPoll[c] = "never"
        /\ fut[c] = "SyncPolled" => output[c] = "delivered"
        /\ output[c] = "dropped" => fut[c] = "Dropped"
        /\ fut[c] # "None" => owner[c] \in Tasks

IInv == TypeOK /\ OutputOwnedOnce /\ VariantsOK /\ NeverStranded

-----------------------------------------------------------------------------
(* Init => IInv *)
LEMMA InitIInv == Init => IInv
BY CallsAssumption
DEF Init, IInv, TypeOK, OutputOwnedOnce, VariantsOK, NeverStranded

LEMMA CallStep ==
    ASSUME IInv, NEW c \in Calls, NEW t \in Tasks, call(c, t)
    PROVE  IInv'
<1> USE DEF call, IInv
<1>1. TypeOK'
  BY DEF TypeOK, sync_fn, is_sync_const
<1>2. OutputOwnedOnce'
  BY DEF TypeOK, OutputOwnedOnce, sync_fn, is_sync_const
<1>3. VariantsOK'
  BY DEF TypeOK, OutputOwnedOnce, VariantsOK, sync_fn, is_sync_const
<1>4. NeverStranded'
  BY DEF TypeOK, OutputOwnedOnce, VariantsOK, NeverStranded, sync_fn, is_sync_const
<1> QED
  BY <1>1, <1>2, <1>3, <1>4

(* What poll does to the variables of the generated code and to the waker. *)
LEMMA PollStep ==
    ASSUME IInv, NEW c \in Calls, poll(c, owner[c]),
           events' = events, owner' = owner, moves' = moves,
           woken' \in [Calls -> SUBSET Tasks],
           \A d \in Calls : d # c => woken'[d] = woken[d]
    PROVE  IInv'
<1> USE DEF IInv
<1>1. CASE poll_sync(c)
  BY <1>1 DEF poll_sync, Delivered, take_sync, TypeOK, OutputOwnedOnce, VariantsOK, NeverStranded
<1>2. CASE poll_async(c, owner[c])
  <2>1. TypeOK'
    BY <1>2 DEF poll_async, Delivered, inner_cx, TypeOK, OutputOwnedOnce
  <2>2. OutputOwnedOnce'
    BY <1>2 DEF poll_async, Delivered, TypeOK, OutputOwnedOnce
  <2>3. VariantsOK'
    BY <1>2 DEF poll_async, Delivered, TypeOK, OutputOwnedOnce, VariantsOK
  <2>4. NeverStranded'
    <3> DEFINE Unanswered(d) ==
                  fut[d] \in {"Sync", "Async"} /\ output[d] # "delivered" /\ body[d] # "panicked"
               Awaited(d) ==
                  /\ owner[d] \in woken[d] \/ (waker[d] = owner[d] /\ events[d] > 0)
                  /\ lastPoll[d] # "Panic"
    <3>1. ASSUME NEW d \in Calls, d # c, Unanswered(d)' PROVE Awaited(d)'
      <4>1. Unanswered(d) /\ lastPoll'[d] = lastPoll[d] /\ waker'[d] = waker[d]
        BY <1>2, <3>1 DEF poll_async, Delivered, TypeOK
      <4> QED
        BY <4>1, <3>1 DEF NeverStranded
    <3>2. ASSUME Unanswered(c)' PROVE Awaited(c)'
      <4>1. body[c] \in {"idle", "running"}
        BY <1>2, <3>2 DEF poll_async, TypeOK, OutputOwnedOnce, VariantsOK
      <4>2. events[c] > 0 /\ waker'[c] = owner[c] /\ lastPoll'[c] = "Pending"
        BY <1>2, <3>2, <4>1 DEF poll_async, Delivered, inner_cx, TypeOK
      <4> QED
        BY <4>2
    <3> QED
      BY <3>1, <3>2 DEF NeverStranded
  <2> QED
    BY <2>1, <2>2, <2>3, <2>4
<1>3. CASE poll_completed(c)
  BY <1>3 DEF poll_completed, TypeOK, OutputOwnedOnce, VariantsOK, NeverStranded
<1> QED
  BY <1>1, <1>2, <1>3 DEF poll

LEMMA DropCallStep ==
    ASSUME IInv, NEW c \in Calls, drop_call(c)
    PROVE  IInv'
<1> USE DEF drop_call, IInv
<1>1. TypeOK'
  BY DEF TypeOK
<1>2. OutputOwnedOnce'
  BY DEF TypeOK, OutputOwnedOnce
<1>3. VariantsOK' /\ NeverStranded'
  BY DEF TypeOK, OutputOwnedOnce, VariantsOK, NeverStranded
<1> QED
  BY <1>1, <1>2, <1>3

(* IInv /\ [Next]_vars => IInv' *)
LEMMA NextIInv == IInv /\ [Next]_vars => IInv'
<1> SUFFICES ASSUME IInv, [Next]_vars PROVE IInv'
  OBVIOUS
<1>1. CASE UNCHANGED vars
  BY <1>1 DEF vars, IInv, TypeOK, OutputOwnedOnce, VariantsOK, NeverStranded
<1>2. ASSUME NEW c \in Calls, NEW t \in Tasks, call(c, t) PROVE IInv'
  BY <1>2, CallStep
<1>3. ASSUME NEW c \in Calls, run_task(c) PROVE IInv'
  <2>1. woken' \in [Calls -> SUBSET Tasks] /\ \A d \in Calls : d # c => woken'[d] = woken[d]
    BY <1>3 DEF run_task, IInv, TypeOK
  <2> QED
    BY <1>3, <2>1, PollStep DEF run_task
<1>4. ASSUME NEW c \in Calls, poll_unwoken(c) PROVE IInv'
  BY <1>4, PollStep DEF poll_unwoken, IInv, TypeOK
<1>5. ASSUME NEW c \in Calls, drop_call(c) PROVE IInv'
  BY <1>5, DropCallStep
<1>6. ASSUME NEW c \in Calls, NEW t \in Tasks, hand_over(c, t) PROVE IInv'
  BY <1>6, CallsAssumption
  DEF hand_over, implVars, IInv, TypeOK, OutputOwnedOnce, VariantsOK, NeverStranded
<1>7. ASSUME NEW c \in Calls, fire(c) PROVE IInv'
  BY <1>7, CallsAssumption
  DEF fire, implVars, IInv, TypeOK, OutputOwnedOnce, VariantsOK, NeverStranded
<1> QED
  BY <1>1, <1>2, <1>3, <1>4, <1>5, <1>6, <1>7 DEF Next

(* The inductive invariant. *)
THEOREM Invariance == Spec => []IInv
BY InitIInv, NextIInv, PTL DEF Spec

(* Type correctness; in particular poll never delivers an output twice. *)
THEOREM TypeCorrect == Spec => []TypeOK
<1>1. IInv => TypeOK
  BY DEF IInv
<1> QED
  BY <1>1, Invariance, PTL

(* The output that take_sync moves out of the MaybeSync, or that the inner *)
(* future yields, is in one place: neither duplicated nor lost by polls and*)
(* drops in any order.                                                     *)
THEOREM OutputUnique == Spec => []OutputOwnedOnce
<1>1. IInv => OutputOwnedOnce
  BY DEF IInv
<1> QED
  BY <1>1, Invariance, PTL

(* A call that is not answered is polled again: between an event, the poll *)
(* that it causes and a handover, the waker of the present holder is kept  *)
(* by the inner future or has been used, and a poll does not panic unless  *)
(* the body does.                                                          *)
THEOREM HolderIsWoken == Spec => []NeverStranded
<1>1. IInv => NeverStranded
  BY DEF IInv
<1> QED
  BY <1>1, Invariance, PTL

-----------------------------------------------------------------------------
(* What the caller sees                                                    *)

outcome == [c \in Calls |-> OutcomeOf(c)]

(* OutcomeOf(d) depends on these variables at d only. *)
LEMMA SameOutcome ==
    ASSUME NEW d \in Calls, body'[d] = body[d], output'[d] = output[d], fut'[d] = fut[d]
    PROVE  OutcomeOf(d)' = OutcomeOf(d)
BY DEF OutcomeOf

(* A step that changes the outcome of one call. *)
LEMMA OneOutcome ==
    ASSUME NEW c \in Calls,
           \A d \in Calls \ {c} : OutcomeOf(d)' = OutcomeOf(d),
           \/ OutcomeOf(c)' = OutcomeOf(c)
           \/ OutcomeOf(c) = "new" /\ OutcomeOf(c)' \in {"pending", "panicked"}
           \/ OutcomeOf(c) = "pending" /\ OutcomeOf(c)' \in {"delivered", "panicked", "cancelled"}
    PROVE  [Method!ANext]_outcome
<1>1. outcome' = [outcome EXCEPT ![c] = OutcomeOf(c)']
  BY DEF outcome
<1>2. CASE OutcomeOf(c)' = OutcomeOf(c)
  BY <1>2 DEF outcome
<1>3. CASE OutcomeOf(c) = "new" /\ OutcomeOf(c)' \in {"pending", "panicked"}
  BY <1>1, <1>3 DEF outcome, Method!ANext, Method!Begin, Method!BeginPanic, Method!Step
<1>4. CASE OutcomeOf(c) = "pending" /\ OutcomeOf(c)' \in {"delivered", "panicked", "cancelled"}
  BY <1>1, <1>4
  DEF outcome, Method!ANext, Method!Settle, Method!Deliver, Method!Fail, Method!Cancel, Method!Step
<1> QED
  BY <1>2, <1>3, <1>4

(* The outcome of the call that is polled. *)
LEMMA PollOutcome ==
    ASSUME IInv, NEW c \in Calls, poll(c, owner[c])
    PROVE  [Method!ANext]_outcome
<1> USE DEF IInv, TypeOK
<1>1. \A d \in Calls \ {c} : OutcomeOf(d)' = OutcomeOf(d)
  <2> SUFFICES ASSUME NEW d \in Calls \ {c}
               PROVE  body'[d] = body[d] /\ output'[d] = output[d] /\ fut'[d] = fut[d]
    BY SameOutcome
  <2> QED
    BY DEF poll, poll_sync, poll_async, poll_completed, Delivered
<1>2. CASE poll_sync(c)
  <2>1. OutcomeOf(c) = "pending" /\ OutcomeOf(c)' = "delivered"
    BY <1>2 DEF poll_sync, Delivered, take_sync, OutcomeOf, OutputOwnedOnce, VariantsOK
  <2> QED
    BY <1>1, <2>1, OneOutcome
<1>3. CASE poll_async(c, owner[c])
  <2>1. CASE body[c] \in {"done", "panicked"}
    BY <1>1, <1>3, <2>1, SameOutcome, OneOutcome DEF poll_async, OutputOwnedOnce
  <2>2. CASE body[c] \in {"idle", "running"}
    <3>1. OutcomeOf(c) = "pending"
      BY <1>3, <2>2 DEF poll_async, OutcomeOf, OutputOwnedOnce
    <3>2. OutcomeOf(c)' \in {"pending", "delivered", "panicked"}
      BY <1>3, <2>2 DEF poll_async, Delivered, OutcomeOf, OutputOwnedOnce
    <3> QED
      BY <1>1, <3>1, <3>2, OneOutcome
  <2> QED
    BY <2>1, <2>2 DEF VariantsOK
<1>4. CASE poll_completed(c)
  BY <1>1, <1>4, SameOutcome, OneOutcome DEF poll_completed
<1> QED
  BY <1>2, <1>3, <1>4 DEF poll

LEMMA CallOutcome ==
    ASSUME IInv, NEW c \in Calls, NEW t \in Tasks, call(c, t)
    PROVE  [Method!ANext]_outcome
<1> USE DEF IInv, TypeOK
<1>1. \A d \in Calls \ {c} : OutcomeOf(d)' = OutcomeOf(d)
  BY SameOutcome DEF call
<1>2. OutcomeOf(c) = "new"
  BY DEF call, OutcomeOf, OutputOwnedOnce
<1>3. \/ body'[c] = "panicked"
      \/ body'[c] = "done" /\ output'[c] = "stored" /\ fut'[c] = "Sync"
      \/ body'[c] = "idle" /\ output'[c] = "none" /\ fut'[c] = "Async"
  BY DEF call, is_sync_const, sync_fn, OutputOwnedOnce
<1>4. OutcomeOf(c)' \in {"pending", "panicked"}
  BY <1>3 DEF OutcomeOf
<1> QED
  BY <1>1, <1>2, <1>4, OneOutcome

LEMMA DropOutcome ==
    ASSUME IInv, NEW c \in Calls, drop_call(c)
    PROVE  [Method!ANext]_outcome
<1> USE DEF IInv, TypeOK
<1>1. \A d \in Calls \ {c} : OutcomeOf(d)' = OutcomeOf(d)
  <2> SUFFICES ASSUME NEW d \in Calls \ {c}
               PROVE  body'[d] = body[d] /\ output'[d] = output[d] /\ fut'[d] = fut[d]
    BY SameOutcome
  <2> QED
    BY DEF drop_call
<1>2. CASE body[c] = "panicked" \/ output[c] = "delivered"
  <2>1. OutcomeOf(c)' = OutcomeOf(c)
    BY <1>2 DEF drop_call, OutcomeOf, OutputOwnedOnce, VariantsOK
  <2> QED
    BY <1>1, <2>1, OneOutcome
<1>3. CASE ~(body[c] = "panicked" \/ output[c] = "delivered")
  <2>1. OutcomeOf(c) = "pending" /\ OutcomeOf(c)' = "cancelled"
    BY <1>3 DEF drop_call, OutcomeOf, OutputOwnedOnce, VariantsOK
  <2> QED
    BY <1>1, <2>1, OneOutcome
<1> QED
  BY <1>2, <1>3

LEMMA InitOutcome == Init => Method!AInit
BY DEF Init, Method!AInit, OutcomeOf

LEMMA NextOutcome == IInv /\ [Next]_vars => [Method!ANext]_outcome
<1> SUFFICES ASSUME IInv, [Next]_vars PROVE [Method!ANext]_outcome
  OBVIOUS
<1>1. ASSUME UNCHANGED <<fut, body, output>> PROVE [Method!ANext]_outcome
  BY <1>1 DEF outcome, OutcomeOf
<1>2. CASE UNCHANGED vars
  BY <1>1, <1>2 DEF vars
<1>3. ASSUME NEW c \in Calls, NEW t \in Tasks, call(c, t) PROVE [Method!ANext]_outcome
  BY <1>3, CallOutcome
<1>4. ASSUME NEW c \in Calls, run_task(c) \/ poll_unwoken(c) PROVE [Method!ANext]_outcome
  BY <1>4, PollOutcome DEF run_task, poll_unwoken
<1>5. ASSUME NEW c \in Calls, drop_call(c) PROVE [Method!ANext]_outcome
  BY <1>5, DropOutcome
<1>6. ASSUME NEW c \in Calls, fire(c) \/ \E t \in Tasks : hand_over(c, t)
      PROVE  [Method!ANext]_outcome
  BY <1>1, <1>6 DEF fire, hand_over, implVars
<1> QED
  BY <1>2, <1>3, <1>4, <1>5, <1>6 DEF Next

(* The safety half of ImplementsAsyncCall: a call is answered at most once,*)
(* by its output or its panic, never after it was given up, and the        *)
(* unimplemented!() default of the sync method never runs.                 *)
THEOREM AnswersAtMostOnce == Spec => Method!ASafety
BY InitOutcome, NextOutcome, Invariance, PTL DEF Spec, Method!ASafety, outcome
=============================================================================
