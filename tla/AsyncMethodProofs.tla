------------------------- MODULE AsyncMethodProofs -------------------------
(***************************************************************************)
(* The safety properties of the composition of MaybeSync and DynObject,    *)
(* for all calls, storages and slots.  The invariants of the two components*)
(* are reused: a step of the composition is a step of each of them, or     *)
(* leaves it alone.                                                        *)
(***************************************************************************)
EXTENDS AsyncMethod, DynObjectProofs

MP == INSTANCE MaybeSyncProofs

(* Each live result has a slot of its own. *)
ResultsOK ==
    /\ at \in [Calls -> Slots \cup {None}]
    /\ \A c \in Calls : Live(c) => at[c] \in Slots
    /\ \A c, d \in Calls : Live(c) /\ Live(d) /\ at[c] = at[d] => c = d

(* The slot of an Async holds its future; once polled, or during the first *)
(* poll, it is pinned where it is.                                         *)
FutureAt(c) ==
    /\ Held(at[c]) = FutureOf[c]
    /\ body[c] # "idle" \/ phase[at[c]] = "borrowed" =>
          pinned[at[c]] /\ pinAddr[FutureOf[c]] = DataAddr(at[c], obj[at[c]])

FuturesOK ==
    /\ \A c \in Calls : fut[c] = "Async" => FutureAt(c)
    /\ \A s \in Slots : Full(s) => \E c \in Calls : fut[c] = "Async" /\ at[c] = s

MInv == IInv /\ MP!IInv /\ ResultsOK /\ FuturesOK

-----------------------------------------------------------------------------
(* The steps of MaybeSync                                                  *)

LEMMA InnerInit == M!Init => MP!Init
BY DEF M!Init, MP!Init

LEMMA InnerCall ==
    ASSUME NEW c \in Calls, NEW t \in Tasks, M!call(c, t)
    PROVE  MP!Next
<1>1. MP!call(c, t)
  BY DEF M!call, MP!call, M!is_sync_const, MP!is_sync_const, M!sync_fn, MP!sync_fn
<1> QED
  BY <1>1 DEF MP!Next

LEMMA InnerPoll ==
    ASSUME NEW c \in Calls, PollStep(c)
    PROVE  MP!Next
<1>1. ASSUME M!poll(c, owner[c]) PROVE MP!poll(c, owner[c])
  BY <1>1 DEF M!poll, M!poll_sync, M!poll_async, M!poll_completed, M!Delivered, M!take_sync,
     M!inner_cx, MP!poll, MP!poll_sync, MP!poll_async, MP!poll_completed, MP!Delivered,
     MP!take_sync, MP!inner_cx
<1>2. MP!run_task(c) \/ MP!poll_unwoken(c)
  BY <1>1 DEF PollStep, M!run_task, M!poll_unwoken, MP!run_task, MP!poll_unwoken
<1> QED
  BY <1>2 DEF MP!Next

LEMMA InnerDrop ==
    ASSUME NEW c \in Calls, M!drop_call(c)
    PROVE  MP!Next
<1>1. MP!drop_call(c)
  BY DEF M!drop_call, MP!drop_call
<1> QED
  BY <1>1 DEF MP!Next

LEMMA InnerFire ==
    ASSUME NEW c \in Calls, M!fire(c)
    PROVE  MP!Next
<1>1. MP!fire(c)
  BY DEF M!fire, MP!fire, M!implVars, MP!implVars
<1> QED
  BY <1>1 DEF MP!Next

(* Every step of the composition is one of MaybeSync or leaves it alone. *)
LEMMA InnerNext == [MNext]_allVars => [MP!Next]_(MP!vars)
<1> SUFFICES ASSUME [MNext]_allVars PROVE MP!Next \/ UNCHANGED syncVars
  BY DEF syncVars, MP!vars
<1>1. ASSUME NEW c \in Calls, NEW t \in Tasks, NEW s \in Slots, maybe_sync_impl(c, t, s)
      PROVE  MP!Next
  BY <1>1, InnerCall DEF maybe_sync_impl
<1>2. ASSUME NEW c \in Calls, poll_end(c) \/ poll_sync(c) PROVE MP!Next
  BY <1>2, InnerPoll DEF poll_end, poll_sync
<1>3. ASSUME NEW c \in Calls, drop_end(c) \/ drop_sync(c) PROVE MP!Next
  BY <1>3, InnerDrop DEF drop_end, drop_sync
<1>4. ASSUME NEW c \in Calls, fire(c) PROVE MP!Next
  BY <1>4, InnerFire DEF fire
<1>5. ASSUME NEW c \in Calls,
             \/ poll_begin(c) \/ drop_begin(c) \/ pin_result(c)
             \/ \E s \in Slots : move_result(c, s)
      PROVE  UNCHANGED syncVars
  BY <1>5 DEF poll_begin, drop_begin, pin_result, move_result
<1>6. CASE UNCHANGED allVars
  BY <1>6 DEF allVars
<1> QED
  BY <1>1, <1>2, <1>3, <1>4, <1>5, <1>6 DEF MNext

(* What they do to the variant and the body. *)
LEMMA CallFacts ==
    ASSUME MP!IInv, NEW c \in Calls, NEW t \in Tasks, M!call(c, t)
    PROVE  /\ fut[c] = "None" /\ body[c] = "idle"
           /\ \A d \in Calls : d # c => fut'[d] = fut[d] /\ body'[d] = body[d]
           /\ \/ fut'[c] = "Async" /\ body'[c] = "idle"
              \/ fut'[c] = "Sync" /\ body'[c] # "idle"
              \/ fut'[c] = "None" /\ body'[c] # "idle"
BY DEF M!call, M!is_sync_const, M!sync_fn, MP!IInv, MP!TypeOK

LEMMA PollFacts ==
    ASSUME MP!IInv, NEW c \in Calls, PollStep(c)
    PROVE  /\ \A d \in Calls : d # c => fut'[d] = fut[d] /\ body'[d] = body[d]
           /\ fut[c] = "Async" => fut'[c] = "Async"
           /\ fut[c] \in {"Sync", "SyncPolled"} => fut'[c] = "SyncPolled" /\ body'[c] = body[c]
           /\ body'[c] = "idle" => body[c] = "idle"
<1>1. M!poll(c, owner[c])
  BY DEF PollStep, M!run_task, M!poll_unwoken
<1> QED
  BY <1>1 DEF M!poll, M!poll_sync, M!poll_async, M!poll_completed, M!take_sync, MP!IInv, MP!TypeOK

LEMMA DropFacts ==
    ASSUME MP!IInv, NEW c \in Calls, M!drop_call(c)
    PROVE  /\ fut'[c] = "Dropped" /\ body' = body
           /\ \A d \in Calls : d # c => fut'[d] = fut[d]
BY DEF M!drop_call, MP!IInv, MP!TypeOK

-----------------------------------------------------------------------------
(* The futures and their slots                                             *)

(* A step that concerns call c alone. *)
LEMMA ResultsKept ==
    ASSUME ResultsOK, NEW c \in Calls, at' \in [Calls -> Slots \cup {None}],
           \A d \in Calls : d # c => fut'[d] = fut[d] /\ at'[d] = at[d],
           Live(c)' => /\ at'[c] \in Slots
                       /\ \A d \in Calls : d # c /\ Live(d) => at[d] # at'[c]
    PROVE  ResultsOK'
<1>1. \A d \in Calls : d # c => (Live(d)' <=> Live(d))
  BY DEF Live
<1> QED
  BY <1>1 DEF ResultsOK

LEMMA FuturesKept ==
    ASSUME MInv, NEW c \in Calls,
           \A d \in Calls : d # c => fut'[d] = fut[d] /\ body'[d] = body[d] /\ at'[d] = at[d],
           \A d \in Calls, u \in Slots : d # c /\ fut[d] = "Async" /\ at[d] = u =>
              /\ Held(u)' = Held(u) /\ obj'[u] = obj[u] /\ phase'[u] = phase[u]
              /\ pinned'[u] = pinned[u] /\ pinAddr'[FutureOf[d]] = pinAddr[FutureOf[d]],
           fut'[c] = "Async" => FutureAt(c)',
           \A u \in Slots : Full(u)' =>
              (fut'[c] = "Async" /\ at'[c] = u) \/ (Full(u) /\ ~(fut[c] = "Async" /\ at[c] = u))
    PROVE  FuturesOK'
<1>1. \A d \in Calls : fut'[d] = "Async" => FutureAt(d)'
  <2> SUFFICES ASSUME NEW d \in Calls, d # c, fut'[d] = "Async" PROVE FutureAt(d)'
    OBVIOUS
  <2>1. fut[d] = "Async" /\ at'[d] = at[d] /\ body'[d] = body[d] /\ FutureAt(d)
    BY DEF MInv, FuturesOK
  <2>2. PICK u \in Slots : at[d] = u
    BY <2>1 DEF MInv, ResultsOK, Live
  <2>3. /\ Held(u)' = Held(u) /\ obj'[u] = obj[u] /\ phase'[u] = phase[u]
        /\ pinned'[u] = pinned[u] /\ pinAddr'[FutureOf[d]] = pinAddr[FutureOf[d]]
    BY <2>1, <2>2
  <2> QED
    BY <2>1, <2>2, <2>3 DEF FutureAt, Held, DataAddr
<1>2. \A u \in Slots : Full(u)' => \E d \in Calls : fut'[d] = "Async" /\ at'[d] = u
  BY DEF MInv, FuturesOK
<1> QED
  BY <1>1, <1>2 DEF FuturesOK

(* Where the result of an async and of a sync call is. *)
LEMMA AsyncSlot ==
    ASSUME MInv, NEW c \in Calls, fut[c] = "Async"
    PROVE  /\ at[c] \in Slots /\ Held(at[c]) = FutureOf[c] /\ FutureOf[c] \in Vals /\ Full(at[c])
           /\ \A d \in Calls : d # c /\ Live(d) => at[d] # at[c] /\ FutureOf[d] # FutureOf[c]
<1>1. at[c] \in Slots /\ Held(at[c]) = FutureOf[c] /\ FutureOf[c] \in Vals
  BY MethodsAssumption DEF MInv, ResultsOK, FuturesOK, FutureAt, Live
<1>2. Full(at[c])
  BY <1>1, Separation, NoneAssumption DEF MInv
<1>3. \A d \in Calls : d # c /\ Live(d) => at[d] # at[c] /\ FutureOf[d] # FutureOf[c]
  BY MethodsAssumption DEF MInv, ResultsOK, Live
<1> QED
  BY <1>1, <1>2, <1>3

LEMMA SyncSlot ==
    ASSUME MInv, NEW c \in Calls, fut[c] \in {"Sync", "SyncPolled"}
    PROVE  /\ at[c] \in Slots /\ ~Full(at[c]) /\ phase[at[c]] = "idle"
           /\ \A d \in Calls : d # c /\ Live(d) => at[d] # at[c]
<1>1. at[c] \in Slots /\ \A d \in Calls : d # c /\ Live(d) => at[d] # at[c]
  BY DEF MInv, ResultsOK, Live
<1>2. ~Full(at[c])
  BY <1>1 DEF MInv, FuturesOK, Live
<1> QED
  BY <1>1, <1>2 DEF MInv, IInv, PhasesOK

-----------------------------------------------------------------------------
(* The steps of the composition                                            *)

(* What a step must preserve besides the invariant of MaybeSync. *)
Composed == IInv /\ ResultsOK /\ FuturesOK

LEMMA ImplStep ==
    ASSUME MInv, NEW c \in Calls, NEW t \in Tasks, NEW s \in Slots, maybe_sync_impl(c, t, s)
    PROVE  Composed'
<1>0. /\ Vacant(s)
      /\ fut'[c] = "Async" => new(s, FutureOf[c])
      /\ fut'[c] # "Async" => UNCHANGED vars
      /\ at' = IF fut'[c] = "None" THEN at ELSE [at EXCEPT ![c] = s]
  BY DEF maybe_sync_impl
<1>1. /\ fut[c] = "None" /\ body[c] = "idle"
      /\ \A d \in Calls : d # c => fut'[d] = fut[d] /\ body'[d] = body[d]
      /\ \/ fut'[c] = "Async" /\ body'[c] = "idle"
         \/ fut'[c] = "Sync" /\ body'[c] # "idle"
         \/ fut'[c] = "None" /\ body'[c] # "idle"
  BY CallFacts DEF maybe_sync_impl, MInv
<1>2. FutureOf[c] \in Vals
  BY MethodsAssumption
<1>3. at \in [Calls -> Slots \cup {None}]
  BY DEF MInv, ResultsOK
<1>4. at' \in [Calls -> Slots \cup {None}] /\ \A d \in Calls : d # c => at'[d] = at[d]
  BY <1>0, <1>3
<1>5. \A d \in Calls : Live(d) => at[d] # s
  BY <1>0 DEF Vacant
<1>6. ResultsOK'
  <2>1. Live(c)' => at'[c] = s
    BY <1>0, <1>3, <1>1 DEF Live
  <2> QED
    BY <2>1, <1>1, <1>4, <1>5, ResultsKept DEF MInv
<1>7. IInv' /\ FuturesOK'
  <2>1. CASE fut'[c] = "Async"
    <3>1. new(s, FutureOf[c])
      BY <2>1, <1>0
    <3>2. IInv' /\ Held(s)' = FutureOf[c] /\ Kept({s})
      BY <3>1, <1>2, NewStep DEF MInv
    <3>3. /\ \A u \in Slots : u # s => obj'[u] = obj[u]
          /\ phase' = phase /\ pinned' = pinned /\ pinAddr' = pinAddr
      BY <3>1 DEF new, MInv, IInv, TypeOK
    <3>4. at'[c] = s /\ body'[c] = "idle" /\ phase'[s] = "idle"
      BY <2>1, <1>0, <1>1, <1>3, <3>1, <3>3 DEF new, Idle
    <3>5. FutureAt(c)'
      BY <3>2, <3>4 DEF FutureAt, Held
    <3>6. \A u \in Slots : Full(u)' => u = s \/ Full(u)
      BY <3>3 DEF Full
    <3>7. \A d \in Calls, u \in Slots : d # c /\ fut[d] = "Async" /\ at[d] = u =>
             /\ Held(u)' = Held(u) /\ obj'[u] = obj[u] /\ phase'[u] = phase[u]
             /\ pinned'[u] = pinned[u] /\ pinAddr'[FutureOf[d]] = pinAddr[FutureOf[d]]
      BY <3>2, <3>3, <1>5 DEF Live, Kept
    <3> QED
      BY <3>2, <3>4, <3>5, <3>6, <3>7, <2>1, <1>1, <1>4, FuturesKept
  <2>2. CASE fut'[c] # "Async"
    <3>1. UNCHANGED vars
      BY <2>2, <1>0
    <3>2. IInv'
      BY <3>1, NextIInv DEF MInv
    <3>3. UNCHANGED <<obj, heap, phase, pinned, pinAddr>>
      BY <3>1 DEF vars, progVars, histVars
    <3>4. \A u \in Slots : Held(u)' = Held(u) /\ (Full(u)' <=> Full(u))
      BY <3>3 DEF Held, Full, Data
    <3> QED
      BY <3>2, <3>3, <3>4, <2>2, <1>1, <1>4, FuturesKept
  <2> QED
    BY <2>1, <2>2
<1> QED
  BY <1>6, <1>7 DEF Composed

(* A poll of the Async arm begins and ends. *)
LEMMA PollBeginStep ==
    ASSUME MInv, NEW c \in Calls, poll_begin(c)
    PROVE  Composed'
<1>0. /\ fut[c] = "Async" /\ method(at[c], "Pinned")
      /\ UNCHANGED <<fut, body, at>>
  BY DEF poll_begin, syncVars
<1>1. PICK s \in Slots : s = at[c]
  BY <1>0, AsyncSlot
<1>2. /\ Held(s) = FutureOf[c] /\ FutureOf[c] \in Vals
      /\ \A d \in Calls : d # c /\ Live(d) => at[d] # s /\ FutureOf[d] # FutureOf[c]
  BY <1>0, <1>1, AsyncSlot
<1>3. IInv'
  BY <1>0, <1>1, MethodStep DEF MInv
<1>4. /\ pinned[s] /\ UNCHANGED <<obj, heap, pinned>>
      /\ \A u \in Slots : u # s => phase'[u] = phase[u]
      /\ pinAddr' = [pinAddr EXCEPT ![FutureOf[c]] = DataAddr(s, obj[s])]
  BY <1>0, <1>1, <1>2 DEF method, PinAccess, MInv, IInv, TypeOK
<1>5. \A u \in Slots : Held(u)' = Held(u) /\ (Full(u)' <=> Full(u))
  BY <1>4 DEF Held, Full, Data
<1>6. pinAddr'[FutureOf[c]] = DataAddr(s, obj[s])
      /\ \A v \in Vals : v # FutureOf[c] => pinAddr'[v] = pinAddr[v]
  BY <1>2, <1>4 DEF MInv, IInv, TypeOK
<1>7. FutureAt(c)'
  BY <1>0, <1>1, <1>2, <1>4, <1>5, <1>6 DEF FutureAt, Held, DataAddr
<1>8. FuturesOK'
  <2>1. \A d \in Calls : FutureOf[d] \in Vals
    BY MethodsAssumption
  <2>2. \A d \in Calls, u \in Slots : d # c /\ fut[d] = "Async" /\ at[d] = u =>
           /\ Held(u)' = Held(u) /\ obj'[u] = obj[u] /\ phase'[u] = phase[u]
           /\ pinned'[u] = pinned[u] /\ pinAddr'[FutureOf[d]] = pinAddr[FutureOf[d]]
    BY <2>1, <1>2, <1>4, <1>5, <1>6 DEF Live
  <2>3. \A u \in Slots : Full(u)' =>
           (fut'[c] = "Async" /\ at'[c] = u) \/ (Full(u) /\ ~(fut[c] = "Async" /\ at[c] = u))
    BY <1>0, <1>5
  <2> QED
    BY <2>2, <2>3, <1>0, <1>7, FuturesKept
<1>9. ResultsOK'
  BY <1>0 DEF MInv, ResultsOK, Live
<1> QED
  BY <1>3, <1>8, <1>9 DEF Composed

LEMMA PollEndStep ==
    ASSUME MInv, NEW c \in Calls, poll_end(c)
    PROVE  Composed'
<1>0. /\ fut[c] = "Async" /\ PollStep(c) /\ end_borrow(at[c])
      /\ UNCHANGED at
  BY DEF poll_end
<1>1. PICK s \in Slots : s = at[c]
  BY <1>0, AsyncSlot
<1>2. /\ Held(s) = FutureOf[c] /\ FutureOf[c] \in Vals
      /\ \A d \in Calls : d # c /\ Live(d) => at[d] # s /\ FutureOf[d] # FutureOf[c]
  BY <1>0, <1>1, AsyncSlot
<1>3. IInv'
  BY <1>0, <1>1, EndBorrowStep DEF MInv
<1>4. /\ \A d \in Calls : d # c => fut'[d] = fut[d] /\ body'[d] = body[d]
      /\ fut'[c] = "Async" /\ (body'[c] = "idle" => body[c] = "idle")
  BY <1>0, PollFacts DEF MInv
<1>5. /\ phase[s] = "borrowed" /\ UNCHANGED <<obj, heap, pinned, pinAddr>>
      /\ \A u \in Slots : u # s => phase'[u] = phase[u]
  BY <1>0, <1>1 DEF end_borrow, MInv, IInv, TypeOK
<1>6. \A u \in Slots : Held(u)' = Held(u) /\ (Full(u)' <=> Full(u))
  BY <1>5 DEF Held, Full, Data
<1>7. pinned[s] /\ pinAddr[FutureOf[c]] = DataAddr(s, obj[s])
  BY <1>0, <1>1, <1>5 DEF MInv, FuturesOK, FutureAt
<1>8. FutureAt(c)'
  BY <1>0, <1>1, <1>2, <1>5, <1>6, <1>7 DEF FutureAt, Held, DataAddr
<1>9. FuturesOK'
  <2>1. \A d \in Calls, u \in Slots : d # c /\ fut[d] = "Async" /\ at[d] = u =>
           /\ Held(u)' = Held(u) /\ obj'[u] = obj[u] /\ phase'[u] = phase[u]
           /\ pinned'[u] = pinned[u] /\ pinAddr'[FutureOf[d]] = pinAddr[FutureOf[d]]
    BY <1>2, <1>5, <1>6 DEF Live
  <2>2. \A u \in Slots : Full(u)' =>
           (fut'[c] = "Async" /\ at'[c] = u) \/ (Full(u) /\ ~(fut[c] = "Async" /\ at[c] = u))
    BY <1>0, <1>4, <1>6
  <2> QED
    BY <2>1, <2>2, <1>0, <1>4, <1>8, FuturesKept
<1>10. \A d \in Calls : Live(d)' <=> Live(d)
  BY <1>0, <1>4 DEF Live
<1>11. ResultsOK'
  BY <1>0, <1>10 DEF MInv, ResultsOK
<1> QED
  BY <1>3, <1>9, <1>11 DEF Composed

(* Steps that leave DynObject alone, but for the pin of an empty slot. *)
LEMMA OutsideStep ==
    ASSUME MInv, NEW c \in Calls, IInv', UNCHANGED <<obj, heap, phase, pinAddr, at>>,
           \A d \in Calls : d # c => fut'[d] = fut[d] /\ body'[d] = body[d],
           \A u \in Slots : Full(u) => pinned'[u] = pinned[u],
           \/ fut[c] \in {"Sync", "SyncPolled"} /\ fut'[c] \in {"SyncPolled", "Dropped"}
           \/ fut'[c] = fut[c] /\ body'[c] = body[c]
    PROVE  Composed'
<1>1. \A u \in Slots : Held(u)' = Held(u) /\ (Full(u)' <=> Full(u))
  BY DEF Held, Full, Data
<1>2. \A d \in Calls : fut[d] = "Async" => at[d] \in Slots /\ Full(at[d])
  BY AsyncSlot
<1>3. fut'[c] = "Async" => FutureAt(c)'
  <2> SUFFICES ASSUME fut'[c] = "Async" PROVE FutureAt(c)'
    OBVIOUS
  <2>1. fut[c] = "Async" /\ body'[c] = body[c] /\ FutureAt(c)
    BY DEF MInv, FuturesOK
  <2>2. at[c] \in Slots /\ pinned'[at[c]] = pinned[at[c]]
    BY <1>2, <2>1
  <2> QED
    BY <2>1, <2>2 DEF FutureAt, Held, Data, DataAddr
<1>4. FuturesOK'
  <2>1. \A d \in Calls, u \in Slots : d # c /\ fut[d] = "Async" /\ at[d] = u =>
           /\ Held(u)' = Held(u) /\ obj'[u] = obj[u] /\ phase'[u] = phase[u]
           /\ pinned'[u] = pinned[u] /\ pinAddr'[FutureOf[d]] = pinAddr[FutureOf[d]]
    BY <1>1, <1>2
  <2>2. \A u \in Slots : Full(u)' =>
           (fut'[c] = "Async" /\ at'[c] = u) \/ (Full(u) /\ ~(fut[c] = "Async" /\ at[c] = u))
    BY <1>1
  <2> QED
    BY <2>1, <2>2, <1>3, FuturesKept
<1>5. \A d \in Calls : Live(d)' => Live(d)
  BY DEF Live
<1>6. ResultsOK'
  BY <1>5 DEF MInv, ResultsOK
<1> QED
  BY <1>4, <1>6 DEF Composed

LEMMA PollSyncStep ==
    ASSUME MInv, NEW c \in Calls, poll_sync(c)
    PROVE  Composed'
<1>0. fut[c] \in {"Sync", "SyncPolled"} /\ PollStep(c) /\ UNCHANGED vars /\ UNCHANGED at
  BY DEF poll_sync
<1>1. IInv'
  BY <1>0, NextIInv DEF MInv
<1>2. UNCHANGED <<obj, heap, phase, pinAddr, pinned>>
  BY <1>0 DEF vars, progVars, histVars
<1> QED
  BY <1>0, <1>1, <1>2, PollFacts, OutsideStep DEF MInv

LEMMA FireStep ==
    ASSUME MInv, NEW c \in Calls, fire(c)
    PROVE  Composed'
<1>0. UNCHANGED vars /\ UNCHANGED <<at, fut, body>>
  BY DEF fire, M!fire, M!implVars
<1>1. IInv'
  BY <1>0, NextIInv DEF MInv
<1>2. UNCHANGED <<obj, heap, phase, pinAddr, pinned>>
  BY <1>0 DEF vars, progVars, histVars
<1> QED
  BY <1>0, <1>1, <1>2, OutsideStep

(* The place of a MaybeSync without future goes out of scope. *)
LEMMA DropSyncStep ==
    ASSUME MInv, NEW c \in Calls, drop_sync(c)
    PROVE  Composed'
<1>0. /\ fut[c] \in {"Sync", "SyncPolled"} /\ M!drop_call(c)
      /\ pinned' = [pinned EXCEPT ![at[c]] = FALSE]
      /\ UNCHANGED <<addr, obj, heap, phase, source, client, boxed, drops, pinAddr, lost, ub>>
      /\ UNCHANGED at
  BY DEF drop_sync, histVars
<1>1. at[c] \in Slots /\ ~Full(at[c])
  BY <1>0, SyncSlot
<1>2. /\ pinned' \in [Slots -> BOOLEAN]
      /\ \A u \in Slots : Full(u) => pinned'[u] = pinned[u]
      /\ \A u \in Slots : pinned'[u] => pinned[u]
  BY <1>0, <1>1 DEF MInv, IInv, TypeOK
<1>3. \A u \in Slots : /\ Held(u)' = Held(u)
                       /\ Full(u)' <=> Full(u)
                       /\ HasDropFn(u)' <=> HasDropFn(u)
  BY <1>0 DEF Held, Full, Data, HasDropFn
<1>4. \A v \in Vals : Alive(v)' <=> Alive(v)
  BY <1>0, <1>3 DEF Alive
<1>5. Ownership'
  <2>1. StorageMatchesVtable' /\ OwnedOnce'
    BY <1>0, <1>3 DEF MInv, IInv, StorageMatchesVtable, InPlace, InBox, OwnedOnce
  <2>2. BoxesOK' /\ LostOK' /\ LeaksOnlyOnPanic'
    BY <1>0 DEF MInv, IInv, BoxesOK, LostOK, LeaksOnlyOnPanic, IsFree
  <2> QED
    BY <2>1, <2>2, <1>0 DEF MInv, IInv, TypeOK, Ownership
<1>6. DroppedExactlyOnce' /\ PhasesOK'
  <2>1. DroppedExactlyOnce'
    BY <1>0, <1>4 DEF MInv, IInv, DroppedExactlyOnce
  <2>2. PhasesOK'
    BY <1>0, <1>2, <1>3 DEF MInv, IInv, PhasesOK, SameType
  <2> QED
    BY <2>1, <2>2
<1>7. PinsOK'
  <2> SUFFICES ASSUME NEW v \in Vals, pinAddr[v] # None, Alive(v)'
               PROVE  \E u \in Slots :
                         Held(u)' = v /\ pinned'[u] /\ DataAddr(u, obj[u]) = pinAddr[v]
    BY <1>0 DEF PinsOK, DataAddr
  <2>1. PICK u \in Slots : Held(u) = v /\ pinned[u] /\ DataAddr(u, obj[u]) = pinAddr[v]
    BY <1>4 DEF MInv, IInv, PinsOK
  <2>2. Full(u)
    BY <2>1, Separation, NoneAssumption DEF MInv
  <2> QED
    BY <2>1, <2>2, <1>2, <1>3
<1>8. IInv'
  BY <1>0, <1>2, <1>5, <1>6, <1>7, Assemble DEF MInv, IInv, TypeOK
<1> QED
  BY <1>0, <1>2, <1>8, DropFacts, OutsideStep DEF MInv

(* The drop glue of the Async variant begins and ends. *)
LEMMA DropBeginStep ==
    ASSUME MInv, NEW c \in Calls, drop_begin(c)
    PROVE  Composed'
<1>0. /\ fut[c] = "Async" /\ drop_start(at[c])
      /\ UNCHANGED <<fut, body, at>>
  BY DEF drop_begin, syncVars
<1>1. PICK s \in Slots : s = at[c]
  BY <1>0, AsyncSlot
<1>2. \A d \in Calls : d # c /\ Live(d) => at[d] # s
  BY <1>0, <1>1, AsyncSlot
<1>3. IInv'
  BY <1>0, <1>1, DropStartStep DEF MInv
<1>4. /\ UNCHANGED <<obj, heap, pinned, pinAddr>> /\ phase'[s] = "drop"
      /\ \A u \in Slots : u # s => phase'[u] = phase[u]
  BY <1>0, <1>1 DEF drop_start, MInv, IInv, TypeOK
<1>5. \A u \in Slots : Held(u)' = Held(u) /\ (Full(u)' <=> Full(u))
  BY <1>4 DEF Held, Full, Data
<1>6. FutureAt(c)'
  <2>1. FutureAt(c)
    BY <1>0 DEF MInv, FuturesOK
  <2> QED
    BY <2>1, <1>0, <1>1, <1>4 DEF FutureAt, Held, Data, DataAddr
<1>7. FuturesOK'
  <2>1. \A d \in Calls, u \in Slots : d # c /\ fut[d] = "Async" /\ at[d] = u =>
           /\ Held(u)' = Held(u) /\ obj'[u] = obj[u] /\ phase'[u] = phase[u]
           /\ pinned'[u] = pinned[u] /\ pinAddr'[FutureOf[d]] = pinAddr[FutureOf[d]]
    BY <1>2, <1>4, <1>5 DEF Live
  <2>2. \A u \in Slots : Full(u)' =>
           (fut'[c] = "Async" /\ at'[c] = u) \/ (Full(u) /\ ~(fut[c] = "Async" /\ at[c] = u))
    BY <1>0, <1>5
  <2> QED
    BY <2>1, <2>2, <1>0, <1>6, FuturesKept
<1>8. ResultsOK'
  BY <1>0 DEF MInv, ResultsOK, Live
<1> QED
  BY <1>3, <1>7, <1>8 DEF Composed

LEMMA DropEndStep ==
    ASSUME MInv, NEW c \in Calls, drop_end(c)
    PROVE  Composed'
<1>0. /\ fut[c] = "Async" /\ (drop_finish(at[c]) \/ drop_unwind(at[c]))
      /\ M!drop_call(c) /\ UNCHANGED at
  BY DEF drop_end
<1>1. PICK s \in Slots : s = at[c]
  BY <1>0, AsyncSlot
<1>2. \A d \in Calls : d # c /\ Live(d) => at[d] # s
  BY <1>0, <1>1, AsyncSlot
<1>3. IInv' /\ Held(s)' = None /\ Kept({s})
  BY <1>0, <1>1, DropFinishStep, DropUnwindStep DEF MInv
<1>4. /\ obj'[s] = NoObj /\ pinAddr' = pinAddr
      /\ \A u \in Slots : u # s =>
            obj'[u] = obj[u] /\ phase'[u] = phase[u] /\ pinned'[u] = pinned[u]
  BY <1>0, <1>1 DEF drop_finish, drop_unwind, MInv, IInv, TypeOK
<1>5. /\ fut'[c] = "Dropped" /\ body' = body
      /\ \A d \in Calls : d # c => fut'[d] = fut[d]
  BY <1>0, DropFacts DEF MInv
<1>6. FuturesOK'
  <2>1. \A d \in Calls, u \in Slots : d # c /\ fut[d] = "Async" /\ at[d] = u =>
           /\ Held(u)' = Held(u) /\ obj'[u] = obj[u] /\ phase'[u] = phase[u]
           /\ pinned'[u] = pinned[u] /\ pinAddr'[FutureOf[d]] = pinAddr[FutureOf[d]]
    BY <1>2, <1>3, <1>4 DEF Live, Kept
  <2>2. \A u \in Slots : Full(u)' => Full(u) /\ at[c] # u
    BY <1>1, <1>4 DEF Full
  <2> QED
    BY <2>1, <2>2, <1>0, <1>5, FuturesKept
<1>7. \A d \in Calls : Live(d)' => Live(d)
  BY <1>5 DEF Live
<1>8. ResultsOK'
  BY <1>0, <1>7 DEF MInv, ResultsOK
<1> QED
  BY <1>3, <1>6, <1>8 DEF Composed

(* A result that is not pinned has not been polled. *)
LEMMA MoveResultStep ==
    ASSUME MInv, NEW c \in Calls, NEW s \in Slots, move_result(c, s)
    PROVE  Composed'
<1>0. /\ Live(c) /\ Vacant(s) /\ ~pinned[at[c]]
      /\ fut[c] = "Async" => move(at[c], s)
      /\ fut[c] # "Async" => UNCHANGED vars
      /\ at' = [at EXCEPT ![c] = s] /\ UNCHANGED <<fut, body>>
  BY DEF move_result, Movable, syncVars
<1>1. /\ at' \in [Calls -> Slots \cup {None}] /\ at'[c] = s
      /\ \A d \in Calls : d # c => at'[d] = at[d]
  BY <1>0 DEF MInv, ResultsOK
<1>2. \A d \in Calls : Live(d) => at[d] # s
  BY <1>0 DEF Vacant
<1>3. ResultsOK'
  BY <1>0, <1>1, <1>2, ResultsKept DEF MInv
<1>4. IInv' /\ FuturesOK'
  <2>1. CASE fut[c] = "Async"
    <3>1. PICK a \in Slots : a = at[c]
      BY <2>1, AsyncSlot
    <3>2. /\ Held(a) = FutureOf[c] /\ a # s
          /\ \A d \in Calls : d # c /\ Live(d) => at[d] # a
      BY <2>1, <3>1, <1>0, <1>2, AsyncSlot
    <3>3. move(a, s)
      BY <2>1, <3>1, <1>0
    <3>4. IInv' /\ Held(s)' = Held(a) /\ Held(a)' = None /\ Kept({a, s})
      BY <3>3, MoveStep DEF MInv
    <3>5. /\ UNCHANGED <<phase, pinned, pinAddr>> /\ phase[s] = "idle" /\ obj'[a] = NoObj
          /\ \A u \in Slots : u # a /\ u # s => obj'[u] = obj[u]
      BY <3>2, <3>3 DEF move, histVars, Idle, MInv, IInv, TypeOK
    <3>6. body[c] = "idle"
      BY <2>1, <1>0 DEF MInv, FuturesOK, FutureAt
    <3>7. FutureAt(c)'
      BY <3>2, <3>4, <3>5, <3>6, <1>0, <1>1 DEF FutureAt, Held
    <3>8. \A d \in Calls, u \in Slots : d # c /\ fut[d] = "Async" /\ at[d] = u =>
             /\ Held(u)' = Held(u) /\ obj'[u] = obj[u] /\ phase'[u] = phase[u]
             /\ pinned'[u] = pinned[u] /\ pinAddr'[FutureOf[d]] = pinAddr[FutureOf[d]]
      BY <3>2, <3>4, <3>5, <1>2 DEF Live, Kept
    <3>9. \A u \in Slots : Full(u)' => u = s \/ (Full(u) /\ u # a)
      BY <3>5 DEF Full
    <3> QED
      BY <2>1, <3>1, <3>4, <3>7, <3>8, <3>9, <1>0, <1>1, FuturesKept
  <2>2. CASE fut[c] # "Async"
    <3>1. UNCHANGED vars
      BY <2>2, <1>0
    <3>2. IInv'
      BY <3>1, NextIInv DEF MInv
    <3>3. UNCHANGED <<obj, heap, phase, pinned, pinAddr>>
      BY <3>1 DEF vars, progVars, histVars
    <3>4. \A u \in Slots : Held(u)' = Held(u) /\ (Full(u)' <=> Full(u))
      BY <3>3 DEF Held, Full, Data
    <3> QED
      BY <3>2, <3>3, <3>4, <2>2, <1>0, <1>1, FuturesKept
  <2> QED
    BY <2>1, <2>2
<1> QED
  BY <1>3, <1>4 DEF Composed

LEMMA PinResultStep ==
    ASSUME MInv, NEW c \in Calls, pin_result(c)
    PROVE  Composed'
<1>0. Live(c) /\ pin(at[c]) /\ UNCHANGED <<fut, body, at>>
  BY DEF pin_result, syncVars
<1>1. PICK s \in Slots : s = at[c]
  BY <1>0 DEF MInv, ResultsOK
<1>2. IInv'
  BY <1>0, <1>1, PinStep DEF MInv
<1>3. /\ UNCHANGED <<obj, heap, phase, pinAddr>> /\ phase[s] = "idle"
      /\ pinned'[s] /\ \A u \in Slots : u # s => pinned'[u] = pinned[u]
  BY <1>0, <1>1 DEF pin, histVars, Idle, MInv, IInv, TypeOK
<1>4. \A u \in Slots : Held(u)' = Held(u) /\ (Full(u)' <=> Full(u))
  BY <1>3 DEF Held, Full, Data
<1>5. fut[c] = "Async" => FutureAt(c)'
  <2>1. fut[c] = "Async" => FutureAt(c)
    BY DEF MInv, FuturesOK
  <2> QED
    BY <2>1, <1>0, <1>1, <1>3 DEF FutureAt, Held, Data, DataAddr
<1>6. FuturesOK'
  <2>1. \A d \in Calls : d # c /\ Live(d) => at[d] # s
    BY <1>0, <1>1 DEF MInv, ResultsOK
  <2>2. \A d \in Calls, u \in Slots : d # c /\ fut[d] = "Async" /\ at[d] = u =>
           /\ Held(u)' = Held(u) /\ obj'[u] = obj[u] /\ phase'[u] = phase[u]
           /\ pinned'[u] = pinned[u] /\ pinAddr'[FutureOf[d]] = pinAddr[FutureOf[d]]
    BY <2>1, <1>3, <1>4 DEF Live
  <2>3. \A u \in Slots : Full(u)' =>
           (fut'[c] = "Async" /\ at'[c] = u) \/ (Full(u) /\ ~(fut[c] = "Async" /\ at[c] = u))
    BY <1>0, <1>4
  <2> QED
    BY <2>2, <2>3, <1>0, <1>5, FuturesKept
<1>7. ResultsOK'
  BY <1>0 DEF MInv, ResultsOK, Live
<1> QED
  BY <1>2, <1>6, <1>7 DEF Composed

-----------------------------------------------------------------------------
(* The theorems                                                            *)

LEMMA InitMInv == MInit => MInv
<1> SUFFICES ASSUME MInit PROVE MInv
  OBVIOUS
<1>1. IInv
  BY InitIInv DEF MInit
<1>2. MP!IInv
  BY InnerInit, MP!InitIInv, MethodsAssumption DEF MInit
<1>3. \A c \in Calls : fut[c] = "None"
  BY DEF MInit, M!Init
<1>4. \A s \in Slots : ~Full(s)
  BY DEF MInit, Init, Full
<1>5. ResultsOK /\ FuturesOK
  BY <1>3, <1>4 DEF MInit, ResultsOK, FuturesOK, Live
<1> QED
  BY <1>1, <1>2, <1>5 DEF MInv

LEMMA NextMInv == MInv /\ [MNext]_allVars => MInv'
<1> SUFFICES ASSUME MInv, [MNext]_allVars PROVE MInv'
  OBVIOUS
<1>1. MP!IInv'
  BY InnerNext, MP!NextIInv, MethodsAssumption DEF MInv
<1>2. CASE UNCHANGED allVars
  <2>1. UNCHANGED vars /\ UNCHANGED <<fut, body, at>>
    BY <1>2 DEF allVars, syncVars
  <2>2. IInv'
    BY <2>1, NextIInv DEF MInv
  <2>3. UNCHANGED <<obj, heap, phase, pinned, pinAddr>>
    BY <2>1 DEF vars, progVars, histVars
  <2>4. ResultsOK'
    BY <2>1 DEF MInv, ResultsOK, Live
  <2>5. FuturesOK'
    BY <2>1, <2>3 DEF MInv, FuturesOK, FutureAt, Held, Data, Full, DataAddr
  <2> QED
    BY <1>1, <2>2, <2>4, <2>5 DEF MInv
<1>3. CASE MNext
  <2>1. Composed'
    BY <1>3, ImplStep, PollBeginStep, PollEndStep, PollSyncStep, DropBeginStep, DropEndStep,
       DropSyncStep, MoveResultStep, PinResultStep, FireStep DEF MNext
  <2> QED
    BY <1>1, <2>1 DEF MInv, Composed
<1> QED
  BY <1>2, <1>3

(* The invariants of DynObject and of MaybeSync hold in the composition,   *)
(* with the ones that connect them.                                        *)
THEOREM MInvariance == MSpec => []MInv
BY InitMInv, NextMInv, PTL DEF MSpec

(* The Async variant always holds the future of its own call, at one place *)
(* once polled; the other variants hold none.                              *)
THEOREM FutureStays == MSpec => []FutureInPlace
<1>1. MInv => FutureInPlace
  <2> SUFFICES ASSUME MInv, NEW c \in Calls
               PROVE  IF fut[c] = "Async"
                      THEN /\ Held(at[c]) = FutureOf[c]
                           /\ body[c] # "idle" =>
                                 pinAddr[FutureOf[c]] = DataAddr(at[c], obj[at[c]])
                      ELSE \A s \in Slots : Held(s) # FutureOf[c]
    BY DEF FutureInPlace
  <2>1. CASE fut[c] = "Async"
    BY <2>1 DEF MInv, FuturesOK, FutureAt
  <2>2. CASE fut[c] # "Async"
    <3> SUFFICES ASSUME NEW s \in Slots, Held(s) = FutureOf[c] PROVE FALSE
      BY <2>2
    <3>1. Full(s)
      BY Separation, NoneAssumption, MethodsAssumption DEF MInv
    <3>2. PICK d \in Calls : fut[d] = "Async" /\ at[d] = s
      BY <3>1 DEF MInv, FuturesOK
    <3> QED
      BY <2>2, <3>2, AsyncSlot, MethodsAssumption
  <2> QED
    BY <2>1, <2>2
<1> QED
  BY <1>1, MInvariance, PTL

(* The destructor of a future runs once when its MaybeSync is dropped,     *)
(* suspended, completed or panicked, and not before.                       *)
THEOREM FutureDroppedOnce == MSpec => []DroppedExactlyOnce
<1>1. MInv => DroppedExactlyOnce
  BY DEF MInv, IInv
<1> QED
  BY <1>1, MInvariance, PTL

(* No memory of a future is lost: when a MaybeSync is dropped, before its  *)
(* first poll, half-way or after the answer, the drop glue gives the block *)
(* of its future back, unless the destructor of the future panics.         *)
THEOREM FutureMemoryFreed == MSpec => []LeaksOnlyOnPanic
<1>1. MInv => LeaksOnlyOnPanic
  BY DEF MInv, IInv, Ownership
<1> QED
  BY <1>1, MInvariance, PTL

(* The safety half of AnsweredOnce: with the future in a DynObject and     *)
(* polls and destructors that take time, a call is still answered at most  *)
(* once, by its output or its panic, and never after it was given up.      *)
THEOREM ComposedAnswersAtMostOnce == MSpec => M!Method!ASafety
<1>1. MInit => M!Method!AInit
  <2>1. MInit => MP!Method!AInit
    BY InnerInit, MP!InitOutcome, MethodsAssumption DEF MInit
  <2> QED
    BY <2>1 DEF MP!Method!AInit, M!Method!AInit, MP!OutcomeOf, M!OutcomeOf
<1> DEFINE outcome == [c \in Calls |-> M!OutcomeOf(c)]
<1>2. MInv /\ [MNext]_allVars => [M!Method!ANext]_outcome
  <2> SUFFICES ASSUME MInv, [MNext]_allVars PROVE [M!Method!ANext]_outcome
    OBVIOUS
  <2>1. [MP!Method!ANext]_(MP!outcome)
    BY InnerNext, MP!NextOutcome, MethodsAssumption DEF MInv
  <2>2. \A c \in Calls : M!OutcomeOf(c) = MP!OutcomeOf(c) /\ M!OutcomeOf(c)' = MP!OutcomeOf(c)'
    BY DEF M!OutcomeOf, MP!OutcomeOf
  <2>3. outcome = MP!outcome /\ outcome' = MP!outcome'
    BY <2>2 DEF MP!outcome
  <2> QED
    BY <2>1, <2>3
    DEF MP!outcome, MP!Method!ANext, M!Method!ANext, MP!Method!Begin, M!Method!Begin,
        MP!Method!BeginPanic, M!Method!BeginPanic, MP!Method!Settle, M!Method!Settle,
        MP!Method!Deliver, M!Method!Deliver, MP!Method!Fail, M!Method!Fail,
        MP!Method!Cancel, M!Method!Cancel, MP!Method!Step, M!Method!Step
<1> QED
  BY <1>1, <1>2, MInvariance, PTL DEF MSpec, M!Method!ASafety
=============================================================================
