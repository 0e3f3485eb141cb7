--------------------------- MODULE ThreadsProofs ---------------------------
(***************************************************************************)
(* The Send and Sync impls of DynObject are sound for all threads, objects *)
(* and trait object types whose Vtable impl asks the bounds of Dyn of the  *)
(* object: all but the ones that any_impl! makes with bounds.              *)
(***************************************************************************)
EXTENDS Threads, TLAPS

(* The condition that any_impl!(dyn Any + Send) breaks. *)
BoundsAsked == \A s \in Slots : DynOf[s].trait = "Any" => DynOf[s].bounds = {}

(* An object that is not Send is still in the thread that made it. *)
AtHome(v, t) == t = HomeOf[v] \/ "Send" \in AutoTraits[v]

ValuesAtHome == \A v \in Vals : place[v] # None => AtHome(v, place[v])

SlotOK(s) ==
    /\ Full(s) => at[s] \in Threads /\ AtHome(held[s], at[s])
    /\ Full(s) => DynOf[s].bounds \subseteq AutoTraits[held[s]]
    /\ ~Full(s) => Unused(s)
    /\ refs[s] # {} => is_sync(DynOf[s])
    /\ \A c \in calls[s] :
          c.thread = at[s] \/ (c.thread \in refs[s] /\ c.access = "Ref")
    /\ \A c \in calls[s] : c.access # "Ref" => refs[s] = {}

IInv == TypeOK /\ ValuesAtHome /\ \A s \in Slots : SlotOK(s)

-----------------------------------------------------------------------------
LEMMA InitIInv == Init => IInv
  BY ThreadsAssumption
  DEF Init, IInv, TypeOK, ValuesAtHome, AtHome, SlotOK, Full, Unused

(* Only slot s changes: it is enough to look at it. *)
LEMMA OneSlot ==
    ASSUME IInv, NEW s \in Slots, SlotOK(s)',
           \A r \in Slots \ {s} : /\ held'[r] = held[r] /\ at'[r] = at[r]
                                  /\ refs'[r] = refs[r] /\ calls'[r] = calls[r]
    PROVE  \A r \in Slots : SlotOK(r)'
<1> SUFFICES ASSUME NEW r \in Slots, r # s PROVE SlotOK(r)'
  OBVIOUS
<1>1. SlotOK(r)
  BY DEF IInv
<1> QED
  BY <1>1 DEF SlotOK, Full, Unused

LEMMA NextIInv ==
    ASSUME BoundsAsked, IInv, [Next]_vars
    PROVE  IInv'
<1> USE ThreadsAssumption
<1>0. \A s \in Slots, t \in Threads, a \in {"Ref", "Mut", "Drop"} :
         Call(t, a) \in Calls /\ Call(t, a).thread = t /\ Call(t, a).access = a
  BY DEF Call, Calls
<1>1. ASSUME NEW s \in Slots, NEW t \in Threads, NEW v \in Vals, new(s, t, v) PROVE IInv'
  <2>1. TypeOK' /\ ValuesAtHome'
    BY <1>1 DEF new, IInv, TypeOK, ValuesAtHome, AtHome
  <2>2. DynOf[s].bounds \subseteq AutoTraits[v]
    BY <1>1 DEF new, admits, BoundsAsked
  <2>3. held'[s] = v /\ at'[s] = t /\ refs'[s] = {} /\ calls'[s] = {} /\ AtHome(v, t)
    BY <1>1 DEF new, IInv, TypeOK, SlotOK, Unused, ValuesAtHome
  <2>4. SlotOK(s)'
    BY <2>2, <2>3 DEF SlotOK, Full, Unused, AtHome
  <2> QED
    BY <1>1, <2>1, <2>4, OneSlot DEF new, IInv, TypeOK
<1>2. ASSUME NEW s \in Slots, NEW t \in Threads, call_ref(s, t) PROVE IInv'
  <2>1. TypeOK' /\ ValuesAtHome'
    BY <1>0, <1>2 DEF call_ref, IInv, TypeOK, ValuesAtHome, AtHome
  <2>2. SlotOK(s)'
    BY <1>0, <1>2 DEF call_ref, IInv, TypeOK, SlotOK, Full, Unused, AtHome
  <2> QED
    BY <1>2, <2>1, <2>2, OneSlot DEF call_ref, IInv, TypeOK
<1>3. ASSUME NEW s \in Slots, call_mut(s) PROVE IInv'
  <2>0. at[s] \in Threads
    BY <1>3 DEF call_mut, IInv, SlotOK
  <2>1. TypeOK' /\ ValuesAtHome'
    BY <1>0, <1>3, <2>0 DEF call_mut, IInv, TypeOK, ValuesAtHome, AtHome
  <2>2. SlotOK(s)'
    BY <1>0, <1>3, <2>0 DEF call_mut, IInv, TypeOK, SlotOK, Full, Unused, AtHome
  <2> QED
    BY <1>3, <2>1, <2>2, OneSlot DEF call_mut, IInv, TypeOK
<1>4. ASSUME NEW s \in Slots, NEW t \in Threads, end_call(s, t) PROVE IInv'
  <2>1. TypeOK' /\ ValuesAtHome'
    BY <1>4 DEF end_call, IInv, TypeOK, ValuesAtHome, AtHome
  <2>2. SlotOK(s)'
    BY <1>4 DEF end_call, IInv, TypeOK, SlotOK, Full, Unused, AtHome
  <2> QED
    BY <1>4, <2>1, <2>2, OneSlot DEF end_call, IInv, TypeOK
<1>5. ASSUME NEW s \in Slots, drop(s) PROVE IInv'
  <2>0. at[s] \in Threads
    BY <1>5 DEF drop, IInv, SlotOK
  <2>1. TypeOK' /\ ValuesAtHome'
    BY <1>0, <1>5, <2>0 DEF drop, IInv, TypeOK, ValuesAtHome, AtHome
  <2>2. SlotOK(s)'
    BY <1>0, <1>5, <2>0 DEF drop, IInv, TypeOK, SlotOK, Full, Unused, AtHome
  <2> QED
    BY <1>5, <2>1, <2>2, OneSlot DEF drop, IInv, TypeOK
<1>6. ASSUME NEW s \in Slots, end_drop(s) PROVE IInv'
  <2>1. TypeOK' /\ ValuesAtHome'
    BY <1>6 DEF end_drop, IInv, TypeOK, ValuesAtHome, AtHome
  <2>2. SlotOK(s)
    BY DEF IInv
  <2>3. refs[s] = {}
    BY <1>6, <2>2 DEF end_drop, SlotOK
  <2>4. held'[s] = None /\ calls'[s] = {} /\ refs'[s] = {}
    BY <1>6, <2>3 DEF end_drop, IInv, TypeOK
  <2>5. SlotOK(s)'
    BY <2>4 DEF SlotOK, Full, Unused
  <2> QED
    BY <1>6, <2>1, <2>5, OneSlot DEF end_drop, IInv, TypeOK
<1>7. ASSUME NEW s \in Slots, downcast(s) PROVE IInv'
  <2>0. held[s] \in Vals /\ at[s] \in Threads /\ AtHome(held[s], at[s])
    BY <1>7 DEF downcast, IInv, TypeOK, SlotOK, Full
  <2>1. TypeOK' /\ ValuesAtHome'
    BY <1>7, <2>0 DEF downcast, IInv, TypeOK, ValuesAtHome, AtHome
  <2>2. SlotOK(s)'
    BY <1>7 DEF downcast, IInv, TypeOK, SlotOK, Full, Unused
  <2> QED
    BY <1>7, <2>1, <2>2, OneSlot DEF downcast, IInv, TypeOK
<1>8. ASSUME NEW s \in Slots, NEW t \in Threads, send(s, t) PROVE IInv'
  <2>1. TypeOK' /\ ValuesAtHome'
    BY <1>8 DEF send, IInv, TypeOK, ValuesAtHome, AtHome
  <2>2. "Send" \in AutoTraits[held[s]]
    BY <1>8 DEF send, is_send, IInv, SlotOK
  <2>3. SlotOK(s)'
    BY <1>8, <2>2 DEF send, IInv, TypeOK, SlotOK, Full, Unused, AtHome
  <2> QED
    BY <1>8, <2>1, <2>3, OneSlot DEF send, IInv, TypeOK
<1>9. ASSUME NEW s \in Slots, NEW t \in Threads, lend(s, t) PROVE IInv'
  <2>1. TypeOK' /\ ValuesAtHome'
    BY <1>9 DEF lend, IInv, TypeOK, ValuesAtHome, AtHome
  <2>2. SlotOK(s)'
    BY <1>9 DEF lend, IInv, TypeOK, SlotOK, Full, Unused, AtHome
  <2> QED
    BY <1>9, <2>1, <2>2, OneSlot DEF lend, IInv, TypeOK
<1>10. ASSUME NEW s \in Slots, NEW t \in Threads, end_lend(s, t) PROVE IInv'
  <2>1. TypeOK' /\ ValuesAtHome'
    BY <1>10 DEF end_lend, IInv, TypeOK, ValuesAtHome, AtHome
  <2>2. SlotOK(s)'
    BY <1>10 DEF end_lend, IInv, TypeOK, SlotOK, Full, Unused, AtHome
  <2> QED
    BY <1>10, <2>1, <2>2, OneSlot DEF end_lend, IInv, TypeOK
<1>11. ASSUME NEW v \in Vals, NEW t \in Threads, send_value(v, t) PROVE IInv'
  BY <1>11 DEF send_value, IInv, TypeOK, ValuesAtHome, AtHome, SlotOK, Full, Unused
<1>12. CASE UNCHANGED vars
  BY <1>12 DEF vars, IInv, TypeOK, ValuesAtHome, AtHome, SlotOK, Full, Unused
<1> QED
  BY <1>1, <1>2, <1>3, <1>4, <1>5, <1>6, <1>7, <1>8, <1>9, <1>10, <1>11, <1>12 DEF Next

(* The invariant, for every client program. *)
LEMMA Invariance ==
    ASSUME BoundsAsked
    PROVE  Spec => []IInv
<1>1. Init => IInv
  BY InitIInv
<1>2. IInv /\ [Next]_vars => IInv'
  BY NextIInv
<1> QED
  BY <1>1, <1>2, PTL DEF Spec

(* Where the Vtable impl asks the bounds of Dyn of the object, an object   *)
(* that is not Send stays with the thread that made it: Send and Sync for  *)
(* DynObject in object.rs add nothing to what Dyn says.                    *)
THEOREM SendSound ==
    ASSUME BoundsAsked
    PROVE  Spec => []ThreadConfined
<1>1. ASSUME IInv PROVE ThreadConfined
  <2> SUFFICES ASSUME NEW s \in Slots, NEW c \in calls[s]
               PROVE  \/ c.thread = HomeOf[held[s]]
                      \/ (IF c.access = "Ref" THEN AutoTraits[held[s]] # {}
                                              ELSE "Send" \in AutoTraits[held[s]])
    BY DEF ThreadConfined
  <2>1. SlotOK(s) /\ Full(s)
    BY <1>1 DEF IInv, SlotOK, Unused
  <2>2. CASE c.thread = at[s]
    BY <2>1, <2>2 DEF SlotOK, AtHome
  <2>3. CASE c.thread \in refs[s] /\ c.access = "Ref"
    <3>1. "Sync" \in AutoTraits[held[s]]
      BY <2>1, <2>3 DEF SlotOK, is_sync
    <3> QED
      BY <2>3, <3>1
  <2> QED
    BY <2>1, <2>2, <2>3 DEF SlotOK
<1> QED
  BY <1>1, Invariance, PTL

(* Under the same condition, an object that is not Sync is never in use by *)
(* two threads at once.                                                    *)
THEOREM SyncSound ==
    ASSUME BoundsAsked
    PROVE  Spec => []NoSharedUse
<1>1. ASSUME IInv PROVE NoSharedUse
  <2> SUFFICES ASSUME NEW s \in Slots, NEW c \in calls[s], NEW d \in calls[s],
                      c.thread # d.thread
               PROVE  "Sync" \in AutoTraits[held[s]]
    BY DEF NoSharedUse
  <2>1. SlotOK(s) /\ Full(s)
    BY <1>1 DEF IInv, SlotOK, Unused
  <2>2. refs[s] # {}
    BY <2>1 DEF SlotOK
  <2> QED
    BY <2>1, <2>2 DEF SlotOK, is_sync
<1> QED
  BY <1>1, Invariance, PTL
=============================================================================
