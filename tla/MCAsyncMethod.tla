--------------------------- MODULE MCAsyncMethod ---------------------------
(* A small instance of AsyncMethod: a call of a #[sync] method and two of  *)
(* ordinary ones, whose futures are stored in place and in a box.          *)
EXTENDS AsyncMethod, TLC

CONSTANTS small, big,           \* concrete futures that fit in place or do not
          f1, f2, f3, s1, s2, b1, cs, ca, cr, t1

MCTypes == {small, big}
MCSizeOf == small :> 4 @@ big :> 5
MCAlignOf == small :> 4 @@ big :> 1
MCNeedsDrop == [T \in MCTypes |-> TRUE]
MCAlignments == {1, 4}
MCVals == {f1, f2, f3}
MCTypeOf == f1 :> small @@ f2 :> small @@ f3 :> big
MCBlocks == {b1}
MCSlots == {s1, s2}
MCStorageOf == [s \in MCSlots |-> [kind |-> "RawOrBox", size |-> 4, align |-> 4]]
MCDynOf == [s \in MCSlots |-> "Future"]

MCCalls == {cs, ca, cr}
MCSyncImpls == {cs}
MCTasks == {t1}
MCFutureOf == cs :> f1 @@ ca :> f2 @@ cr :> f3
=============================================================================
