---------------------------- MODULE MCDynObject ----------------------------
(* Small instances of DynObject.                                           *)
EXTENDS DynObject, TLC

CONSTANTS small, big, over, zst, plain,   \* concrete types
          v1, v2, v3,                     \* objects
          s1, s2, s3, b1, b2              \* slots and blocks

MCAlignments == {1, 2, 4, 8}

(* small fits a storage of size 4 and alignment 4 exactly, big is one byte *)
(* too large, over has the size but not the alignment, zst is zero-sized   *)
(* and over-aligned, plain fits and has no destructor.                     *)
MCTypes == {small, big, over, zst, plain}
MCSizeOf == small :> 4 @@ big :> 5 @@ over :> 4 @@ zst :> 0 @@ plain :> 1
MCAlignOf == small :> 4 @@ big :> 1 @@ over :> 8 @@ zst :> 8 @@ plain :> 1
MCNeedsDrop == [T \in MCTypes |-> T # plain]

MCVals == {v1, v2, v3}
MCBlocks == {b1, b2}
MCSlots == {s1, s2, s3}

(* Any assignment of concrete types to the objects; one is fixed per run.  *)
FitOrNot == v1 :> small @@ v2 :> big @@ v3 :> over
Edges == v1 :> zst @@ v2 :> plain @@ v3 :> big
AllFit == v1 :> small @@ v2 :> small @@ v3 :> plain

RawOrBox44 == [kind |-> "RawOrBox", size |-> 4, align |-> 4]
Raw44 == [kind |-> "Raw", size |-> 4, align |-> 4]
Boxed == [kind |-> "Box", size |-> 8, align |-> 8]

(* Two places of one storage type, between which objects move, and a third *)
(* of another.                                                             *)
MixedStorage == s1 :> RawOrBox44 @@ s2 :> RawOrBox44 @@ s3 :> Boxed
InPlaceStorage == s1 :> Raw44 @@ s2 :> Raw44 @@ s3 :> RawOrBox44

(* The allocator's blocks are interchangeable. *)
BlockSymmetry == Permutations(MCBlocks)

AllAny == [s \in MCSlots |-> "Any"]
AllFuture == [s \in MCSlots |-> "Future"]
AllIterator == [s \in MCSlots |-> "Iterator"]
=============================================================================
