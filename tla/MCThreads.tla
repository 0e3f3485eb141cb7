----------------------------- MODULE MCThreads -----------------------------
(* Small instances of Threads: two threads and one object of each          *)
(* combination of auto traits.                                             *)
EXTENDS Threads, TLC

CONSTANTS t1, t2, s1, s2, s3, rc, cell, guard, int

MCThreads == {t1, t2}
MCSlots == {s1, s2, s3}

(* Like Rc, RefCell, MutexGuard and i32. *)
MCVals == {rc, cell, guard, int}
MCAutoTraits == rc :> {} @@ cell :> {"Send"} @@ guard :> {"Sync"} @@ int :> {"Send", "Sync"}
MCHomeOf == rc :> t1 @@ cell :> t1 @@ guard :> t2 @@ int :> t2

(* One impl of impls.rs with a bound, one generated by #[dyn_object(bounds *)
(* = Sync)], and dyn Any.                                                  *)
Bounded == s1 :> [trait |-> "Future", bounds |-> {"Send"}]
        @@ s2 :> [trait |-> "Custom", bounds |-> {"Sync"}]
        @@ s3 :> [trait |-> "Any", bounds |-> {}]

(* The other two invocations of any_impl!. *)
BoundedAny == s1 :> [trait |-> "Any", bounds |-> {"Send"}]
           @@ s2 :> [trait |-> "Any", bounds |-> {"Send", "Sync"}]
           @@ s3 :> [trait |-> "Any", bounds |-> {}]
=============================================================================
