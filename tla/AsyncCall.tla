----------------------------- MODULE AsyncCall -----------------------------
(***************************************************************************)
(* What the caller of an async method is promised, however the method is   *)
(* dispatched: unless the caller gives the call up, it is answered once,   *)
(* with the output of the method or with its panic.                        *)
(***************************************************************************)
CONSTANT Calls

VARIABLE outcome

COutcomes == {"new", "pending", "delivered", "panicked", "cancelled"}

Step(c, from, to) ==
    /\ outcome[c] = from
    /\ outcome' = [outcome EXCEPT ![c] = to]

Begin(c) == Step(c, "new", "pending")
(* A method without await points may have panicked in the call itself. *)
BeginPanic(c) == Step(c, "new", "panicked")
Deliver(c) == Step(c, "pending", "delivered")
Fail(c) == Step(c, "pending", "panicked")
Cancel(c) == Step(c, "pending", "cancelled")

Settle(c) == Deliver(c) \/ Fail(c) \/ Cancel(c)

AInit == outcome = [c \in Calls |-> "new"]

ANext == \E c \in Calls : Begin(c) \/ BeginPanic(c) \/ Settle(c)

ASafety == AInit /\ [][ANext]_outcome

ASpec == ASafety /\ \A c \in Calls : WF_outcome(Settle(c))
=============================================================================
