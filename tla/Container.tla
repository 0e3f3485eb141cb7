----------------------------- MODULE Container -----------------------------
(***************************************************************************)
(* What a place of type Option<Box<dyn Trait>> promises its owner, and what*)
(* Option<DynObject<dyn Trait, S>> has to promise as well: the object that *)
(* goes in is the object that is used and comes out, no object is in two   *)
(* places, its destructor is called once and it is gone afterwards.        *)
(***************************************************************************)
CONSTANTS
    Slots,          \* the places
    Vals,           \* the objects
    Droppable,      \* the objects that have a destructor
    None            \* an empty place

VARIABLES
    holds,  \* the object in each place
    state   \* where each object is in its life

cvars == <<holds, state>>

(* An object is owned by the client, held by a place, held while its       *)
(* destructor runs, or gone.                                               *)
States == {"client", "held", "dying", "gone"}

CInit ==
    /\ holds = [s \in Slots |-> None]
    /\ state = [v \in Vals |-> "client"]

(* What becomes of the object of place s when it is dropped on the spot. *)
Killed(s) == IF holds[s] = None THEN state ELSE [state EXCEPT ![holds[s]] = "gone"]

(* v goes into s; an object without destructor that was there is gone. *)
Put(s, v) ==
    /\ state[v] = "client"
    /\ holds[s] \in (Vals \ Droppable) \cup {None}
    /\ holds' = [holds EXCEPT ![s] = v]
    /\ state' = [Killed(s) EXCEPT ![v] = "held"]

Take(s) ==
    /\ holds[s] # None /\ state[holds[s]] = "held"
    /\ holds' = [holds EXCEPT ![s] = None]
    /\ state' = [state EXCEPT ![holds[s]] = "client"]

Transfer(s, t) ==
    /\ holds[s] # None /\ state[holds[s]] = "held" /\ holds[t] = None
    /\ holds' = [holds EXCEPT ![s] = None, ![t] = holds[s]]
    /\ state' = state

BeginDrop(s) ==
    /\ holds[s] \in Droppable /\ state[holds[s]] = "held"
    /\ holds' = holds
    /\ state' = [state EXCEPT ![holds[s]] = "dying"]

EndDrop(s) ==
    /\ \/ holds[s] \in Droppable /\ state[holds[s]] = "dying"
       \/ holds[s] \in Vals \ Droppable /\ state[holds[s]] = "held"
    /\ holds' = [holds EXCEPT ![s] = None]
    /\ state' = [state EXCEPT ![holds[s]] = "gone"]

(* v is put aside in t and the destructor of the object in s starts. *)
BeginReplace(s, t, v) ==
    /\ state[v] = "client" /\ holds[t] = None
    /\ holds[s] \in Droppable /\ state[holds[s]] = "held"
    /\ holds' = [holds EXCEPT ![t] = v]
    /\ state' = [state EXCEPT ![holds[s]] = "dying", ![v] = "held"]

EndReplace(s, t) ==
    /\ holds[s] \in Droppable /\ state[holds[s]] = "dying"
    /\ holds[t] # None /\ state[holds[t]] = "held"
    /\ holds' = [holds EXCEPT ![s] = holds[t], ![t] = None]
    /\ state' = [state EXCEPT ![holds[s]] = "gone"]

ClientDrop(v) ==
    /\ state[v] = "client"
    /\ holds' = holds
    /\ state' = [state EXCEPT ![v] = "gone"]

CNext ==
    \/ \E s \in Slots :
          \/ \E v \in Vals : Put(s, v)
          \/ Take(s)
          \/ BeginDrop(s)
          \/ EndDrop(s)
          \/ \E t \in Slots : Transfer(s, t)
          \/ \E t \in Slots : EndReplace(s, t)
          \/ \E t \in Slots, v \in Vals : BeginReplace(s, t, v)
    \/ \E v \in Vals : ClientDrop(v)

CSpec == CInit /\ [][CNext]_cvars
=============================================================================
