---------------------------- MODULE MCMaybeSync ----------------------------
(* A small instance of MaybeSync: one call of a #[sync] implementation and *)
(* one of an ordinary one, two tasks.                                      *)
EXTENDS MaybeSync

CONSTANTS cs, ca, t1, t2

MCCalls == {cs, ca}
MCSyncImpls == {cs}
MCTasks == {t1, t2}
=============================================================================
