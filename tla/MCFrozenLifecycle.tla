-------------------------- MODULE MCFrozenLifecycle --------------------------
(* Small instances of FrozenLifecycle for TLC.                              *)
EXTENDS FrozenLifecycleInv, TLC

(* A plan freezes a batch of one target and a batch of two, so that a batch *)
(* can be partly skipped; or one batch, where two handlers interleave.      *)
OneThenTwo == [p \in Plan |-> <<1, 3>>]
OneBatch   == [p \in Plan |-> <<1>>]

(* Jobs, plans and clients are interchangeable identities.                  *)
Symmetry == Permutations(Job) \cup Permutations(Plan) \cup Permutations(Client)
=============================================================================
