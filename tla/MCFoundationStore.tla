-------------------------- MODULE MCFoundationStore --------------------------
(* FoundationStore on small instances, of a new and of a legacy profile.    *)
EXTENDS FoundationStore
=============================================================================
