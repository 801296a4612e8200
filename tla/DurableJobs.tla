----------------------------- MODULE DurableJobs -----------------------------
(***************************************************************************)
(* What the job store promises its callers: a register of accepted changes. *)
(* A change is applied whole and once, an acknowledged change is never      *)
(* lost, a change reported as refused never appears.  A change of which     *)
(* nothing was reported may be lost with the machine.                       *)
(***************************************************************************)
CONSTANT Change

VARIABLES
  value,      \* the changes a reader of the register sees
  acked,      \* changes reported as saved
  refused     \* changes reported as not saved

Apply(t) ==
  /\ t \notin value \cup refused
  /\ value' = value \cup {t}
  /\ UNCHANGED <<acked, refused>>

Acknowledge(t) ==
  /\ t \in value
  /\ acked' = acked \cup {t}
  /\ UNCHANGED <<value, refused>>

Refuse(t) ==
  /\ t \notin value
  /\ refused' = refused \cup {t}
  /\ UNCHANGED <<value, acked>>

Lose(lost) ==
  /\ lost \cap acked = {}
  /\ value' = value \ lost
  /\ UNCHANGED <<acked, refused>>

Init == value = {} /\ acked = {} /\ refused = {}

Next ==
  \/ \E t \in Change : Apply(t) \/ Acknowledge(t) \/ Refuse(t)
  \/ \E lost \in SUBSET value : Lose(lost)

Spec == Init /\ [][Next]_<<value, acked, refused>>
=============================================================================
