--------------------------- MODULE MCDiscordDelete ---------------------------
(* DiscordDelete on a small instance: a deletion and two verifications of   *)
(* one message, one call more than there are permits.                       *)
EXTENDS DiscordDelete, TLC

CONSTANTS d1, v1, v2, m1, ch1

OneMessage == [c \in Call |-> m1]
OneChannel == m1 :> ch1
=============================================================================
