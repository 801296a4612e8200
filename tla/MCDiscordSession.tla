--------------------------- MODULE MCDiscordSession ---------------------------
(* DiscordSession on small instances: interchangeable calls of any kind.    *)
EXTENDS DiscordSession, TLC

=============================================================================
