-------------------------- MODULE MCTelegramCleanup --------------------------
(* Instances of TelegramCleanup for TLC.                                    *)
EXTENDS TelegramCleanup

(* Two batches of one target, so that one may succeed and one fail.         *)
MCSizes == <<1, 1>>

=============================================================================
