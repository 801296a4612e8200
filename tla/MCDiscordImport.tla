-------------------------- MODULE MCDiscordImport --------------------------
(* Two archives that begin with the same batch and go on differently. *)
EXTENDS DiscordImport
CONSTANTS a1, a2
Message(i) == [contents |-> {[id |-> i, context |-> 1, reply |-> None, text |-> 1]},
               talks |-> {[id |-> 1, text |-> 1]}, warnings |-> 0, version |-> 2]
MCBatches == [a \in Archive |-> IF a = a1 THEN <<Message(1), Message(2)>>
                                ELSE <<Message(1), Message(3), Message(4)>>]
=============================================================================
