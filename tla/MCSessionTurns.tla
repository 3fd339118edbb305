--------------------------- MODULE MCSessionTurns ---------------------------
(* Small instances of SessionTurns.                                        *)
EXTENDS SessionTurns

Few      == [steer |-> 2, followUp |-> 1, irc |-> 1]
OneSteer == [steer |-> 1, followUp |-> 0, irc |-> 0]
=============================================================================
