--------------------------- MODULE MCNmeaReceive ------------------------------
(* Two positions, one of a talker whose positions are not taken over, and a  *)
(* vendor message, short enough for TLC. The line buffer holds a line of     *)
(* nine characters and half of the next one.                                 *)
EXTENDS NmeaReceive

A == {0, 6}

MCSentences == {<<G, A>>, <<G, B>>, <<B, A>>, <<P, A, A>>}
===============================================================================
