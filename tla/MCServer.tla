------------------------------ MODULE MCServer ------------------------------
(* Two clients, of which the second may stay silent.  While one is served   *)
(* the other waits in the listen queue.  The silent one makes them differ,  *)
(* so there is no symmetry.                                                 *)
EXTENDS Server

CONSTANTS c1, c2

TheClients == {c1, c2}
TheSilent == {c2}
=============================================================================
