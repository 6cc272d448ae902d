---------------------------- MODULE MCRuntimeEvent ----------------------------
(* Model-checking instance of the event queue and its door.                 *)
EXTENDS RuntimeEvent
==============================================================================
