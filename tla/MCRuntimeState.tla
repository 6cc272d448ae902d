---------------------------- MODULE MCRuntimeState ----------------------------
(* Model-checking instance of the state publication.                        *)
EXTENDS RuntimeState
==============================================================================
