-------------------------- MODULE MCPosixSystemEvent --------------------------
(* TLC instance of PosixSystemEvent.                                        *)
EXTENDS PosixSystemEvent

CONSTANTS t1, t2

TwoThreads == {t1, t2}
=============================================================================
