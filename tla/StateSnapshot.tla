---------------------------- MODULE StateSnapshot ----------------------------
(***************************************************************************)
(* What the Runtime state publication promises its component-state         *)
(* readers: an atomic register.  A publication replaces the whole          *)
(* snapshot in one step; a reader captures the snapshot that is current at *)
(* one instant of its call and later returns exactly what it captured.     *)
(* A snapshot is named by its generation; generation 0 is the zeroed bank  *)
(* that is active before the first publication.                            *)
(***************************************************************************)
EXTENDS Naturals

CONSTANTS Readers,   \* App, Lua and Service tasks that read component state
          NoRead     \* not a generation: a reader that has captured nothing

VARIABLES current,   \* the generation a reader that captures now would get
          held,      \* per reader: the captured generation, or NoRead
          got        \* per reader: the generation its last read returned

vars == <<current, held, got>>

Init ==
  /\ current = 0
  /\ held = [r \in Readers |-> NoRead]
  /\ got = [r \in Readers |-> 0]

Publish ==
  /\ current' = current + 1
  /\ UNCHANGED <<held, got>>

Capture(r) ==
  /\ held[r] = NoRead
  /\ held' = [held EXCEPT ![r] = current]
  /\ UNCHANGED <<current, got>>

Return(r) ==
  /\ held[r] # NoRead
  /\ got' = [got EXCEPT ![r] = held[r]]
  /\ held' = [held EXCEPT ![r] = NoRead]
  /\ UNCHANGED current

Next == Publish \/ \E r \in Readers : Capture(r) \/ Return(r)

Spec == Init /\ [][Next]_vars
==============================================================================
