---------------------------- MODULE BootContract ----------------------------
(***************************************************************************)
(* What the update procedure promises about the partitions, whatever the   *)
(* moment of a reset: the partition that the ROM would start is never      *)
(* written, and a partition is chosen only while it holds a whole image.   *)
(* When a reboot failed and its choice could not be undone, the chosen     *)
(* partition may be written, while the other one is whole.                 *)
(***************************************************************************)
EXTENDS Naturals

CONSTANTS Images, Factory, Torn

VARIABLES part,    \* part[s]: the image in partition s, or Torn
          chosen,  \* the partition that a reset would start
          undone   \* a failed reboot has left its choice behind

vars == <<part, chosen, undone>>
Slots == {1, 2}

Init ==
  /\ part = [s \in Slots |-> IF s = 1 THEN Factory ELSE Torn]
  /\ chosen = 1 /\ undone = FALSE

Write(s) ==
  /\ part[3 - s] # Torn
  /\ \E i \in Images \cup {Torn} : part' = [part EXCEPT ![s] = i]
  /\ IF undone THEN chosen' \in Slots /\ part'[chosen'] # Torn
     ELSE s # chosen /\ UNCHANGED chosen
  /\ UNCHANGED undone

Choose(s) ==
  /\ part[s] # Torn
  /\ chosen' = s /\ undone' \in BOOLEAN
  /\ UNCHANGED part

Next == \E s \in Slots : Write(s) \/ Choose(s)

Spec == Init /\ [][Next]_vars
=============================================================================
