--------------------------- MODULE LoaderInstall ---------------------------
(***************************************************************************)
(* write_partition_2: the Loader that runs from Partition 1 installs the   *)
(* staged package into Partition 2 and the data tree.                      *)
(*                                                                         *)
(* Only what differs is replaced.  The record of Partition 2 is withdrawn  *)
(* before its image is and written when everything is in place; an install *)
(* that was cut short is therefore planned and run again.                  *)
(*                                                                         *)
(* A format 2 package removes .checksum, replaces the tree, writes         *)
(* .checksum, and then replaces the image.  A format 1 package is one      *)
(* archive: the tree is cleared with the old .checksum somewhere in it,    *)
(* and the new one is written behind the image.                            *)
(***************************************************************************)
EXTENDS LoaderStage

Segmented == FormatOf[stage] = 2

\* Partition 2 is hashed, the data tree is trusted to be what .checksum says;
\* a Loader package always brings its image and never its data.
Plan ==
  IF ImageOf[stage] \in LoaderImages THEN [app |-> TRUE, data |-> FALSE]
  ELSE [app |-> part[2] # ImageOf[stage], data |-> installed # DataOf[stage]]

\* inspect_current_stage and plan_install
Inspect ==
  /\ pc = "inspect"
  /\ file = stage
  /\ plan' = Plan
  /\ Goto(IF Plan.app THEN "invalidate"
          ELSE IF Plan.data THEN "data" ELSE "record")
  /\ UNCHANGED <<slots, boot, staged, data, run, pkg, goal, mode>>

\* Whatever keeps the package from being read withdraws the Stage record.
InspectFails ==
  /\ pc = "inspect"
  /\ stage' = None
  /\ Finish
  /\ UNCHANGED <<slots, boot, data, file, tmp, run, mode>>

\* Mutant: the record of Partition 2 stands while the image is replaced.
InvalidateNothing ==
  /\ pc = "invalidate"
  /\ Goto(IF plan.data THEN "data" ELSE "erase")
  /\ UNCHANGED <<slots, boot, staged, data, run, work, mode>>

InvalidateTarget ==
  /\ pc = "invalidate"
  /\ meta' = [meta EXCEPT ![2] = Invalid]
  /\ Goto(IF plan.data THEN "data" ELSE "erase")
  /\ UNCHANGED <<part, boot, staged, data, run, work, mode>>

-----------------------------------------------------------------------------
(* The data tree.                                                          *)

\* h2_bundle_archive_install_data_zlib
RemoveChecksum ==
  /\ pc = "data" /\ Segmented
  /\ installed' = None
  /\ doubt' = (doubt \/ ~plan.app)
  /\ Goto("clear")
  /\ UNCHANGED <<slots, boot, staged, tree, run, work, mode>>

ClearData ==
  /\ pc = "clear"
  /\ tree' = Torn
  /\ Goto("fill")
  /\ UNCHANGED <<slots, boot, staged, installed, doubt, run, work, mode>>

FillData ==
  /\ pc = "fill"
  /\ tree' = DataOf[stage]
  /\ Goto("checksum")
  /\ UNCHANGED <<slots, boot, staged, installed, doubt, run, work, mode>>

\* tar_state_finish
WriteChecksum ==
  /\ pc = "checksum"
  /\ installed' = DataOf[stage]
  /\ tree' = IF Segmented THEN tree ELSE DataOf[stage]
  /\ Goto(IF Segmented /\ plan.app THEN "erase" ELSE "record")
  /\ UNCHANGED <<slots, boot, staged, doubt, run, work, mode>>

\* h2_bundle_archive_install_zlib_tar: clear_data walks the directory, and
\* .checksum goes when the walk comes to it.
ReplaceData ==
  /\ pc = "data" /\ ~Segmented
  /\ tree' = Unfinished
  /\ installed' \in {installed, None}
  /\ doubt' = (doubt \/ ~plan.app)
  /\ Goto(IF plan.app THEN "erase" ELSE "checksum")
  /\ UNCHANGED <<slots, boot, staged, run, work, mode>>

-----------------------------------------------------------------------------
(* The image.                                                              *)

EraseTarget ==
  /\ pc = "erase"
  /\ part' = [part EXCEPT ![2] = Torn]
  /\ Goto("write")
  /\ UNCHANGED <<meta, boot, staged, data, run, work, mode>>

\* The image is written and read back: install_segments has installed the
\* data before it ...
WriteSegments ==
  /\ Segmented
  /\ part' = [part EXCEPT ![2] = ImageOf[stage]]
  /\ Goto("record")

\* ... and the archive of format 1 finishes the data with it.
WriteApp ==
  /\ ~Segmented
  /\ part' = [part EXCEPT ![2] = ImageOf[stage]]
  /\ Goto(IF plan.data THEN "checksum" ELSE "record")

WriteTarget ==
  /\ pc = "write"
  /\ WriteSegments \/ WriteApp
  /\ UNCHANGED <<meta, boot, staged, data, run, work, mode>>

RecordTarget ==
  /\ pc = "record"
  /\ meta' = [meta EXCEPT ![2] = FromStage]
  /\ doubt' = FALSE
  /\ plan' = NoPlan
  /\ Goto("launch")
  /\ UNCHANGED <<part, boot, staged, tree, installed, run, pkg, goal, mode>>

=============================================================================
