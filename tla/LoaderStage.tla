---------------------------- MODULE LoaderStage ----------------------------
(***************************************************************************)
(* Staging a package: the stage commands of the Loader and of the App      *)
(* console, and the recovery that the next boot runs on what they leave.   *)
(* The Stage record is withdrawn before any byte of the old package goes   *)
(* and written as the last step, once the received bytes have been         *)
(* compared with their checksum, inspected and renamed.                    *)
(***************************************************************************)
EXTENDS LoaderFlash

\* h2_loader_begin_stage
BeginStage ==
  /\ pc = "idle"
  /\ stage' = None
  /\ Goto("begin_tmp")
  /\ UNCHANGED <<slots, boot, data, file, tmp, run, work, mode>>

BeginTemporary ==
  /\ pc = "begin_tmp"
  /\ tmp' = None
  /\ Goto("begin_file")
  /\ UNCHANGED <<slots, boot, data, stage, file, run, work, mode>>

BeginPackage ==
  /\ pc = "begin_file"
  /\ file' = None
  /\ Goto("open")
  /\ UNCHANGED <<slots, boot, data, stage, tmp, run, work, mode>>

\* The temporary file is truncated, and filled from the link or the URL with
\* the package p that the command names.
ReceiveOpen(p) ==
  /\ pc = "open"
  /\ tmp' = Torn /\ pkg' = p
  /\ Goto("receive")
  /\ UNCHANGED <<slots, boot, data, stage, file, run, plan, goal, mode>>

\* A short read, a failing write, a wrong checksum, a bad manifest or a
\* failing rename removes the temporary file.
ReceiveFails ==
  /\ pc = "receive"
  /\ tmp' = None
  /\ Finish
  /\ UNCHANGED <<slots, boot, data, stage, file, run, mode>>

\* Every byte has arrived, is synced and has the checksum of the command: the
\* rename.  The old package is gone by now, so no .prev is left.
Publish ==
  /\ pc = "receive"
  /\ file' = pkg /\ tmp' = None
  /\ Goto("commit")
  /\ UNCHANGED <<slots, boot, data, stage, run, work, mode>>

\* h2_loader_commit_inspected_stage
CommitStage ==
  /\ pc = "commit"
  /\ stage' = pkg
  /\ rejected' = IF ImageOf[pkg] # rejected THEN None ELSE rejected
  /\ Finish
  /\ UNCHANGED <<slots, next, ota, intent, data, file, tmp, run, mode>>

CommitFails ==
  /\ pc = "commit"
  /\ file' = None
  /\ Finish
  /\ UNCHANGED <<slots, boot, data, stage, tmp, run, mode>>

\* h2_loader_cancel_stage: the record, then the file
CancelStage ==
  /\ pc = "idle"
  /\ stage' = None
  /\ Goto("drop_file")
  /\ UNCHANGED <<slots, boot, data, file, tmp, run, work, mode>>

\* finish_stage, in the same order
DropStage ==
  /\ pc = "drop_stage"
  /\ stage' = None
  /\ Goto("drop_file")
  /\ UNCHANGED <<slots, boot, data, file, tmp, run, work, mode>>

DropFile ==
  /\ pc = "drop_file"
  /\ file' = None
  /\ Finish
  /\ UNCHANGED <<slots, boot, data, stage, tmp, run, mode>>

-----------------------------------------------------------------------------
(* h2_loader_package_recover_publish                                       *)

Discard == tmp # None \/ file = None \/ stage = None

Recover ==
  /\ pc = "recover"
  /\ tmp' = None
  /\ Goto(IF Discard THEN "recover_file" ELSE "seed")
  /\ UNCHANGED <<slots, boot, data, stage, file, run, work, mode>>

RecoverFile ==
  /\ pc = "recover_file"
  /\ file' = None
  /\ Goto("recover_stage")
  /\ UNCHANGED <<slots, boot, data, stage, tmp, run, work, mode>>

RecoverStage ==
  /\ pc = "recover_stage"
  /\ stage' = None
  /\ Goto("seed")
  /\ UNCHANGED <<slots, boot, data, file, tmp, run, work, mode>>

\* After a file system error the Loader goes on, but only to command mode; the
\* startup at the end of a session would repeat what this one does.
RecoverFails ==
  /\ pc \in {"recover", "recover_file", "recover_stage"}
  /\ session' = FALSE /\ force' = TRUE
  /\ Goto("seed")
  /\ UNCHANGED <<slots, boot, staged, data, run, work, cached>>

=============================================================================
