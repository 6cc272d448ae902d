----------------------------- MODULE LoaderBoot -----------------------------
(***************************************************************************)
(* H2Loader from power on to power off: the startup of the Loader, the     *)
(* copy of a Loader candidate over Partition 1, the finalizer of an App,   *)
(* the reboot commands, and a reset at any point.                          *)
(*                                                                         *)
(* Startup, commands and finalizer do not overlap: startup and commands    *)
(* hold the operation mutex, and commands are sent to an App that has been *)
(* finalized.                                                              *)
(***************************************************************************)
EXTENDS LoaderInstall

\* A device as the factory flashes it: no preference is stored, and an intent
\* that is not stored reads as LOADER.
Init ==
  /\ part = [s \in Slots |-> IF s = 1 THEN Factory ELSE Torn]
  /\ meta = [s \in Slots |-> Invalid]
  /\ next = 1 /\ ota = [s \in Slots |-> "none"] /\ intent = "LOADER"
  /\ stage = None /\ file = None /\ tmp = None
  /\ tree = Torn /\ installed = None
  /\ run = 0 /\ pc = "off"
  /\ session = FALSE /\ force = FALSE /\ cached = "LOADER"
  /\ pkg = None /\ plan = NoPlan /\ goal = NoGoal
  /\ rejected = None /\ doubt = FALSE

-----------------------------------------------------------------------------
(* set_next_and_reboot                                                     *)

StartReboot(s, i) ==
  /\ goal' = [slot |-> s, from |-> next]
  /\ intent' = i
  /\ Goto("select")
  /\ UNCHANGED <<slots, next, ota, rejected, staged, data, run, pkg, plan, mode>>

SelectNext ==
  /\ pc = "select"
  /\ SetNext(goal.slot)
  /\ rejected' = IF goal.slot = 2 THEN None ELSE rejected
  /\ Goto("reset")
  /\ UNCHANGED <<slots, intent, staged, data, run, work, mode>>

\* The intent is put back, unless that write fails as well.
SelectFails ==
  /\ pc = "select"
  /\ intent' \in {cached, intent}
  /\ Finish
  /\ UNCHANGED <<slots, next, ota, rejected, staged, data, run, mode>>

Restart == pc = "reset" /\ Off

\* The platform refuses to reboot.  Selection and intent are put back as far
\* as those calls succeed; selecting the running partition changes nothing.
RebootFails ==
  /\ pc = "reset"
  /\ SetNext(goal.from) \/ UNCHANGED <<next, ota>>
  /\ intent' \in {cached, intent}
  /\ Finish
  /\ UNCHANGED <<slots, rejected, staged, data, run, mode>>

-----------------------------------------------------------------------------
(* h2_loader_startup                                                       *)

\* seed_running_metadata
Seed ==
  /\ pc = "seed"
  /\ meta' = IF meta[run].image = part[run] THEN meta
             ELSE [meta EXCEPT ![run] = Record(part[run], None)]
  /\ Goto("confirm")
  /\ UNCHANGED <<part, boot, staged, data, run, work, mode>>

\* Mutant: a Loader candidate copies itself before it is confirmed.
CopyUnconfirmed ==
  /\ pc = "confirm"
  /\ IF run = 2 THEN UNCHANGED ota ELSE ConfirmRunning
  /\ Goto(IF run = 2 THEN "copy"
          ELSE IF force \/ cached = "LOADER" THEN "idle" ELSE "auto")
  /\ force' = FALSE
  /\ UNCHANGED <<slots, next, intent, rejected, staged, data, run, work, session,
                 cached>>

\* The image confirms itself.  A Loader that runs from Partition 2 copies
\* itself; the one in Partition 1 goes on unless it is told to stay.
Confirm ==
  /\ pc = "confirm"
  /\ ConfirmRunning
  /\ Goto(IF run = 2 THEN "copy"
          ELSE IF force \/ cached = "LOADER" THEN "idle" ELSE "auto")
  /\ force' = FALSE
  /\ UNCHANGED <<slots, next, intent, rejected, staged, data, run, work, session,
                 cached>>

\* The end of a factory session runs startup again.
StartupAgain ==
  /\ pc = "idle" /\ run = 1 /\ session
  /\ Goto("seed") /\ cached' = intent
  /\ UNCHANGED <<slots, boot, staged, data, run, work, session, force>>

\* finish_loader_stage_if_converged, the records; DropStage does the rest.
Converged ==
  /\ stage # None /\ ImageOf[stage] \in LoaderImages
  /\ SameImage(meta[1], meta[2]) /\ StageIs(meta[1])

\* Mutant: with a Stage the rollback is not looked for.
CandidateWithoutStage == meta[2].image # None /\ stage = None

\* A record of Partition 2 that no other Stage is going to replace.
Candidate == meta[2].image # None /\ (stage # None => StageIs(meta[2]))

Converge ==
  /\ pc \in {"auto", "launch"} /\ Converged
  /\ meta' = [meta EXCEPT ![2] = FromStage]
  /\ Goto("converge")
  /\ UNCHANGED <<part, boot, staged, data, run, work, mode>>

ConvergeLoader ==
  /\ pc = "converge"
  /\ meta' = [meta EXCEPT ![1] = FromStage]
  /\ Goto("drop_stage")
  /\ UNCHANGED <<part, boot, staged, data, run, work, mode>>

\* detect_rolled_back_app, or the error of the query it makes
RolledBack == Candidate /\ (~Listed \/ ~Bootable)

StayInLoader ==
  /\ pc = "auto" /\ ~Converged /\ RolledBack
  /\ Finish
  /\ UNCHANGED <<slots, boot, staged, data, run, mode>>

Proceed ==
  /\ pc = "auto" /\ ~Converged /\ ~RolledBack
  /\ Goto(IF stage # None THEN "inspect" ELSE "launch")
  /\ UNCHANGED <<slots, boot, staged, data, run, work, mode>>

\* Mutant: a copied Loader candidate is launched again.
LaunchableTwice == meta[2].image # None

Launchable == meta[2].image # None /\ ~SameImage(meta[1], meta[2])

\* Nothing to launch, or an App that manufacturing has not accepted.
NoLaunch ==
  /\ pc = "launch" /\ ~Converged
  /\ Launchable => meta[2].image \notin LoaderImages
  /\ Finish
  /\ UNCHANGED <<slots, boot, staged, data, run, mode>>

Launch == pc = "launch" /\ Launchable /\ StartReboot(2, "AUTO")

-----------------------------------------------------------------------------
(* copy_partition_2_to_1                                                   *)

InvalidateLoader ==
  /\ pc = "copy"
  /\ SetNext(2)
  /\ meta' = [meta EXCEPT ![1] = Invalid]
  /\ Goto("copy_erase")
  /\ UNCHANGED <<part, intent, rejected, staged, data, run, work, mode>>

EraseLoader ==
  /\ pc = "copy_erase"
  /\ part' = [part EXCEPT ![1] = Torn]
  /\ Goto("copy_write")
  /\ UNCHANGED <<meta, boot, staged, data, run, work, mode>>

WriteLoader ==
  /\ pc = "copy_write"
  /\ part' = [part EXCEPT ![1] = part[2]]
  /\ Goto("copy_source")
  /\ UNCHANGED <<meta, boot, staged, data, run, work, mode>>

Copied == IF stage # None /\ ImageOf[stage] = part[run] THEN FromStage
          ELSE Record(part[run], None)

RecordSource ==
  /\ pc = "copy_source"
  /\ meta' = IF Copied.package # None THEN [meta EXCEPT ![2] = Copied] ELSE meta
  /\ Goto("copy_record")
  /\ UNCHANGED <<part, boot, staged, data, run, work, mode>>

RecordLoader ==
  /\ pc = "copy_record"
  /\ meta' = [meta EXCEPT ![1] = Copied]
  /\ Goto("copied")
  /\ UNCHANGED <<part, boot, staged, data, run, work, mode>>

CopyDone == pc = "copied" /\ StartReboot(1, "AUTO")

-----------------------------------------------------------------------------
(* h2_loader_finalize_active_app_with_confirmation                         *)

\* Mutant: only the image is compared, not the package.
StageImageInstalled == StageIs(meta[2])

\* The Stage is what Partition 2 was installed from.
StageInstalled == StageIs(meta[2]) /\ stage = meta[2].package

FinalRecord ==
  /\ pc = "final"
  /\ meta' = IF meta[2].image = part[2] THEN meta
             ELSE [meta EXCEPT ![2] = Record(part[2], None)]
  /\ Goto(IF meta[2].image = part[2] /\ StageInstalled
          THEN "final_drop" ELSE "final_keep")
  /\ UNCHANGED <<part, boot, staged, data, run, work, mode>>

FinalConfirm ==
  /\ pc \in {"final_drop", "final_keep"}
  /\ ConfirmRunning
  /\ Goto(IF pc = "final_drop" THEN "drop_stage" ELSE "idle")
  /\ UNCHANGED <<slots, next, intent, rejected, staged, data, run, work, mode>>

-----------------------------------------------------------------------------
(* The console.                                                            *)

RebootLoader  == pc = "idle" /\ StartReboot(1, "LOADER")
RebootUpgrade == pc = "idle" /\ StartReboot(1, "AUTO")
RebootApp ==
  /\ pc = "idle"
  /\ meta[2].image \in Images \ LoaderImages
  /\ StartReboot(2, "AUTO")

\* A call that fails before it has written anything ends what calls it.
Fail ==
  /\ pc \notin {"off", "idle", "recover", "recover_file", "recover_stage",
                "select", "reset"}
  /\ Finish
  /\ UNCHANGED <<slots, boot, staged, data, run, mode>>

-----------------------------------------------------------------------------
Step ==
  \/ PowerOn \/ Restart
  \/ BeginTemporary \/ BeginPackage
  \/ (\E p \in Packages : ReceiveOpen(p))
  \/ Publish \/ CommitStage \/ DropStage \/ DropFile
  \/ Recover \/ RecoverFile \/ RecoverStage
  \/ Seed \/ Confirm
  \/ Converge \/ ConvergeLoader \/ StayInLoader \/ Proceed
  \/ Inspect \/ InvalidateTarget \/ RemoveChecksum \/ ClearData \/ FillData
  \/ WriteChecksum \/ ReplaceData \/ EraseTarget \/ WriteTarget \/ RecordTarget
  \/ NoLaunch \/ Launch
  \/ InvalidateLoader \/ EraseLoader \/ WriteLoader \/ RecordSource
  \/ RecordLoader \/ CopyDone
  \/ SelectNext
  \/ FinalRecord \/ FinalConfirm

Command ==
  \/ BeginStage \/ CancelStage \/ StartupAgain
  \/ RebootLoader \/ RebootUpgrade \/ RebootApp

Fault ==
  \/ Reset \/ Fail
  \/ ReceiveFails \/ CommitFails \/ RecoverFails \/ InspectFails \/ SelectFails
  \/ RebootFails

Next == Step \/ Command \/ Fault

Spec == Init /\ [][Next]_vars

\* Power comes back, and a call that has started returns.
Progress == Step \/ ReceiveFails \/ SelectFails \/ InspectFails

FairSpec == Spec /\ WF_vars(Progress)

-----------------------------------------------------------------------------
(* Properties.                                                             *)

\* The records are true at every point where a reset can come: a metadata
\* record names the image its partition holds, the Stage record names the
\* package in the file, and .checksum names the tree it lies in.  A tree that
\* a format 1 install left unfinished is the exception: that install leaves
\* the old .checksum in place while it clears the tree.
RecordsTrue ==
  /\ \A s \in Slots : meta[s].image # None => part[s] = meta[s].image
  /\ stage # None => file \in {stage, None}
  /\ installed # None => tree \in {installed, Unfinished}

\* The partition that the ROM would start after a reset is never written, and
\* only a whole image is ever chosen: install, copy, confirmation, rollback
\* and reboot implement BootContract.  A reboot call that fails leaves its
\* selection behind; then the partition it selected may be written, but the
\* other one is whole and takes its place.
Undone == run # 0 /\ pc # "reset" /\ next # run
Contract == INSTANCE BootContract
            WITH chosen <- Chosen(next, GivenUp(ota)), undone <- Undone
ContractSpec == Contract!Spec

\* AUTO never launches the candidate that the ROM gave up until a Stage with
\* another image was published or a command started the candidate again (the
\* comment in detect_rolled_back_app).
NotRelaunched ==
  [][pc = "launch" /\ pc' = "select" => part[2] # rejected]_vars

\* The source of an update is kept until the update is in place.  Unless a
\* command or a read error takes it, the Stage goes only when its image is in
\* Partition 2 and the running image is confirmed.  An App package also has
\* its data in place, a Loader package its image in Partition 1.  Two trees
\* are excepted: one that a later, interrupted data-only install replaced
\* (doubt), and one that an interrupted format 1 install left with the
\* .checksum of the old data, by which the next plan skips it (Unfinished).
InPlace ==
  /\ part[2] = ImageOf[stage]
  /\ ota[run] \notin {"new", "pending"}
  /\ IF ImageOf[stage] \in LoaderImages THEN part[1] = ImageOf[stage]
     ELSE run = 2 /\ (tree \in {DataOf[stage], Unfinished} \/ doubt)

StageKept ==
  [][stage # None /\ file = stage /\ <<stage, file>>' # <<stage, file>>
       => pc \in {"idle", "inspect"} \/ InPlace]_vars

\* Left alone, the device comes to rest: once no command comes and no reset
\* but one that ends the trial of a candidate in Partition 2, it stops
\* rebooting and reinstalling, even if every trial ends that way.
Undisturbed ==
  /\ pc # "idle"
  /\ pc' = "off" /\ pc # "reset" => run = 2 /\ ota[2] = "pending"

Settles == <>[][Undisturbed]_vars => <>[](pc = "idle")

=============================================================================
