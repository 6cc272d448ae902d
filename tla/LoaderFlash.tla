---------------------------- MODULE LoaderFlash ----------------------------
(***************************************************************************)
(* What H2Loader keeps in flash, the boot ROM that reads it, and the power *)
(* provider that tells the ROM what to start.                              *)
(*                                                                         *)
(* Partition 1 holds the Loader, Partition 2 an App or a Loader candidate. *)
(* The variables up to installed survive a reset.  One action of the       *)
(* modules above this one is one durable write, so that a reset can come   *)
(* between any two of them.                                                *)
(*                                                                         *)
(* A package is opaque: ImageOf, DataOf and FormatOf are its manifest.  A  *)
(* metadata record is its valid image and the package the image came from; *)
(* a missing record and a record that says invalid are read alike.  The    *)
(* copies of the records in loader->status are not variables: a write of a *)
(* record updates its copy, and startup reads them all again.              *)
(***************************************************************************)
EXTENDS Naturals

CONSTANTS Images,        \* firmware images, by checksum
          LoaderImages,  \* the ones whose role is H2LOADER
          SessionImages, \* the Loaders built with a factory session: their
                         \* main sets config->before_startup
          Trees,         \* data trees, by checksum
          Packages,      \* packages, by checksum
          ImageOf, DataOf, FormatOf,
          Factory,       \* the Loader image the device left the factory with
          None,          \* no record, no file
          Torn,          \* neither the old nor the new content
          Unfinished     \* a tree that a format 1 install has not finished

ASSUME PackagesAssumption ==
  /\ LoaderImages \subseteq Images /\ Factory \in LoaderImages
  /\ SessionImages \subseteq LoaderImages
  /\ ImageOf \in [Packages -> Images]
  /\ DataOf \in [Packages -> Trees]
  /\ FormatOf \in [Packages -> {1, 2}]

ASSUME MarkersAssumption ==
  /\ {None, Torn, Unfinished} \cap (Images \cup Trees \cup Packages) = {}
  /\ None # Torn /\ None # Unfinished /\ Torn # Unfinished

VARIABLES
  part,       \* part[s]: the image in partition s, or Torn
  meta,       \* meta[s]: the metadata record of partition s
  next,       \* the partition the ROM starts next
  ota,        \* ota[s]: what the ROM knows about the image of partition s
  intent,     \* the boot_intent preference
  stage,      \* the Stage record: a package, or None
  file,       \* the package file
  tmp,        \* the temporary file a package is received in: None, or Torn
              \* whatever it holds
  tree,       \* the data tree
  installed,  \* /data/.checksum: the tree it names, or None
  run,        \* the running partition, 0 when the device is off
  pc,         \* the step the running image is at
  pkg,        \* the package that is being received
  plan,       \* what the running install replaces
  goal,       \* where the running reboot leads
  session,    \* a factory session, whose end runs startup again
  force,      \* loader->force_command_mode, for the startup that runs
  cached,     \* loader->status.boot_intent: the intent that startup has read
  rejected,   \* history: the candidate the ROM gave up, until another Stage is
              \* published or a command starts it again
  doubt       \* history: a data-only install that meta[2] does not tell of

slots  == <<part, meta>>
boot   == <<next, ota, intent, rejected>>
staged == <<stage, file, tmp>>
data   == <<tree, installed, doubt>>
work   == <<pkg, plan, goal>>
mode   == <<session, force, cached>>
vars   == <<part, meta, next, ota, intent, stage, file, tmp, tree, installed,
            run, pc, pkg, plan, goal, session, force, cached, rejected,
            doubt>>

Slots    == {1, 2}
Other(s) == 3 - s
Intents  == {"AUTO", "LOADER"}
Invalid  == [image |-> None, package |-> None]
Record(i, p) == [image |-> i, package |-> p]
Records  == [image : Images \cup {None}, package : Packages \cup {None}]
NoPlan   == [app |-> FALSE, data |-> FALSE]
NoGoal   == [slot |-> 1, from |-> 1]

\* h2_loader_metadata_from_stage, and h2_loader_metadata_image_equal for two
\* records and for the Stage record and another one.
FromStage == Record(ImageOf[stage], stage)
SameImage(a, b) == a.image # None /\ a.image = b.image
StageIs(r) == stage # None /\ ImageOf[stage] = r.image

Goto(label) == pc' = label
Finish == pc' = "idle" /\ pkg' = None /\ plan' = NoPlan /\ goal' = NoGoal

-----------------------------------------------------------------------------
(* The power provider and the ROM.                                         *)

\* Selecting the running partition leaves its state alone; another one must
\* hold an image the ROM accepts, and starts on trial.
SetNext(s) ==
  IF s = run THEN UNCHANGED <<next, ota>>
  ELSE part[s] # Torn /\ next' = s /\ ota' = [ota EXCEPT ![s] = "new"]

\* A trial that a reset ended before it was confirmed is given up, and so is
\* one whose image the ROM cannot verify.
GivenUp(o) ==
  [s \in Slots |-> IF o[s] = "pending" \/ (o[s] = "new" /\ part[s] = Torn)
                   THEN "aborted" ELSE o[s]]

\* The selected partition, or the other one when that was given up.
Chosen(n, o) == IF o[n] # "aborted" THEN n
                ELSE IF o[Other(n)] # "aborted" THEN Other(n) ELSE 1

PowerOn ==
  /\ run = 0
  /\ LET o == GivenUp(ota)
         s == Chosen(next, o)
     IN /\ part[s] # Torn
        /\ run' = s /\ next' = s
        /\ ota' = [o EXCEPT ![s] = IF @ = "new" THEN "pending" ELSE @]
        /\ rejected' = IF /\ o[2] # ota[2] /\ meta[2].image = part[2]
                          /\ stage = None \/ ImageOf[stage] = part[2]
                       THEN part[2] ELSE rejected
        /\ session' = (s = 1 /\ part[s] \in SessionImages)
        /\ force' = session' /\ cached' = intent
        /\ Goto(IF part[s] \in LoaderImages THEN "recover" ELSE "final")
  /\ UNCHANGED <<slots, intent, staged, data, work>>

Off ==
  /\ run' = 0 /\ session' = FALSE /\ force' = FALSE /\ cached' = "LOADER"
  /\ pc' = "off" /\ pkg' = None /\ plan' = NoPlan /\ goal' = NoGoal
  /\ UNCHANGED <<slots, boot, staged, data>>

\* Power loss, watchdog or a crash of the running image.
Reset == run # 0 /\ Off

\* esp_ota_mark_app_valid_cancel_rollback for an image that is on trial
ConfirmRunning ==
  ota' = [ota EXCEPT ![run] = IF @ \in {"new", "pending"} THEN "valid" ELSE @]

\* h2_pal_power_list_boot_partitions reports an error while the ROM has no
\* state for one of the partitions.
Listed   == \A s \in Slots : ota[s] # "none"
Bootable == ota[2] # "aborted"

=============================================================================
