--------------------------- MODULE LoaderBootInv ---------------------------
(***************************************************************************)
(* The inductive invariant of LoaderBoot, by subject.                      *)
(***************************************************************************)
EXTENDS LoaderBoot

Staging    == {"begin_tmp", "begin_file", "open", "receive", "commit"}
Recovering == {"recover", "recover_file", "recover_stage"}
Replacing  == {"data", "clear", "fill", "checksum"}
Installing == {"inspect", "invalidate", "erase", "write", "record"} \cup Replacing
Copying    == {"copy", "copy_erase", "copy_write", "copy_source", "copy_record",
               "copied"}
Rebooting  == {"select", "reset"}
Finalizing == {"final", "final_drop", "final_keep"}
Booting    == Recovering \cup Copying \cup Finalizing \cup {"seed", "confirm"}
Labels     == Staging \cup Recovering \cup Installing \cup Copying
              \cup Rebooting \cup Finalizing
              \cup {"off", "idle", "drop_stage", "drop_file", "seed", "confirm",
                    "auto", "converge", "launch"}
OtaStates  == {"none", "new", "pending", "valid", "aborted"}
Trial      == {"new", "pending"}

TypeOK ==
  /\ part \in [Slots -> Images \cup {Torn}]
  /\ meta \in [Slots -> Records]
  /\ next \in Slots
  /\ ota \in [Slots -> OtaStates]
  /\ intent \in Intents
  /\ stage \in Packages \cup {None}
  /\ file \in Packages \cup {None}
  /\ tmp \in {None, Torn}
  /\ tree \in Trees \cup {Torn, Unfinished}
  /\ installed \in Trees \cup {None}
  /\ run \in {0, 1, 2}
  /\ pc \in Labels
  /\ pkg \in Packages \cup {None}
  /\ plan \in [app : BOOLEAN, data : BOOLEAN]
  /\ goal \in [slot : Slots, from : Slots]
  /\ session \in BOOLEAN /\ force \in BOOLEAN /\ cached \in Intents
  /\ rejected \in Images \cup {None}
  /\ doubt \in BOOLEAN

\* The Stage record stands only for a package that lies in the file, and not
\* while another one is being received.
StageInv ==
  /\ pc \in Staging => stage = None
  /\ pc \in {"receive", "commit"} => pkg \in Packages
  /\ pc = "commit" => file = pkg /\ tmp = None
  /\ stage # None => file \in {stage, None} /\ tmp = None
  /\ pc \in {"recover_file", "recover_stage"} => file = None \/ stage = None
  /\ pc = "drop_file" => stage = None
  /\ pc \in Installing \cup {"converge", "drop_stage", "final_drop"}
       => stage # None

\* Who runs where, and what the ROM would do after a reset.
Fallback(s) == IF GivenUp(ota)[Other(s)] # "aborted" THEN Other(s) ELSE 1

RunInv ==
  /\ run = 0 <=> pc = "off"
  /\ run # 0 => part[run] # Torn
  /\ part[1] \in LoaderImages \cup {Torn}
  /\ pc \in Recovering \cup Copying \cup {"seed", "confirm"}
       => part[run] \in LoaderImages
  /\ pc \in Copying => run = 2 /\ ota[2] \notin Trial
  /\ pc \in Installing \cup {"auto", "converge", "launch"}
       => run = 1 /\ ota[1] \notin Trial
  /\ pc \in Finalizing => run = 2 /\ part[2] \notin LoaderImages

RomInv ==
  /\ run # 0 /\ next # run => ota[next] = "new"
  /\ pc \in Rebooting /\ goal.from # run => ota[goal.from] = "new"
  /\ pc \in Booting /\ run = 2 => next = 2
  /\ \A s \in Slots : ota[s] = "new" => run # s /\ next = s
  /\ \A s \in Slots : ota[s] = "pending" => run = s \/ run = 0
  /\ run # 0 /\ ota[run] = "aborted" => run = 1 /\ ota[2] \in {"new", "aborted"}
  /\ part[Chosen(next, GivenUp(ota))] # Torn
  /\ \A s \in Slots : ota[s] = "new" => part[Fallback(s)] # Torn

\* The record of a partition is withdrawn while the partition is written.
MetaInv ==
  /\ \A s \in Slots :
       /\ meta[s].image # None => part[s] = meta[s].image
       /\ meta[s].package # None => meta[s].image = ImageOf[meta[s].package]
  /\ pc = "invalidate" => plan.app
  /\ pc \in {"erase", "write"} => plan.app /\ meta[2].image = None
  /\ pc \in Replacing =>
       IF plan.app THEN meta[2].image = None ELSE part[2] = ImageOf[stage]
  /\ pc = "checksum" /\ ~Segmented => part[2] = ImageOf[stage]
  /\ pc = "record" => part[2] = ImageOf[stage]
  /\ pc \in {"copy_erase", "copy_write", "copy_source", "copy_record"}
       => meta[1].image = None
  /\ pc \in {"copy_source", "copy_record"} => part[1] = part[2]
  /\ pc = "converge" => Converged

\* What .checksum says of the tree, and what the record of an App says of it.
DataInv ==
  /\ installed # None => tree \in {installed, Unfinished}
  /\ pc \in Replacing => plan.data
  /\ pc \in {"clear", "fill"} => installed = None /\ Segmented
  /\ pc = "checksum" /\ Segmented => tree = DataOf[stage]
  /\ pc \in {"clear", "fill", "checksum"} => plan.app \/ doubt
  /\ pc \in Installing /\ ImageOf[stage] \notin LoaderImages =>
       /\ pc \in {"invalidate", "erase", "write"} /\ ~plan.data
            => installed = DataOf[stage]
       /\ pc \in {"erase", "write"} /\ Segmented => installed = DataOf[stage]
       /\ pc = "record" => installed = DataOf[stage]
  /\ meta[2].package # None /\ meta[2].image \notin LoaderImages
       => tree \in {DataOf[meta[2].package], Unfinished} \/ doubt

\* What stands when the source of an update is dropped.
DropInv ==
  /\ pc = "final_drop" => StageInstalled /\ meta[2].image = part[2]
  /\ pc = "drop_stage" => InPlace

\* A candidate that the ROM gave up keeps its record, so that startup sees it.
RejectInv ==
  /\ rejected # None =>
       /\ part[2] = rejected /\ meta[2].image = rejected
       /\ stage # None => ImageOf[stage] = rejected
       /\ ota[2] = "aborted"
  /\ pc \in Installing \cup {"launch"} => rejected = None

IInv ==
  /\ TypeOK /\ StageInv /\ RunInv /\ RomInv /\ MetaInv /\ DataInv /\ DropInv
  /\ RejectInv

=============================================================================
