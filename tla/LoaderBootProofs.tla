-------------------------- MODULE LoaderBootProofs --------------------------
(***************************************************************************)
(* The proof that LoaderBootInv!IInv is an invariant of H2Loader for any   *)
(* images, trees and packages: types, the Stage record, who runs where,    *)
(* what the ROM would start, the records, the data tree, the source of an  *)
(* update and the rejected candidate.  Every lemma has one step per        *)
(* action.  Then what H2Loader promises: the properties of LoaderBoot that *)
(* follow from the invariant.                                              *)
(***************************************************************************)
EXTENDS LoaderBootInv, TLAPS

\* The steps that start a reboot.
Rebooted == Launch \/ CopyDone \/ RebootLoader \/ RebootUpgrade \/ RebootApp

\* Every variable has its type at power on in the factory state.
LEMMA TypeInit == Init => TypeOK
<1> SUFFICES ASSUME Init PROVE TypeOK
  BY Zenon
<1>1. /\ part \in [Slots -> Images \cup {Torn}]
      /\ meta \in [Slots -> Records]
      /\ ota \in [Slots -> OtaStates]
  BY PackagesAssumption, Zenon DEF Init, Slots, Records, Invalid, OtaStates
<1>2. /\ plan \in [app : BOOLEAN, data : BOOLEAN]
      /\ goal \in [slot : Slots, from : Slots]
      /\ next \in Slots /\ intent \in Intents /\ cached \in Intents
  BY Zenon DEF Init, NoPlan, NoGoal, Slots, Intents
<1>3. pc \in Labels
  BY Zenon DEF Init, Labels
<1>4. QED
  BY <1>1, <1>2, <1>3, Zenon DEF Init, TypeOK

\* Every label is one.
LEMMA AllLabels ==
  {"off", "idle", "begin_tmp", "begin_file", "open", "receive",
   "commit", "drop_stage", "drop_file", "recover",
   "recover_file", "recover_stage", "seed", "confirm", "auto",
   "converge", "launch", "inspect", "invalidate", "data", "clear",
   "fill", "checksum", "erase", "write", "record", "copy",
   "copy_erase", "copy_write", "copy_source", "copy_record", "copied",
   "select", "reset", "final", "final_drop", "final_keep"}
  \subseteq Labels
BY Zenon DEF Labels, Staging, Recovering, Installing, Replacing, Copying, Rebooting,
       Finalizing

\* Every step keeps every variable in its type.
LEMMA TypeStep ==
  TypeOK /\ StageInv /\ RunInv /\ RejectInv /\ [Next]_vars => TypeOK'
<1> SUFFICES ASSUME TypeOK, StageInv, RunInv, RejectInv, [Next]_vars
             PROVE  TypeOK'
  BY Zenon
<1> USE PackagesAssumption, MarkersAssumption, AllLabels DEF slots, boot,
        staged, data, work, mode, Goto
<1>1. CASE PowerOn
  <2> DEFINE o == GivenUp(ota)
             s == Chosen(next, o)
  <2>1. s \in Slots
    BY DEF TypeOK, Slots, Chosen, Other
  <2>2. o \in [Slots -> OtaStates]
    BY Zenon DEF TypeOK, GivenUp, OtaStates
  <2> HIDE DEF o, s
  <2>3. ota' \in [Slots -> OtaStates] /\ next' \in Slots /\ run' \in {0, 1, 2}
    BY <1>1, <2>1, <2>2, Zenon DEF PowerOn, OtaStates, Slots, o, s
  <2>4. rejected' \in Images \cup {None}
    BY <1>1, Zenon DEF PowerOn, TypeOK, Records, Slots
  <2>5. pc' \in Labels /\ session' \in BOOLEAN /\ force' \in BOOLEAN
    BY <1>1, Zenon DEF PowerOn, TypeOK
  <2>6. QED
    BY <1>1, <2>3, <2>4, <2>5 DEF PowerOn, TypeOK
<1>2. CASE Off
  <2>1. /\ session' \in BOOLEAN /\ force' \in BOOLEAN /\ cached' \in Intents
        /\ plan' \in [app : BOOLEAN, data : BOOLEAN]
        /\ goal' \in [slot : Slots, from : Slots]
    BY <1>2, Zenon DEF Off, NoPlan, NoGoal, Slots, Intents
  <2>2. QED
    BY <1>2, <2>1 DEF Off, TypeOK
<1>3. CASE BeginStage
  BY <1>3 DEF BeginStage, StageInv, Installing, Replacing, Staging, TypeOK,
      Slots
<1>4. CASE BeginTemporary
  BY <1>4 DEF BeginTemporary, TypeOK, Slots
<1>5. CASE BeginPackage
  BY <1>5 DEF BeginPackage, TypeOK, Slots
<1>6. CASE \E p \in Packages : ReceiveOpen(p)
  BY <1>6 DEF ReceiveOpen, TypeOK, Slots
<1>7. CASE ReceiveFails
  BY <1>7 DEF ReceiveFails, Finish, NoPlan, NoGoal, Intents, TypeOK, Slots
<1>8. CASE Publish
  BY <1>8 DEF Publish, StageInv, Staging, TypeOK, Slots
<1>9. CASE CommitStage
  BY <1>9 DEF CommitStage, StageInv, Staging, Installing, Replacing, Finish,
      NoPlan, NoGoal, Intents, TypeOK, Slots
<1>10. CASE CommitFails
  BY <1>10 DEF CommitFails, Finish, NoPlan, NoGoal, Intents, TypeOK, Slots
<1>11. CASE CancelStage
  BY <1>11 DEF CancelStage, StageInv, Installing, Replacing, Staging, TypeOK,
      Slots
<1>12. CASE DropStage
  BY <1>12 DEF DropStage, StageInv, Installing, Replacing, Staging, TypeOK,
      Slots
<1>13. CASE DropFile
  BY <1>13 DEF DropFile, Finish, NoPlan, NoGoal, Intents, TypeOK, Slots
<1>14. CASE Recover
  BY <1>14 DEF Recover, Discard, TypeOK, Slots
<1>15. CASE RecoverFile
  BY <1>15 DEF RecoverFile, TypeOK, Slots
<1>16. CASE RecoverStage
  BY <1>16 DEF RecoverStage, StageInv, Installing, Replacing, Staging, TypeOK,
      Slots
<1>17. CASE RecoverFails
  <2>1. session' \in BOOLEAN /\ force' \in BOOLEAN
    BY <1>17, Zenon DEF RecoverFails
  <2>2. QED
    BY <1>17, <2>1 DEF RecoverFails, TypeOK
<1>18. CASE Seed
  BY <1>18 DEF Seed, Record, Records, RunInv, TypeOK, Slots
<1>19. CASE Confirm
  <2>1. force' \in BOOLEAN /\ pc' \in Labels
    BY <1>19, Zenon DEF Confirm
  <2>2. ota' \in [Slots -> OtaStates]
    BY <1>19, Zenon DEF Confirm, ConfirmRunning, OtaStates, TypeOK
  <2>3. QED
    BY <1>19, <2>1, <2>2 DEF Confirm, TypeOK
<1>20. CASE StartupAgain
  BY <1>20 DEF StartupAgain, TypeOK, Slots
<1>21. CASE Converge
  BY <1>21 DEF Converge, Converged, SameImage, StageIs, FromStage, Record,
      Records, StageInv, Installing, Replacing, TypeOK, Slots
<1>22. CASE ConvergeLoader
  BY <1>22 DEF ConvergeLoader, FromStage, Record, Records, StageInv,
      Installing, Replacing, TypeOK, Slots
<1>23. CASE StayInLoader
  BY <1>23 DEF StayInLoader, RolledBack, Candidate, Listed, Bootable, StageIs,
      Finish, NoPlan, NoGoal, Intents, TypeOK, Slots
<1>24. CASE Proceed
  BY <1>24 DEF Proceed, RolledBack, Candidate, Listed, Bootable, StageIs,
      TypeOK, Slots
<1>25. CASE NoLaunch
  BY <1>25 DEF NoLaunch, Launchable, Finish, NoPlan, NoGoal, Intents, TypeOK,
      Slots
<1>26. CASE Inspect
  BY <1>26 DEF Inspect, Plan, TypeOK, Slots
<1>27. CASE InspectFails
  BY <1>27 DEF InspectFails, StageInv, Installing, Replacing, Staging, Finish,
      NoPlan, NoGoal, Intents, TypeOK, Slots
<1>28. CASE InvalidateTarget
  BY <1>28 DEF InvalidateTarget, Invalid, Records, StageInv, Installing,
      Replacing, Staging, TypeOK, Slots
<1>29. CASE RemoveChecksum
  BY <1>29 DEF RemoveChecksum, Segmented, TypeOK, Slots
<1>30. CASE ClearData
  BY <1>30 DEF ClearData, TypeOK, Slots
<1>31. CASE FillData
  BY <1>31 DEF FillData, StageInv, Installing, Replacing, TypeOK, Slots
<1>32. CASE WriteChecksum
  BY <1>32 DEF WriteChecksum, Segmented, StageInv, Installing, Replacing,
      TypeOK, Slots
<1>33. CASE ReplaceData
  BY <1>33 DEF ReplaceData, Segmented, StageInv, Installing, Replacing,
      TypeOK, Slots
<1>34. CASE EraseTarget
  BY <1>34 DEF EraseTarget, StageInv, Installing, Replacing, Staging, TypeOK,
      Slots
<1>35. CASE WriteTarget
  BY <1>35 DEF WriteTarget, WriteSegments, WriteApp,
      Segmented, StageInv, Installing, Replacing,
      Staging, TypeOK, Slots
<1>36. CASE RecordTarget
  <2>1. stage \in Packages
    BY <1>36, Zenon DEF RecordTarget, StageInv, Installing, TypeOK
  <2>2. FromStage \in Records
    BY <2>1, Zenon DEF FromStage, Record, Records
  <2>3. doubt' \in BOOLEAN /\ plan' \in [app : BOOLEAN, data : BOOLEAN]
    BY <1>36, Zenon DEF RecordTarget, NoPlan
  <2>4. QED
    BY <1>36, <2>2, <2>3 DEF RecordTarget, TypeOK, Slots
<1>37. CASE InvalidateLoader
  BY <1>37 DEF InvalidateLoader, SetNext, Invalid, Records, OtaStates, TypeOK,
      Slots
<1>38. CASE EraseLoader
  BY <1>38 DEF EraseLoader, TypeOK, Slots
<1>39. CASE WriteLoader
  BY <1>39 DEF WriteLoader, TypeOK, Slots
<1>40. CASE RecordSource
  BY <1>40 DEF RecordSource, Copied, FromStage, Record, Records, RunInv,
      TypeOK, Slots
<1>41. CASE RecordLoader
  BY <1>41 DEF RecordLoader, Copied, FromStage, Record, Records, RunInv,
      TypeOK, Slots
<1>42. CASE Rebooted
  BY <1>42 DEF Rebooted, Launch, CopyDone, RebootLoader, RebootUpgrade,
      RebootApp, StartReboot, Launchable, Intents, TypeOK, Slots
<1>43. CASE SelectNext
  BY <1>43 DEF SelectNext, SetNext, OtaStates, TypeOK, Slots
<1>44. CASE SelectFails
  BY <1>44 DEF SelectFails, Finish, NoPlan, NoGoal, Intents, TypeOK, Slots
<1>45. CASE RebootFails
  BY <1>45 DEF RebootFails, SetNext, OtaStates, Finish, NoPlan, NoGoal,
      Intents, TypeOK, Slots
<1>46. CASE FinalRecord
  BY <1>46 DEF FinalRecord, Record, Records, StageInstalled, StageIs, RunInv,
      Finalizing, TypeOK, Slots
<1>47. CASE FinalConfirm
  BY <1>47 DEF FinalConfirm, ConfirmRunning, OtaStates, RunInv, TypeOK, Slots
<1>48. CASE Fail
  BY <1>48 DEF Fail, Finish, NoPlan, NoGoal, Intents, TypeOK, Slots
<1>49. CASE UNCHANGED vars
  BY <1>49 DEF vars, TypeOK
<1>50. QED
  BY <1>1, <1>2, <1>3, <1>4, <1>5, <1>6, <1>7, <1>8, <1>9, <1>10, <1>11,
      <1>12, <1>13, <1>14, <1>15, <1>16, <1>17, <1>18, <1>19, <1>20, <1>21,
      <1>22, <1>23, <1>24, <1>25, <1>26, <1>27, <1>28, <1>29, <1>30, <1>31,
      <1>32, <1>33, <1>34, <1>35, <1>36, <1>37, <1>38, <1>39, <1>40, <1>41,
      <1>42, <1>43, <1>44, <1>45, <1>46, <1>47, <1>48, <1>49, Zenon
     DEF Next, Step, Command, Fault, Reset, Restart, Rebooted

\* The Stage record stands only for the package in the file.
LEMMA StageStep ==
  TypeOK /\ StageInv /\ [Next]_vars => StageInv'
<1> SUFFICES ASSUME TypeOK, StageInv, [Next]_vars
             PROVE  StageInv'
  BY Zenon
<1> USE MarkersAssumption DEF slots, boot, staged, data, work, mode, Goto
<1>1. CASE PowerOn
  BY <1>1, Zenon DEF PowerOn, StageInv, TypeOK, Staging, Installing, Replacing
<1>2. CASE Off
  BY <1>2, Zenon DEF Off, StageInv, TypeOK, Staging, Installing, Replacing
<1>3. CASE BeginStage
  BY <1>3, Zenon DEF BeginStage, StageInv, Installing, Replacing, Staging, TypeOK
<1>4. CASE BeginTemporary \/ BeginPackage \/ (\E p \in Packages : ReceiveOpen(p))
  BY <1>4, Zenon DEF BeginTemporary, BeginPackage, ReceiveOpen, StageInv, TypeOK,
      Staging, Installing, Replacing
<1>5. CASE ReceiveFails
  BY <1>5, Zenon DEF ReceiveFails, Finish, StageInv, TypeOK, Staging, Installing,
      Replacing
<1>6. CASE Publish
  BY <1>6, Zenon DEF Publish, StageInv, Staging, TypeOK, Installing, Replacing
<1>7. CASE CommitStage
  BY <1>7, Zenon DEF CommitStage, StageInv, Staging, Installing, Replacing, Finish,
      TypeOK
<1>8. CASE CommitFails
  BY <1>8, Zenon DEF CommitFails, Finish, StageInv, TypeOK, Staging, Installing,
      Replacing
<1>9. CASE CancelStage
  BY <1>9, Zenon DEF CancelStage, StageInv, Installing, Replacing, Staging, TypeOK
<1>10. CASE DropStage
  BY <1>10, Zenon DEF DropStage, StageInv, Installing, Replacing, Staging, TypeOK
<1>11. CASE DropFile
  BY <1>11, Zenon DEF DropFile, Finish, StageInv, TypeOK, Staging, Installing,
      Replacing
<1>12. CASE Recover
  BY <1>12, Zenon DEF Recover, Discard, StageInv, TypeOK, Staging, Installing,
      Replacing
<1>13. CASE RecoverFile
  BY <1>13, Zenon DEF RecoverFile, StageInv, TypeOK, Staging, Installing, Replacing
<1>14. CASE RecoverStage
  BY <1>14, Zenon DEF RecoverStage, StageInv, Installing, Replacing, Staging, TypeOK
<1>15. CASE RecoverFails
  BY <1>15, Zenon DEF RecoverFails, StageInv, TypeOK, Staging, Installing, Replacing
<1>16. CASE Seed \/ Confirm \/ StartupAgain
  BY <1>16, Zenon DEF Seed, Confirm, StartupAgain, StageInv, TypeOK, Staging,
      Installing, Replacing
<1>17. CASE Converge
  BY <1>17, Zenon DEF Converge, Converged, StageIs, StageInv, Installing, Replacing,
      TypeOK, Staging
<1>18. CASE ConvergeLoader
  BY <1>18, Zenon DEF ConvergeLoader, StageInv, Installing, Replacing, TypeOK,
      Staging
<1>19. CASE StayInLoader
  BY <1>19, Zenon DEF StayInLoader, StageIs, Finish, StageInv, TypeOK, Staging,
      Installing, Replacing
<1>20. CASE Proceed
  BY <1>20, Zenon DEF Proceed, StageIs, StageInv, TypeOK, Staging, Installing,
      Replacing
<1>21. CASE NoLaunch
  BY <1>21, Zenon DEF NoLaunch, Finish, StageInv, TypeOK, Staging, Installing,
      Replacing
<1>22. CASE Inspect
  BY <1>22, Zenon DEF Inspect, StageInv, TypeOK, Staging, Installing, Replacing
<1>23. CASE InspectFails
  BY <1>23, Zenon DEF InspectFails, StageInv, Installing, Replacing, Staging, Finish,
      TypeOK
<1>24. CASE InvalidateTarget \/ EraseTarget \/ WriteTarget \/ RecordTarget
  BY <1>24, Zenon DEF InvalidateTarget, StageInv, Installing, Replacing, Staging,
      EraseTarget, WriteTarget, WriteSegments, WriteApp,
      Segmented, RecordTarget, TypeOK
<1>25. CASE RemoveChecksum \/ ClearData \/ FillData \/ WriteChecksum \/ ReplaceData
  BY <1>25, Zenon DEF RemoveChecksum, Segmented, ClearData, FillData, StageInv,
      Installing, Replacing, WriteChecksum, ReplaceData, TypeOK, Staging
<1>26. CASE InvalidateLoader \/ EraseLoader \/ WriteLoader \/ RecordSource \/
            RecordLoader
  BY <1>26, Zenon DEF InvalidateLoader, EraseLoader, WriteLoader, RecordSource,
      RecordLoader, StageInv, TypeOK, Staging, Installing, Replacing
<1>27. CASE Rebooted
  BY <1>27, Zenon DEF Rebooted, Launch, CopyDone, RebootLoader, RebootUpgrade,
      RebootApp, StartReboot, StageInv, TypeOK, Staging, Installing, Replacing
<1>28. CASE SelectNext \/ SelectFails \/ RebootFails
  BY <1>28, Zenon DEF SelectNext, SelectFails, Finish, RebootFails, StageInv, TypeOK,
      Staging, Installing, Replacing
<1>29. CASE FinalRecord
  BY <1>29, Zenon DEF FinalRecord, StageInstalled, StageIs, Finalizing, StageInv,
      TypeOK, Staging, Installing, Replacing
<1>30. CASE FinalConfirm
  BY <1>30, Zenon DEF FinalConfirm, StageInv, TypeOK, Staging, Installing, Replacing
<1>31. CASE Fail
  BY <1>31, Zenon DEF Fail, Finish, StageInv, TypeOK, Staging, Installing, Replacing
<1>32. CASE UNCHANGED vars
  BY <1>32, Zenon DEF vars, StageInv, Segmented
<1>33. QED
  BY <1>1, <1>2, <1>3, <1>4, <1>5, <1>6, <1>7, <1>8, <1>9, <1>10, <1>11,
      <1>12, <1>13, <1>14, <1>15, <1>16, <1>17, <1>18, <1>19, <1>20, <1>21,
      <1>22, <1>23, <1>24, <1>25, <1>26, <1>27, <1>28, <1>29, <1>30, <1>31,
      <1>32, Zenon
     DEF Next, Step, Command, Fault, Reset, Restart, Rebooted

\* Who runs where.
LEMMA RunStep ==
  TypeOK /\ RunInv /\ [Next]_vars => RunInv'
<1> SUFFICES ASSUME TypeOK, RunInv, [Next]_vars
             PROVE  RunInv'
  BY Zenon
<1> USE MarkersAssumption DEF slots, boot, staged, data, work, mode, Goto
<1>1. CASE PowerOn
  BY <1>1 DEF PowerOn, Chosen, Other, RunInv, TypeOK, Slots, Recovering,
      Copying, Installing, Replacing, Finalizing, Trial
<1>2. CASE Off
  BY <1>2, Zenon DEF Off, RunInv, TypeOK, Slots, Recovering, Copying, Installing,
      Replacing, Finalizing, Trial
<1>3. CASE BeginStage \/ CancelStage
  BY <1>3, Zenon DEF BeginStage, Installing, Replacing, Staging, CancelStage, RunInv,
      TypeOK, Slots, Recovering, Copying, Finalizing, Trial
<1>4. CASE BeginTemporary \/ BeginPackage \/ (\E p \in Packages : ReceiveOpen(p)) \/
            Publish
  BY <1>4, Zenon DEF BeginTemporary, BeginPackage, ReceiveOpen, Publish, Staging,
      RunInv, TypeOK, Slots, Recovering, Copying, Installing, Replacing,
      Finalizing, Trial
<1>5. CASE ReceiveFails \/ CommitStage \/ CommitFails \/ DropFile \/ InspectFails \/
            StayInLoader \/ NoLaunch \/ SelectFails \/ RebootFails \/ Fail
  BY <1>5, Zenon DEF ReceiveFails, Finish, CommitStage, Staging, Installing,
      Replacing, CommitFails, DropFile, InspectFails, StayInLoader, NoLaunch,
      SelectFails, RebootFails, SetNext, Fail, RunInv, TypeOK, Slots,
      Recovering, Copying, Finalizing, Trial
<1>6. CASE DropStage
  BY <1>6, Zenon DEF DropStage, Installing, Replacing, Staging, RunInv, TypeOK,
      Slots, Recovering, Copying, Finalizing, Trial
<1>7. CASE Recover \/ RecoverFile \/ RecoverStage \/ RecoverFails
  BY <1>7, Zenon DEF Recover, RecoverFile, RecoverStage, Installing, Replacing,
      Staging, RecoverFails, RunInv, TypeOK, Slots, Recovering, Copying,
      Finalizing, Trial
<1>8. CASE Seed
  BY <1>8, Zenon DEF Seed, RunInv, TypeOK, Slots, Recovering, Copying, Installing,
      Replacing, Finalizing, Trial
<1>9. CASE Confirm
  BY <1>9, Zenon DEF Confirm, ConfirmRunning, RunInv, TypeOK, Slots, Recovering,
      Copying, Installing, Replacing, Finalizing, Trial
<1>10. CASE StartupAgain
  BY <1>10, Zenon DEF StartupAgain, RunInv, TypeOK, Slots, Recovering, Copying,
      Installing, Replacing, Finalizing, Trial
<1>11. CASE Converge
  BY <1>11, Zenon DEF Converge, Installing, Replacing, RunInv, TypeOK, Slots,
      Recovering, Copying, Finalizing, Trial
<1>12. CASE ConvergeLoader
  BY <1>12, Zenon DEF ConvergeLoader, Installing, Replacing, RunInv, TypeOK, Slots,
      Recovering, Copying, Finalizing, Trial
<1>13. CASE Proceed
  BY <1>13, Zenon DEF Proceed, RunInv, TypeOK, Slots, Recovering, Copying,
      Installing, Replacing, Finalizing, Trial
<1>14. CASE Inspect
  BY <1>14, Zenon DEF Inspect, RunInv, TypeOK, Slots, Recovering, Copying,
      Installing, Replacing, Finalizing, Trial
<1>15. CASE InvalidateTarget
  BY <1>15, Zenon DEF InvalidateTarget, Installing, Replacing, Staging, RunInv,
      TypeOK, Slots, Recovering, Copying, Finalizing, Trial
<1>16. CASE RemoveChecksum
  BY <1>16, Zenon DEF RemoveChecksum, RunInv, TypeOK, Slots, Recovering, Copying,
      Installing, Replacing, Finalizing, Trial
<1>17. CASE ClearData
  BY <1>17, Zenon DEF ClearData, RunInv, TypeOK, Slots, Recovering, Copying,
      Installing, Replacing, Finalizing, Trial
<1>18. CASE FillData
  BY <1>18, Zenon DEF FillData, Installing, Replacing, RunInv, TypeOK, Slots,
      Recovering, Copying, Finalizing, Trial
<1>19. CASE WriteChecksum
  BY <1>19, Zenon DEF WriteChecksum, Installing, Replacing, RunInv, TypeOK, Slots,
      Recovering, Copying, Finalizing, Trial
<1>20. CASE ReplaceData
  BY <1>20, Zenon DEF ReplaceData, Installing, Replacing, RunInv, TypeOK, Slots,
      Recovering, Copying, Finalizing, Trial
<1>21. CASE EraseTarget
  BY <1>21 DEF EraseTarget, Installing, Replacing, Staging, RunInv, TypeOK,
      Slots, Recovering, Copying, Finalizing, Trial
<1>22. CASE WriteTarget
  BY <1>22 DEF WriteTarget, WriteSegments, WriteApp,
      Installing, Replacing, Staging, RunInv, TypeOK,
      Slots, Recovering, Copying, Finalizing, Trial
<1>23. CASE RecordTarget
  BY <1>23, Zenon DEF RecordTarget, Installing, Replacing, Staging, RunInv, TypeOK,
      Slots, Recovering, Copying, Finalizing, Trial
<1>24. CASE InvalidateLoader
  BY <1>24, Zenon DEF InvalidateLoader, SetNext, RunInv, TypeOK, Slots, Recovering,
      Copying, Installing, Replacing, Finalizing, Trial
<1>25. CASE EraseLoader
  BY <1>25 DEF EraseLoader, RunInv, TypeOK, Slots, Recovering, Copying,
      Installing, Replacing, Finalizing, Trial
<1>26. CASE WriteLoader
  BY <1>26, Zenon DEF WriteLoader, RunInv, TypeOK, Slots, Recovering, Copying,
      Installing, Replacing, Finalizing, Trial
<1>27. CASE RecordSource
  BY <1>27, Zenon DEF RecordSource, RunInv, TypeOK, Slots, Recovering, Copying,
      Installing, Replacing, Finalizing, Trial
<1>28. CASE RecordLoader
  BY <1>28, Zenon DEF RecordLoader, RunInv, TypeOK, Slots, Recovering, Copying,
      Installing, Replacing, Finalizing, Trial
<1>29. CASE Rebooted
  BY <1>29, Zenon DEF Rebooted, Launch, CopyDone, RebootLoader, RebootUpgrade,
      RebootApp, StartReboot, RunInv, TypeOK, Slots, Recovering, Copying,
      Installing, Replacing, Finalizing, Trial
<1>30. CASE SelectNext
  BY <1>30, Zenon DEF SelectNext, SetNext, RunInv, TypeOK, Slots, Recovering,
      Copying, Installing, Replacing, Finalizing, Trial
<1>31. CASE FinalRecord
  BY <1>31, Zenon DEF FinalRecord, RunInv, Finalizing, TypeOK, Slots, Recovering,
      Copying, Installing, Replacing, Trial
<1>32. CASE FinalConfirm
  BY <1>32, Zenon DEF FinalConfirm, ConfirmRunning, RunInv, TypeOK, Slots,
      Recovering, Copying, Installing, Replacing, Finalizing, Trial
<1>33. CASE UNCHANGED vars
  BY <1>33, Zenon DEF vars, RunInv
<1>34. QED
  BY <1>1, <1>2, <1>3, <1>4, <1>5, <1>6, <1>7, <1>8, <1>9, <1>10, <1>11,
      <1>12, <1>13, <1>14, <1>15, <1>16, <1>17, <1>18, <1>19, <1>20, <1>21,
      <1>22, <1>23, <1>24, <1>25, <1>26, <1>27, <1>28, <1>29, <1>30, <1>31,
      <1>32, <1>33, Zenon
     DEF Next, Step, Command, Fault, Reset, Restart, Rebooted

\* When the running image is whole and not on trial, it is what the ROM falls
\* back to, and what it starts unless another image has been selected.
LEMMA RunningWhole ==
  ASSUME run' \in Slots, next' \in Slots, part'[run'] # Torn,
         ota'[run'] \notin Trial, run' = 2 => next' = 2,
         next' # run' => ota'[next'] = "new",
         \A s \in Slots : ota'[s] = "new" => next' = s,
         ota'[run'] = "aborted" => run' = 1 /\ ota'[2] \in {"new", "aborted"}
  PROVE  /\ part'[Chosen(next, GivenUp(ota))'] # Torn
         /\ \A s \in Slots : ota'[s] = "new" => part'[Fallback(s)'] # Torn
<1>0. /\ GivenUp(ota)'[1] = IF \/ ota'[1] = "pending"
                               \/ ota'[1] = "new" /\ part'[1] = Torn
                            THEN "aborted" ELSE ota'[1]
      /\ GivenUp(ota)'[2] = IF \/ ota'[2] = "pending"
                               \/ ota'[2] = "new" /\ part'[2] = Torn
                            THEN "aborted" ELSE ota'[2]
  BY Zenon DEF GivenUp, Slots
<1>1. CASE run' = 2
  BY <1>0, <1>1 DEF Chosen, Slots, Trial
<1>2. CASE run' = 1 /\ next' = 1
  BY <1>0, <1>2 DEF Chosen, Other, Slots, Trial
<1>3. CASE run' = 1 /\ next' = 2
  <2>1. part'[Chosen(next, GivenUp(ota))'] # Torn
    BY <1>0, <1>3 DEF Chosen, Other, Slots, Trial
  <2>2. Fallback(2)' = 1
    BY DEF Fallback, Other
  <2>3. QED
    BY <1>3, <2>1, <2>2, Zenon DEF Slots
<1>4. QED
  BY <1>1, <1>2, <1>3, Zenon DEF Slots

\* A step that leaves the partitions and the ROM alone, and does not enter the
\* boot of a candidate, keeps what the ROM would start.
LEMMA RomFrame ==
  ASSUME RomInv, UNCHANGED <<part, next, ota, run>>, pc' \notin Rebooting,
         pc' \in Booting => pc \in Booting \/ run = 1
  PROVE  RomInv'
<1>1. UNCHANGED GivenUp(ota)
  BY Zenon DEF GivenUp
<1>2. UNCHANGED Chosen(next, GivenUp(ota))
  BY <1>1, Zenon DEF Chosen
<1>3. \A s : UNCHANGED Fallback(s)
  BY <1>1, Zenon DEF Fallback
<1>4. QED
  BY <1>2, <1>3 DEF RomInv

\* What the ROM would start after a reset is whole.
LEMMA RomStep ==
  TypeOK /\ RunInv /\ RomInv /\ [Next]_vars => RomInv'
<1> SUFFICES ASSUME TypeOK, RunInv, RomInv, [Next]_vars
             PROVE  RomInv'
  BY Zenon
<1> USE MarkersAssumption DEF slots, boot, staged, data, work, mode, Goto
<1>1. CASE PowerOn
  <2>0. PICK o : o = GivenUp(ota)
    BY Zenon
  <2>1. PICK s \in Slots : s = Chosen(next, o)
    BY DEF TypeOK, Slots, Chosen, Other
  <2>2. PICK t \in Slots : t = Other(s) /\ t # s /\ Other(t) = s
    BY <2>1 DEF Slots, Other
  <2>3. /\ o \in [Slots -> OtaStates]
        /\ \A x \in Slots : o[x] # "pending"
        /\ \A x \in Slots : o[x] = "new" => ota[x] = "new"
    BY <2>0, Zenon DEF TypeOK, GivenUp, OtaStates
  <2>4. \A x \in Slots : x = s \/ x = t
    BY <2>1, <2>2, Zenon DEF Slots
  <2>5. \A x \in Slots : o[x] = "new" => x = s
    BY <2>1, <2>3, Zenon DEF RomInv, Chosen
  <2>6. o[s] = "aborted" => s = 1 /\ o[2] = "aborted"
    BY <2>1 DEF Chosen, Other, TypeOK, Slots
  <2>7. /\ run' = s /\ next' = s /\ part' = part /\ part[s] # Torn
        /\ pc' \notin Rebooting
        /\ ota' = [o EXCEPT ![s] = IF o[s] = "new" THEN "pending" ELSE o[s]]
    BY <1>1, <2>0, <2>1, Zenon DEF PowerOn, Rebooting
  <2>8. Fallback(s) = IF o[t] # "aborted" THEN t ELSE 1
    BY <2>0, <2>2, Zenon DEF Fallback
  <2>9. \A x \in Slots : ota'[x] = IF x = s /\ o[s] = "new" THEN "pending" ELSE o[x]
    BY <2>1, <2>3, <2>7, Zenon
  <2>10. \A x \in Slots : ota'[x] # "new" /\ (ota'[x] = "pending" => x = s)
    BY <2>3, <2>5, <2>9, Zenon
  <2>11. \A x \in Slots : GivenUp(ota)'[x] =
                            IF x = s /\ o[s] = "new" THEN "aborted" ELSE o[x]
    BY <2>3, <2>9, <2>10, Zenon DEF GivenUp
  <2>12. part[Chosen(next, GivenUp(ota))'] # Torn
    <3>1. CASE o[s] = "new"
      <4>1. Chosen(next, GivenUp(ota))' = Fallback(s)
        BY <3>1, <2>2, <2>7, <2>8, <2>11, Zenon DEF Chosen
      <4>2. QED
        BY <4>1, <3>1, <2>3, Zenon DEF RomInv
    <3>2. CASE o[s] # "new"
      <4>1. Chosen(next, GivenUp(ota))' = s
        BY <3>2, <2>2, <2>6, <2>7, <2>11, Zenon DEF Chosen, Other, Slots
      <4>2. QED
        BY <4>1, <2>7, Zenon
    <3>3. QED
      BY <3>1, <3>2, Zenon
  <2>13. ota'[s] = "aborted" => s = 1 /\ ota'[2] = "aborted"
    BY <2>6, <2>9, Zenon DEF Slots
  <2>14. QED
    BY <2>7, <2>10, <2>12, <2>13, Zenon DEF RomInv
<1>2. CASE Off
  <2>1. UNCHANGED <<part, next, ota>> /\ run' = 0 /\ pc' = "off"
    BY <1>2, Zenon DEF Off
  <2>2. UNCHANGED GivenUp(ota)
    BY <2>1, Zenon DEF GivenUp
  <2>3. /\ UNCHANGED Chosen(next, GivenUp(ota))
        /\ \A s : UNCHANGED Fallback(s)
    BY <2>1, <2>2, Zenon DEF Chosen, Fallback
  <2>4. QED
    BY <2>1, <2>3 DEF RomInv, Slots, Rebooting
<1>3. CASE BeginStage \/ BeginTemporary \/ BeginPackage \/
            (\E p \in Packages : ReceiveOpen(p)) \/ ReceiveFails
  <2>1. /\ UNCHANGED <<part, next, ota, run>> /\ pc' \notin Rebooting
        /\ pc' \in Booting => pc \in Booting \/ run = 1
    BY <1>3, Zenon
    DEF BeginStage, BeginTemporary, BeginPackage, ReceiveOpen, ReceiveFails,
        Finish, Rebooting, Booting, Recovering, Copying, Finalizing
  <2>2. QED
    BY <2>1, RomFrame, Zenon
<1>4. CASE Publish \/ CommitStage \/ CommitFails \/ CancelStage \/ DropStage
  <2>1. /\ UNCHANGED <<part, next, ota, run>> /\ pc' \notin Rebooting
        /\ pc' \in Booting => pc \in Booting \/ run = 1
    BY <1>4, Zenon
    DEF Publish, CommitStage, Finish, CommitFails, CancelStage, DropStage,
        Rebooting, Booting, Recovering, Copying, Finalizing
  <2>2. QED
    BY <2>1, RomFrame, Zenon
<1>5. CASE DropFile \/ Recover \/ RecoverFile \/ RecoverStage \/ RecoverFails
  <2>1. /\ UNCHANGED <<part, next, ota, run>> /\ pc' \notin Rebooting
        /\ pc' \in Booting => pc \in Booting \/ run = 1
    BY <1>5, Zenon
    DEF DropFile, Finish, Recover, RecoverFile, RecoverStage, RecoverFails,
        Rebooting, Booting, Recovering, Copying, Finalizing
  <2>2. QED
    BY <2>1, RomFrame, Zenon
<1>6. CASE Seed \/ StartupAgain \/ Converge \/ ConvergeLoader \/ StayInLoader
  <2>1. /\ UNCHANGED <<part, next, ota, run>> /\ pc' \notin Rebooting
        /\ pc' \in Booting => pc \in Booting \/ run = 1
    BY <1>6, Zenon
    DEF Seed, StartupAgain, Converge, ConvergeLoader, StayInLoader, Finish,
        Rebooting, Booting, Recovering, Copying, Finalizing
  <2>2. QED
    BY <2>1, RomFrame, Zenon
<1>7. CASE Confirm
  <2>1. run \in Slots /\ part'[run] # Torn /\ (run = 2 => next = 2)
    BY <1>7, Zenon DEF Confirm, TypeOK, RunInv, RomInv, Booting, Finalizing, Slots
  <2>2. /\ ota'[run] \notin Trial
        /\ \A s \in Slots : s # run => ota'[s] = ota[s]
        /\ ota'[run] = "aborted" => ota[run] = "aborted"
    BY <1>7, <2>1, Zenon DEF Confirm, ConfirmRunning, Trial, TypeOK
  <2>3. UNCHANGED <<next, run>> /\ pc' \notin Rebooting
    BY <1>7, Zenon DEF Confirm, Rebooting
  <2>4. \A s \in Slots : ota'[s] = "new" => ota[s] = "new" /\ run # s /\ next = s
    BY <2>2, Zenon DEF RomInv, Trial
  <2>5. next # run => ota'[next] = "new"
    BY <2>1, <2>2, Zenon DEF RomInv, TypeOK, Slots
  <2>6. ota'[run] = "aborted" => run = 1 /\ ota'[2] \in {"new", "aborted"}
    <3>1. ota'[run] = "aborted" => run = 1 /\ ota[2] \in {"new", "aborted"}
      BY <2>1, <2>2 DEF RomInv, Slots
    <3>2. run = 1 => ota'[2] = ota[2]
      BY <2>2 DEF Slots
    <3>3. QED
      BY <3>1, <3>2, Zenon
  <2>7. \A s \in Slots : ota'[s] = "pending" => run = s
    BY <2>1, <2>2 DEF RomInv, Slots
  <2>8. /\ part'[Chosen(next, GivenUp(ota))'] # Torn
        /\ \A s \in Slots : ota'[s] = "new" => part'[Fallback(s)'] # Torn
    BY <2>1, <2>2, <2>3, <2>4, <2>5, <2>6, RunningWhole, Zenon DEF TypeOK
  <2>9. QED
    BY <2>1, <2>3, <2>4, <2>5, <2>6, <2>7, <2>8, Zenon DEF RomInv, Slots
<1>8. CASE Proceed \/ NoLaunch \/ Inspect \/ InspectFails \/ InvalidateTarget
  <2>1. /\ UNCHANGED <<part, next, ota, run>> /\ pc' \notin Rebooting
        /\ pc' \in Booting => pc \in Booting \/ run = 1
    BY <1>8, Zenon
    DEF Proceed, NoLaunch, Finish, Inspect, InspectFails, InvalidateTarget,
        Rebooting, Booting, Recovering, Copying, Finalizing
  <2>2. QED
    BY <2>1, RomFrame, Zenon
<1>9. CASE RemoveChecksum \/ ClearData \/ FillData \/ WriteChecksum \/ ReplaceData
  <2>1. /\ UNCHANGED <<part, next, ota, run>> /\ pc' \notin Rebooting
        /\ pc' \in Booting => pc \in Booting \/ run = 1
    BY <1>9, Zenon
    DEF RemoveChecksum, ClearData, FillData, WriteChecksum, ReplaceData,
        Rebooting, Booting, Recovering, Copying, Finalizing
  <2>2. QED
    BY <2>1, RomFrame, Zenon
<1>10. CASE EraseTarget
  <2>1. run \in Slots /\ part'[run] # Torn /\ (run = 2 => next = 2)
    BY <1>10 DEF EraseTarget, TypeOK, RunInv, RomInv, Booting, Installing, Slots
  <2>2. /\ ota'[run] \notin Trial
        /\ \A s \in Slots : s # run => ota'[s] = ota[s]
        /\ ota'[run] = "aborted" => ota[run] = "aborted"
    BY <1>10, Zenon DEF EraseTarget, RunInv, Installing
  <2>3. UNCHANGED <<next, run>> /\ pc' \notin Rebooting
    BY <1>10, Zenon DEF EraseTarget, Rebooting
  <2>4. \A s \in Slots : ota'[s] = "new" => ota[s] = "new" /\ run # s /\ next = s
    BY <2>2, Zenon DEF RomInv, Trial
  <2>5. next # run => ota'[next] = "new"
    BY <2>1, <2>2, Zenon DEF RomInv, TypeOK, Slots
  <2>6. ota'[run] = "aborted" => run = 1 /\ ota'[2] \in {"new", "aborted"}
    <3>1. ota'[run] = "aborted" => run = 1 /\ ota[2] \in {"new", "aborted"}
      BY <2>1, <2>2 DEF RomInv, Slots
    <3>2. run = 1 => ota'[2] = ota[2]
      BY <2>2 DEF Slots
    <3>3. QED
      BY <3>1, <3>2, Zenon
  <2>7. \A s \in Slots : ota'[s] = "pending" => run = s
    BY <2>1, <2>2 DEF RomInv, Slots
  <2>8. /\ part'[Chosen(next, GivenUp(ota))'] # Torn
        /\ \A s \in Slots : ota'[s] = "new" => part'[Fallback(s)'] # Torn
    BY <2>1, <2>2, <2>3, <2>4, <2>5, <2>6, RunningWhole, Zenon DEF TypeOK
  <2>9. QED
    BY <2>1, <2>3, <2>4, <2>5, <2>6, <2>7, <2>8, Zenon DEF RomInv, Slots
<1>11. CASE WriteTarget
  <2>1. run \in Slots /\ part'[run] # Torn /\ (run = 2 => next = 2)
    BY <1>11 DEF WriteTarget, WriteSegments, WriteApp,
      TypeOK, RunInv, RomInv, Booting, Installing, Slots
  <2>2. /\ ota'[run] \notin Trial
        /\ \A s \in Slots : s # run => ota'[s] = ota[s]
        /\ ota'[run] = "aborted" => ota[run] = "aborted"
    BY <1>11, Zenon DEF WriteTarget, WriteSegments, WriteApp, RunInv, Installing
  <2>3. UNCHANGED <<next, run>> /\ pc' \notin Rebooting
    BY <1>11, Zenon DEF WriteTarget, WriteSegments, WriteApp, Rebooting
  <2>4. \A s \in Slots : ota'[s] = "new" => ota[s] = "new" /\ run # s /\ next = s
    BY <2>2, Zenon DEF RomInv, Trial
  <2>5. next # run => ota'[next] = "new"
    BY <2>1, <2>2, Zenon DEF RomInv, TypeOK, Slots
  <2>6. ota'[run] = "aborted" => run = 1 /\ ota'[2] \in {"new", "aborted"}
    <3>1. ota'[run] = "aborted" => run = 1 /\ ota[2] \in {"new", "aborted"}
      BY <2>1, <2>2 DEF RomInv, Slots
    <3>2. run = 1 => ota'[2] = ota[2]
      BY <2>2 DEF Slots
    <3>3. QED
      BY <3>1, <3>2, Zenon
  <2>7. \A s \in Slots : ota'[s] = "pending" => run = s
    BY <2>1, <2>2 DEF RomInv, Slots
  <2>8. /\ part'[Chosen(next, GivenUp(ota))'] # Torn
        /\ \A s \in Slots : ota'[s] = "new" => part'[Fallback(s)'] # Torn
    BY <2>1, <2>2, <2>3, <2>4, <2>5, <2>6, RunningWhole, Zenon DEF TypeOK
  <2>9. QED
    BY <2>1, <2>3, <2>4, <2>5, <2>6, <2>7, <2>8, Zenon DEF RomInv, Slots
<1>12. CASE RecordTarget \/ RecordSource \/ RecordLoader \/ SelectFails \/ FinalRecord
  <2>1. /\ UNCHANGED <<part, next, ota, run>> /\ pc' \notin Rebooting
        /\ pc' \in Booting => pc \in Booting \/ run = 1
    BY Zenon, <1>12
    DEF RecordTarget, RecordSource, RecordLoader, SelectFails, Finish,
        FinalRecord, Rebooting, Booting, Recovering, Copying, Finalizing
  <2>2. QED
    BY <2>1, RomFrame, Zenon
<1>13. CASE InvalidateLoader
  <2>1. run = 2 /\ UNCHANGED <<next, ota>>
    BY <1>13, Zenon DEF InvalidateLoader, SetNext, RunInv, Copying
  <2>2. UNCHANGED <<part, run>> /\ pc' \notin Rebooting /\ pc \in Booting
    BY <1>13, Zenon DEF InvalidateLoader, Rebooting, Booting, Copying
  <2>3. QED
    BY <2>1, <2>2, RomFrame, Zenon
<1>14. CASE EraseLoader
  <2>1. run \in Slots /\ part'[run] # Torn /\ (run = 2 => next = 2)
    BY <1>14 DEF EraseLoader, TypeOK, RunInv, RomInv, Booting, Copying, Slots
  <2>2. /\ ota'[run] \notin Trial
        /\ \A s \in Slots : s # run => ota'[s] = ota[s]
        /\ ota'[run] = "aborted" => ota[run] = "aborted"
    BY <1>14, Zenon DEF EraseLoader, RunInv, Copying
  <2>3. UNCHANGED <<next, run>> /\ pc' \notin Rebooting
    BY <1>14, Zenon DEF EraseLoader, Rebooting
  <2>4. \A s \in Slots : ota'[s] = "new" => ota[s] = "new" /\ run # s /\ next = s
    BY <2>2, Zenon DEF RomInv, Trial
  <2>5. next # run => ota'[next] = "new"
    BY <2>1, <2>2, Zenon DEF RomInv, TypeOK, Slots
  <2>6. ota'[run] = "aborted" => run = 1 /\ ota'[2] \in {"new", "aborted"}
    <3>1. ota'[run] = "aborted" => run = 1 /\ ota[2] \in {"new", "aborted"}
      BY <2>1, <2>2 DEF RomInv, Slots
    <3>2. run = 1 => ota'[2] = ota[2]
      BY <2>2 DEF Slots
    <3>3. QED
      BY <3>1, <3>2, Zenon
  <2>7. \A s \in Slots : ota'[s] = "pending" => run = s
    BY <2>1, <2>2 DEF RomInv, Slots
  <2>8. /\ part'[Chosen(next, GivenUp(ota))'] # Torn
        /\ \A s \in Slots : ota'[s] = "new" => part'[Fallback(s)'] # Torn
    BY <2>1, <2>2, <2>3, <2>4, <2>5, <2>6, RunningWhole, Zenon DEF TypeOK
  <2>9. QED
    BY <2>1, <2>3, <2>4, <2>5, <2>6, <2>7, <2>8, Zenon DEF RomInv, Slots
<1>15. CASE WriteLoader
  <2>1. run \in Slots /\ part'[run] # Torn /\ (run = 2 => next = 2)
    BY <1>15, Zenon DEF WriteLoader, TypeOK, RunInv, RomInv, Booting, Copying, Slots
  <2>2. /\ ota'[run] \notin Trial
        /\ \A s \in Slots : s # run => ota'[s] = ota[s]
        /\ ota'[run] = "aborted" => ota[run] = "aborted"
    BY <1>15, Zenon DEF WriteLoader, RunInv, Copying
  <2>3. UNCHANGED <<next, run>> /\ pc' \notin Rebooting
    BY <1>15, Zenon DEF WriteLoader, Rebooting
  <2>4. \A s \in Slots : ota'[s] = "new" => ota[s] = "new" /\ run # s /\ next = s
    BY <2>2, Zenon DEF RomInv, Trial
  <2>5. next # run => ota'[next] = "new"
    BY <2>1, <2>2, Zenon DEF RomInv, TypeOK, Slots
  <2>6. ota'[run] = "aborted" => run = 1 /\ ota'[2] \in {"new", "aborted"}
    <3>1. ota'[run] = "aborted" => run = 1 /\ ota[2] \in {"new", "aborted"}
      BY <2>1, <2>2 DEF RomInv, Slots
    <3>2. run = 1 => ota'[2] = ota[2]
      BY <2>2 DEF Slots
    <3>3. QED
      BY <3>1, <3>2, Zenon
  <2>7. \A s \in Slots : ota'[s] = "pending" => run = s
    BY <2>1, <2>2 DEF RomInv, Slots
  <2>8. /\ part'[Chosen(next, GivenUp(ota))'] # Torn
        /\ \A s \in Slots : ota'[s] = "new" => part'[Fallback(s)'] # Torn
    BY <2>1, <2>2, <2>3, <2>4, <2>5, <2>6, RunningWhole, Zenon DEF TypeOK
  <2>9. QED
    BY <2>1, <2>3, <2>4, <2>5, <2>6, <2>7, <2>8, Zenon DEF RomInv, Slots
<1>16. CASE Rebooted
  <2>1. PICK t, i : StartReboot(t, i)
    BY <1>16, Zenon DEF Rebooted, Launch, CopyDone, RebootLoader, RebootUpgrade, RebootApp
  <2>2. run # 0
    BY <1>16, Zenon DEF Rebooted, Launch, CopyDone, RebootLoader, RebootUpgrade, RebootApp,
        RunInv
  <2>3. /\ UNCHANGED <<part, next, ota, run>> /\ pc' = "select"
        /\ goal'.from = next
    BY <2>1, Zenon DEF StartReboot
  <2>4. UNCHANGED GivenUp(ota)
    BY <2>3, Zenon DEF GivenUp
  <2>5. /\ UNCHANGED Chosen(next, GivenUp(ota))
        /\ \A s : UNCHANGED Fallback(s)
    BY <2>3, <2>4, Zenon DEF Chosen, Fallback
  <2>6. pc' \notin Booting
    BY <2>3, Zenon DEF Booting, Recovering, Copying, Finalizing
  <2>7. QED
    BY <2>2, <2>3, <2>5, <2>6, Zenon DEF RomInv
<1>17. CASE SelectNext
  <2>1. run \in Slots /\ part[run] # Torn
    BY <1>17, Zenon DEF SelectNext, TypeOK, RunInv, Slots
  <2>2. CASE UNCHANGED <<next, ota>>
    <3>1. UNCHANGED <<part, run>> /\ pc' \notin Booting
      BY <1>17, Zenon DEF SelectNext, Booting, Recovering, Copying, Finalizing
    <3>2. pc' \in Rebooting => pc \in Rebooting /\ goal' = goal
      BY <1>17, Zenon DEF SelectNext, Rebooting
    <3>3. UNCHANGED GivenUp(ota)
      BY <2>2, <3>1, Zenon DEF GivenUp
    <3>4. /\ UNCHANGED Chosen(next, GivenUp(ota))
          /\ \A s : UNCHANGED Fallback(s)
      BY <2>2, <3>3, Zenon DEF Chosen, Fallback
    <3>5. QED
      BY <2>2, <3>1, <3>2, <3>4, Zenon DEF RomInv
  <2>3. CASE ~UNCHANGED <<next, ota>>
    <3>1. PICK t \in Slots : /\ t # run /\ part[t] # Torn /\ next' = t
                             /\ ota' = [ota EXCEPT ![t] = "new"]
      BY <1>17, <2>3, Zenon DEF SelectNext, SetNext, TypeOK
    <3>2. Other(t) = run /\ Other(run) = t
      BY <2>1, <3>1 DEF Other, Slots
    <3>3. ota'[t] = "new" /\ ota'[run] = ota[run]
      BY <2>1, <3>1, Zenon DEF TypeOK
    <3>4. \A s \in Slots : s = t \/ s = run
      BY <2>1, <3>1, Zenon DEF Slots
    <3>5. UNCHANGED <<part, run>> /\ GivenUp(ota)'[t] = "new"
      BY <1>17, <3>1, <3>3, Zenon DEF SelectNext, GivenUp
    <3>6. Chosen(next, GivenUp(ota))' = t
      BY <3>1, <3>5, Zenon DEF Chosen
    <3>7. Fallback(t)' \in {run, 1} /\ (t = 2 => run = 1)
      BY <3>2 DEF Fallback, Other
    <3>8. part[Fallback(t)'] # Torn
      BY <2>1, <3>1, <3>4, <3>7, Zenon DEF Slots
    <3>9. ota[run] # "new" /\ (ota[run] = "aborted" => run = 1)
      BY <2>1 DEF RomInv, Slots
    <3>10. pc' \in Rebooting => goal' = goal /\ goal.from \in Slots
      BY <1>17, Zenon DEF SelectNext, Finish, Rebooting, TypeOK
    <3>11. QED
      BY <1>17, <2>1, <3>1, <3>3, <3>4, <3>5, <3>6, <3>8, <3>9, <3>10, Zenon
         DEF SelectNext, RomInv, Slots, Booting, Recovering, Copying, Finalizing,
             RunInv
  <2>4. QED
    BY <2>2, <2>3, Zenon
<1>18. CASE RebootFails
  <2>1. run \in Slots /\ part[run] # Torn
    BY <1>18, Zenon DEF RebootFails, TypeOK, RunInv, Slots
  <2>2. CASE UNCHANGED <<next, ota>>
    <3>1. UNCHANGED <<part, run>> /\ pc' \notin Booting
      BY <1>18, Zenon DEF RebootFails, Finish, Booting, Recovering, Copying, Finalizing
    <3>2. pc' \in Rebooting => pc \in Rebooting /\ goal' = goal
      BY <1>18, Zenon DEF RebootFails, Finish, Rebooting
    <3>3. UNCHANGED GivenUp(ota)
      BY <2>2, <3>1, Zenon DEF GivenUp
    <3>4. /\ UNCHANGED Chosen(next, GivenUp(ota))
          /\ \A s : UNCHANGED Fallback(s)
      BY <2>2, <3>3, Zenon DEF Chosen, Fallback
    <3>5. QED
      BY <2>2, <3>1, <3>2, <3>4, Zenon DEF RomInv
  <2>3. CASE ~UNCHANGED <<next, ota>>
    <3>1. PICK t \in Slots : /\ t # run /\ part[t] # Torn /\ next' = t
                             /\ ota' = [ota EXCEPT ![t] = "new"]
      BY <1>18, <2>3, Zenon DEF RebootFails, SetNext, TypeOK
    <3>2. Other(t) = run /\ Other(run) = t
      BY <2>1, <3>1 DEF Other, Slots
    <3>3. ota'[t] = "new" /\ ota'[run] = ota[run]
      BY <2>1, <3>1, Zenon DEF TypeOK
    <3>4. \A s \in Slots : s = t \/ s = run
      BY <2>1, <3>1, Zenon DEF Slots
    <3>5. UNCHANGED <<part, run>> /\ GivenUp(ota)'[t] = "new"
      BY <1>18, <3>1, <3>3, Zenon DEF RebootFails, GivenUp
    <3>6. Chosen(next, GivenUp(ota))' = t
      BY <3>1, <3>5, Zenon DEF Chosen
    <3>7. Fallback(t)' \in {run, 1} /\ (t = 2 => run = 1)
      BY <3>2 DEF Fallback, Other
    <3>8. part[Fallback(t)'] # Torn
      BY <2>1, <3>1, <3>4, <3>7, Zenon DEF Slots
    <3>9. ota[run] # "new" /\ (ota[run] = "aborted" => run = 1)
      BY <2>1 DEF RomInv, Slots
    <3>10. pc' \in Rebooting => goal' = goal /\ goal.from \in Slots
      BY <1>18, Zenon DEF RebootFails, Finish, Rebooting, TypeOK
    <3>11. QED
      BY <1>18, <2>1, <3>1, <3>3, <3>4, <3>5, <3>6, <3>8, <3>9, <3>10
         DEF RebootFails, RomInv, Slots, Booting, Recovering, Copying, Finalizing,
             Finish, RunInv
  <2>4. QED
    BY <2>2, <2>3, Zenon
<1>19. CASE FinalConfirm
  <2>1. run \in Slots /\ part'[run] # Torn /\ (run = 2 => next = 2)
    BY <1>19, Zenon DEF FinalConfirm, TypeOK, RunInv, RomInv, Booting, Finalizing, Slots
  <2>2. /\ ota'[run] \notin Trial
        /\ \A s \in Slots : s # run => ota'[s] = ota[s]
        /\ ota'[run] = "aborted" => ota[run] = "aborted"
    BY <1>19, <2>1, Zenon DEF FinalConfirm, ConfirmRunning, Trial, TypeOK
  <2>3. UNCHANGED <<next, run>> /\ pc' \notin Rebooting
    BY <1>19, Zenon DEF FinalConfirm, Rebooting
  <2>4. \A s \in Slots : ota'[s] = "new" => ota[s] = "new" /\ run # s /\ next = s
    BY <2>2, Zenon DEF RomInv, Trial
  <2>5. next # run => ota'[next] = "new"
    BY <2>1, <2>2, Zenon DEF RomInv, TypeOK, Slots
  <2>6. ota'[run] = "aborted" => run = 1 /\ ota'[2] \in {"new", "aborted"}
    <3>1. ota'[run] = "aborted" => run = 1 /\ ota[2] \in {"new", "aborted"}
      BY <2>1, <2>2 DEF RomInv, Slots
    <3>2. run = 1 => ota'[2] = ota[2]
      BY <2>2 DEF Slots
    <3>3. QED
      BY <3>1, <3>2, Zenon
  <2>7. \A s \in Slots : ota'[s] = "pending" => run = s
    BY <2>1, <2>2 DEF RomInv, Slots
  <2>8. /\ part'[Chosen(next, GivenUp(ota))'] # Torn
        /\ \A s \in Slots : ota'[s] = "new" => part'[Fallback(s)'] # Torn
    BY <2>1, <2>2, <2>3, <2>4, <2>5, <2>6, RunningWhole, Zenon DEF TypeOK
  <2>9. QED
    BY <2>1, <2>3, <2>4, <2>5, <2>6, <2>7, <2>8, Zenon DEF RomInv, Slots
<1>20. CASE Fail
  <2>1. /\ UNCHANGED <<part, next, ota, run>> /\ pc' \notin Rebooting
        /\ pc' \in Booting => pc \in Booting \/ run = 1
    BY <1>20, Zenon
    DEF Fail, Finish, Rebooting, Booting, Recovering, Copying, Finalizing
  <2>2. QED
    BY <2>1, RomFrame, Zenon
<1>21. CASE UNCHANGED vars
  BY <1>21, Zenon DEF vars, RomInv, Fallback, GivenUp, Chosen, Booting
<1>22. QED
  BY <1>1, <1>2, <1>3, <1>4, <1>5, <1>6, <1>7, <1>8, <1>9, <1>10, <1>11,
      <1>12, <1>13, <1>14, <1>15, <1>16, <1>17, <1>18, <1>19, <1>20, <1>21, Zenon
     DEF Next, Step, Command, Fault, Reset, Restart, Rebooted


------------------------------------------------------------------------------

\* A record without an image has no package.
LEMMA NoImageNoPackage ==
  TypeOK /\ MetaInv => (meta[2].image = None => meta[2].package = None)
<1> SUFFICES ASSUME TypeOK, MetaInv, meta[2].package # None
             PROVE  meta[2].image # None
  BY Zenon
<1>1. meta[2].package \in Packages
  BY Zenon DEF TypeOK, Records, Slots
<1>2. meta[2].image = ImageOf[meta[2].package]
  BY Zenon DEF MetaInv, Slots
<1>3. QED
  BY <1>1, <1>2, PackagesAssumption, MarkersAssumption, Zenon

\* The record of a partition is true, and withdrawn while it is written.
LEMMA MetaStep ==
  TypeOK /\ StageInv /\ RunInv /\ MetaInv /\ DataInv /\ [Next]_vars => MetaInv'
<1> SUFFICES ASSUME TypeOK, StageInv, RunInv, MetaInv, DataInv, [Next]_vars
             PROVE  MetaInv'
  BY Zenon
<1> USE PackagesAssumption, MarkersAssumption DEF slots, boot, staged, data,
        work, mode, Goto
<1>1. CASE PowerOn \/ Off
  BY <1>1, Zenon DEF PowerOn, Off, MetaInv, Replacing, TypeOK, Slots, Segmented
<1>2. CASE BeginStage \/ CancelStage
  BY <1>2, Zenon DEF BeginStage, StageInv, Installing, Replacing, Staging,
      CancelStage, MetaInv, TypeOK, Slots, Segmented
<1>3. CASE BeginTemporary \/ BeginPackage \/ (\E p \in Packages : ReceiveOpen(p)) \/
            Publish
  BY <1>3, Zenon DEF BeginTemporary, BeginPackage, ReceiveOpen, Publish, StageInv,
      Staging, MetaInv, Replacing, TypeOK, Slots, Segmented
<1>4. CASE ReceiveFails \/ CommitStage \/ CommitFails \/ DropFile \/ InspectFails \/
            StayInLoader \/ NoLaunch \/ SelectFails \/ RebootFails \/ Fail
  BY <1>4, Zenon DEF ReceiveFails, Finish, CommitStage, StageInv, Staging,
      Installing, Replacing, CommitFails, DropFile, InspectFails,
      StayInLoader, StageIs, NoLaunch, SelectFails, RebootFails, Fail,
      MetaInv, TypeOK, Slots, Segmented
<1>5. CASE DropStage \/ Rebooted
  BY <1>5, Zenon DEF DropStage, StageInv, Installing, Replacing, Staging, Rebooted,
      Launch, CopyDone, RebootLoader, RebootUpgrade, RebootApp, StartReboot,
      MetaInv, TypeOK, Slots, Segmented
<1>6. CASE Recover \/ RecoverFile \/ RecoverStage \/ RecoverFails
  BY <1>6, Zenon DEF Recover, RecoverFile, RecoverStage, StageInv, Installing,
      Replacing, Staging, RecoverFails, MetaInv, TypeOK, Slots, Segmented
<1>7. CASE Seed
  BY <1>7 DEF Seed, Record, MetaInv, Replacing, TypeOK, Slots, Segmented
<1>8. CASE Confirm \/ FinalConfirm \/ StartupAgain \/ Proceed
  BY <1>8, Zenon DEF Confirm, FinalConfirm, StartupAgain, Proceed, StageIs, MetaInv,
      Replacing, TypeOK, Slots, Segmented
<1>9. CASE Converge
  BY <1>9 DEF Converge, Converged, SameImage, StageIs, FromStage, Record,
      StageInv, Installing, Replacing, MetaInv, TypeOK, Slots, Segmented
<1>10. CASE ConvergeLoader
  BY <1>10 DEF ConvergeLoader, Converged, SameImage, StageIs, FromStage, Record,
      MetaInv, Replacing, TypeOK, Slots
<1>11. CASE Inspect
  BY <1>11, Zenon DEF Inspect, Plan, MetaInv, Replacing, TypeOK, Slots, Segmented
<1>12. CASE InvalidateTarget
  BY <1>12, Zenon DEF InvalidateTarget, Invalid, StageInv, Installing, Replacing,
      Staging, MetaInv, TypeOK, Slots, Segmented
<1>13. CASE RemoveChecksum
  BY <1>13 DEF RemoveChecksum, Segmented, MetaInv, Replacing, TypeOK, Slots
<1>14. CASE ClearData
  BY <1>14 DEF ClearData, MetaInv, Replacing, TypeOK, Slots, Segmented
<1>15. CASE FillData
  BY <1>15 DEF FillData, StageInv, Installing, Replacing, MetaInv, DataInv, Segmented,
      TypeOK, Slots
<1>16. CASE WriteChecksum
  BY <1>16 DEF WriteChecksum, Segmented, StageInv, Installing, Replacing,
      MetaInv, TypeOK, Slots
<1>17. CASE ReplaceData
  BY <1>17 DEF ReplaceData, Segmented, StageInv, Installing, Replacing,
      MetaInv, TypeOK, Slots
<1>18. CASE EraseTarget
  BY <1>18 DEF EraseTarget, StageInv, Installing, Replacing, Staging, MetaInv,
      TypeOK, Slots, Segmented
<1>19. CASE WriteTarget
  BY <1>19 DEF WriteTarget, WriteSegments, WriteApp,
      Segmented, StageInv, Installing, Replacing,
      Staging, MetaInv, TypeOK, Slots
<1>20. CASE RecordTarget
  BY <1>20, Zenon DEF RecordTarget, FromStage, Record, StageInv, Installing,
      Replacing, Staging, MetaInv, TypeOK, Slots, Segmented
<1>21. CASE InvalidateLoader
  BY <1>21, Zenon DEF InvalidateLoader, Invalid, MetaInv, Replacing, TypeOK, Slots,
      Segmented
<1>22. CASE EraseLoader
  BY <1>22 DEF EraseLoader, MetaInv, Replacing, TypeOK, Slots, Segmented
<1>23. CASE WriteLoader
  BY <1>23 DEF WriteLoader, MetaInv, Replacing, TypeOK, Slots, Segmented
<1>24. CASE RecordSource
  <2>1. /\ run = 2 /\ pc = "copy_source" /\ pc' = "copy_record"
        /\ part[1] = part[2] /\ meta[1].image = None
        /\ UNCHANGED <<part, stage, plan>>
    BY <1>24, Zenon DEF RecordSource, RunInv, MetaInv, Copying
  <2>2. CASE meta' = meta
    BY <2>1, <2>2, Zenon DEF MetaInv, Replacing
  <2>3. CASE meta' # meta
    <3>1. meta' = [meta EXCEPT ![2] = Record(part[2], stage)]
      BY <1>24, <2>1, <2>3, Zenon DEF RecordSource, Copied, FromStage, Record
    <3>2. stage \in Packages /\ ImageOf[stage] = part[2]
      BY <1>24, <2>1, <2>3, Zenon DEF RecordSource, Copied, FromStage, Record, TypeOK
    <3>3. meta'[1] = meta[1] /\ meta'[2] = Record(part[2], stage)
      BY <3>1 DEF TypeOK, Slots
    <3>4. \A s \in Slots :
            /\ meta'[s].image # None => part[s] = meta'[s].image
            /\ meta'[s].package # None => meta'[s].image = ImageOf[meta'[s].package]
      BY <3>2, <3>3 DEF MetaInv, Record, Slots
    <3>5. QED
      BY <2>1, <3>3, <3>4, Zenon DEF MetaInv, Replacing
  <2>4. QED
    BY <2>2, <2>3, Zenon
<1>25. CASE RecordLoader
  BY <1>25 DEF RecordLoader, Copied, FromStage, Record, MetaInv, RunInv, Copying,
      Replacing, TypeOK, Slots
<1>26. CASE SelectNext
  BY <1>26 DEF SelectNext, MetaInv, Replacing, TypeOK, Slots, Segmented
<1>27. CASE FinalRecord
  BY <1>27 DEF FinalRecord, Record, StageIs, MetaInv, Replacing, TypeOK,
      Slots, Segmented
<1>28. CASE UNCHANGED vars
  BY <1>28, Zenon DEF vars, MetaInv, Segmented, Converged, SameImage, StageIs
<1>29. QED
  BY <1>1, <1>2, <1>3, <1>4, <1>5, <1>6, <1>7, <1>8, <1>9, <1>10, <1>11,
      <1>12, <1>13, <1>14, <1>15, <1>16, <1>17, <1>18, <1>19, <1>20, <1>21,
      <1>22, <1>23, <1>24, <1>25, <1>26, <1>27, <1>28, Zenon
     DEF Next, Step, Command, Fault, Reset, Restart, Rebooted

\* .checksum and the record of an App say what tree is in place.
LEMMA DataStep ==
  TypeOK /\ StageInv /\ RunInv /\ MetaInv /\ DataInv /\ [Next]_vars => DataInv'
<1> SUFFICES ASSUME TypeOK, StageInv, RunInv, MetaInv, DataInv, [Next]_vars
             PROVE  DataInv'
  BY Zenon
<1> USE PackagesAssumption, MarkersAssumption DEF slots, boot, staged, data,
        work, mode, Goto
<1>1. CASE PowerOn \/ Off
  BY <1>1, Zenon DEF PowerOn, Off, DataInv, Installing, Replacing, TypeOK, Slots,
      Segmented
<1>2. CASE BeginStage \/ CancelStage
  BY <1>2, Zenon DEF BeginStage, StageInv, Installing, Replacing, Staging,
      CancelStage, DataInv, TypeOK, Slots, Segmented
<1>3. CASE BeginTemporary \/ BeginPackage \/ (\E p \in Packages : ReceiveOpen(p)) \/
            Publish
  BY <1>3, Zenon DEF BeginTemporary, BeginPackage, ReceiveOpen, Publish, StageInv,
      Staging, DataInv, Installing, Replacing, TypeOK, Slots, Segmented
<1>4. CASE ReceiveFails \/ CommitStage \/ CommitFails \/ DropFile \/ InspectFails \/
            StayInLoader \/ NoLaunch \/ SelectFails \/ RebootFails \/ Fail
  BY <1>4, Zenon DEF ReceiveFails, Finish, CommitStage, StageInv, Staging,
      Installing, Replacing, CommitFails, DropFile, InspectFails,
      StayInLoader, StageIs, NoLaunch, SelectFails, RebootFails, Fail,
      DataInv, TypeOK, Slots, Segmented
<1>5. CASE DropStage \/ Rebooted
  BY <1>5, Zenon DEF DropStage, StageInv, Installing, Replacing, Staging, Rebooted,
      Launch, CopyDone, RebootLoader, RebootUpgrade, RebootApp, StartReboot,
      DataInv, TypeOK, Slots, Segmented
<1>6. CASE Recover \/ RecoverFile \/ RecoverStage \/ RecoverFails
  BY <1>6, Zenon DEF Recover, RecoverFile, RecoverStage, StageInv, Installing,
      Replacing, Staging, RecoverFails, DataInv, TypeOK, Slots, Segmented
<1>7. CASE Seed
  BY <1>7, Zenon DEF Seed, Record, DataInv, Installing, Replacing, TypeOK, Slots,
      Segmented
<1>8. CASE Confirm \/ FinalConfirm \/ StartupAgain \/ Proceed
  BY <1>8, Zenon DEF Confirm, FinalConfirm, StartupAgain, Proceed, StageIs, DataInv,
      Installing, Replacing, TypeOK, Slots, Segmented
<1>9. CASE Converge
  BY <1>9, Zenon DEF Converge, Converged, SameImage, StageIs, FromStage, Record,
      StageInv, Installing, Replacing, DataInv, TypeOK, Slots, Segmented
<1>10. CASE ConvergeLoader
  <2>1. /\ meta'[2] = meta[2] /\ UNCHANGED <<stage, tree, installed, doubt>>
        /\ pc' = "drop_stage"
    BY <1>10 DEF ConvergeLoader, TypeOK, Slots
  <2>2. QED
    BY <2>1, Zenon DEF DataInv, Installing, Replacing
<1>11. CASE Inspect
  BY <1>11, Zenon DEF Inspect, Plan, DataInv, Installing, Replacing, TypeOK, Slots,
      Segmented
<1>12. CASE InvalidateTarget
  BY <1>12, Zenon DEF InvalidateTarget, Invalid, StageInv, Installing, Replacing,
      Staging, DataInv, TypeOK, Slots, Segmented
<1>13. CASE RemoveChecksum
  BY <1>13, Zenon DEF RemoveChecksum, Segmented, DataInv, Installing, Replacing,
      TypeOK, Slots
<1>14. CASE ClearData
  <2>1. meta[2].package # None => ~plan.app
    BY <1>14, NoImageNoPackage, Zenon DEF ClearData, MetaInv, Replacing
  <2>2. QED
    BY <1>14, <2>1, Zenon DEF ClearData, DataInv, StageInv, Installing, Replacing, Segmented,
        TypeOK, Slots
<1>15. CASE FillData
  <2>1. meta[2].package # None => ~plan.app
    BY <1>15, NoImageNoPackage, Zenon DEF FillData, MetaInv, Replacing
  <2>2. QED
    BY <1>15, <2>1, Zenon DEF FillData, DataInv, StageInv, Installing, Replacing, Segmented,
        TypeOK, Slots
<1>16. CASE WriteChecksum
  <2>1. meta[2].package # None => ~plan.app
    BY <1>16, NoImageNoPackage, Zenon DEF WriteChecksum, MetaInv, Replacing
  <2>2. QED
    BY <1>16, <2>1, Zenon DEF WriteChecksum, DataInv, StageInv, Installing, Replacing, Segmented,
        TypeOK, Slots
<1>17. CASE ReplaceData
  BY <1>17, Zenon DEF ReplaceData, Segmented, StageInv, Installing, Replacing,
      DataInv, TypeOK, Slots
<1>18. CASE EraseTarget
  BY <1>18, Zenon DEF EraseTarget, StageInv, Installing, Replacing, Staging, DataInv,
      TypeOK, Slots, Segmented
<1>19. CASE WriteTarget
  <2>1. UNCHANGED <<meta, tree, installed, doubt, plan, stage>>
    BY <1>19, Zenon DEF WriteTarget, WriteSegments, WriteApp
  <2>2. pc' = "record" => ~plan.data \/ Segmented
    BY <1>19, Zenon DEF WriteTarget, WriteSegments, WriteApp
  <2>3. pc' = "checksum" => plan.data /\ plan.app /\ ~Segmented
    BY <1>19, Zenon DEF WriteTarget, WriteSegments, WriteApp, MetaInv
  <2>4. pc = "write" /\ pc' \in {"checksum", "record"}
    BY <1>19, Zenon DEF WriteTarget, WriteSegments, WriteApp
  <2>5. QED
    BY <2>1, <2>2, <2>3, <2>4, Zenon DEF DataInv, Segmented, Installing, Replacing
<1>20. CASE RecordTarget
  <2>1. /\ meta'[2] = FromStage /\ UNCHANGED <<tree, installed>>
        /\ pc' = "launch" /\ stage \in Packages
    BY <1>20, Zenon DEF RecordTarget, StageInv, Installing, TypeOK, Slots
  <2>2. meta'[2].image = ImageOf[stage] /\ meta'[2].package = stage
    BY <2>1 DEF FromStage, Record
  <2>3. ImageOf[stage] \notin LoaderImages => installed = DataOf[stage]
    BY <1>20, Zenon DEF RecordTarget, DataInv, Installing
  <2>4. DataOf[stage] # None
    BY <2>1, Zenon
  <2>5. QED
    BY <2>1, <2>2, <2>3, <2>4, Zenon DEF DataInv, Installing, Replacing
<1>21. CASE InvalidateLoader
  BY <1>21, Zenon DEF InvalidateLoader, Invalid, DataInv, Installing, Replacing,
      TypeOK, Slots, Segmented
<1>22. CASE EraseLoader
  BY <1>22, Zenon DEF EraseLoader, DataInv, Installing, Replacing, TypeOK, Slots,
      Segmented
<1>23. CASE WriteLoader
  BY <1>23, Zenon DEF WriteLoader, DataInv, Installing, Replacing, TypeOK, Slots,
      Segmented
<1>24. CASE RecordSource
  BY <1>24, Zenon DEF RecordSource, Copied, FromStage, Record, DataInv, RunInv, Copying,
      Installing, Replacing, TypeOK, Slots
<1>25. CASE RecordLoader
  <2>1. /\ meta'[2] = meta[2] /\ UNCHANGED <<stage, tree, installed, doubt>>
        /\ pc' = "copied"
    BY <1>25 DEF RecordLoader, TypeOK, Slots
  <2>2. QED
    BY <2>1, Zenon DEF DataInv, Installing, Replacing
<1>26. CASE SelectNext
  BY <1>26, Zenon DEF SelectNext, DataInv, Installing, Replacing, TypeOK, Slots,
      Segmented
<1>27. CASE FinalRecord
  BY <1>27, Zenon DEF FinalRecord, Record, StageIs, DataInv, Installing, Replacing,
      TypeOK, Slots, Segmented
<1>28. CASE UNCHANGED vars
  BY <1>28, Zenon DEF vars, DataInv, Segmented
<1>29. QED
  BY <1>1, <1>2, <1>3, <1>4, <1>5, <1>6, <1>7, <1>8, <1>9, <1>10, <1>11,
      <1>12, <1>13, <1>14, <1>15, <1>16, <1>17, <1>18, <1>19, <1>20, <1>21,
      <1>22, <1>23, <1>24, <1>25, <1>26, <1>27, <1>28, Zenon
     DEF Next, Step, Command, Fault, Reset, Restart, Rebooted

\* An update is in place when its source is dropped.
LEMMA DropInvStep ==
  TypeOK /\ RunInv /\ MetaInv /\ DataInv /\ DropInv /\ [Next]_vars => DropInv'
<1> SUFFICES ASSUME TypeOK, RunInv, MetaInv, DataInv, DropInv, [Next]_vars
             PROVE  DropInv'
  BY Zenon
<1> USE MarkersAssumption DEF slots, boot, staged, data, work, mode, Goto
<1>1. CASE PowerOn \/ Off
  BY <1>1, Zenon DEF PowerOn, Off, DropInv
<1>2. CASE BeginStage \/ CancelStage
  BY <1>2, Zenon DEF BeginStage, CancelStage, DropInv
<1>3. CASE BeginTemporary \/ BeginPackage \/ (\E p \in Packages : ReceiveOpen(p)) \/
            Publish
  BY <1>3, Zenon DEF BeginTemporary, BeginPackage, ReceiveOpen, Publish, DropInv
<1>4. CASE ReceiveFails \/ CommitStage \/ CommitFails \/ DropFile \/ InspectFails \/
            StayInLoader \/ NoLaunch \/ SelectFails \/ RebootFails \/ Fail
  BY <1>4, Zenon DEF ReceiveFails, Finish, CommitStage, CommitFails, DropFile,
      InspectFails, StayInLoader, NoLaunch, SelectFails, RebootFails, Fail,
      DropInv
<1>5. CASE DropStage \/ Rebooted
  BY <1>5, Zenon DEF DropStage, Rebooted, Launch, CopyDone, RebootLoader,
      RebootUpgrade, RebootApp, StartReboot, DropInv
<1>6. CASE Recover \/ RecoverFile \/ RecoverStage \/ RecoverFails
  BY <1>6, Zenon DEF Recover, RecoverFile, RecoverStage, RecoverFails, DropInv
<1>7. CASE Seed \/ Confirm \/ StartupAgain \/ Converge \/ Proceed \/ Inspect
  BY <1>7, Zenon DEF Seed, Confirm, StartupAgain, Converge, Proceed, Inspect, DropInv
<1>8. CASE ConvergeLoader
  <2>1. /\ part[1] = ImageOf[stage] /\ part[2] = ImageOf[stage]
        /\ ImageOf[stage] \in LoaderImages
    BY <1>8, Zenon DEF ConvergeLoader, MetaInv, Converged, SameImage, StageIs, Slots
  <2>2. run = 1 /\ ota[1] \notin {"new", "pending"}
    BY <1>8, Zenon DEF ConvergeLoader, RunInv, Trial
  <2>3. QED
    BY <1>8, <2>1, <2>2, Zenon DEF ConvergeLoader, DropInv, InPlace
<1>9. CASE InvalidateTarget \/ RemoveChecksum \/ ClearData \/ FillData \/
            WriteChecksum \/ ReplaceData \/ EraseTarget \/ WriteTarget \/ RecordTarget
  BY <1>9, Zenon DEF InvalidateTarget, RemoveChecksum, ClearData, FillData,
      WriteChecksum, ReplaceData, EraseTarget, WriteTarget, WriteSegments, WriteApp,
      RecordTarget,
      DropInv
<1>10. CASE InvalidateLoader \/ EraseLoader \/ WriteLoader \/ RecordSource \/
            RecordLoader
  BY <1>10, Zenon DEF InvalidateLoader, EraseLoader, WriteLoader, RecordSource,
      RecordLoader, DropInv
<1>11. CASE SelectNext
  BY <1>11, Zenon DEF SelectNext, DropInv
<1>12. CASE FinalRecord
  BY <1>12, Zenon DEF FinalRecord, DropInv, StageInstalled, StageIs
<1>13. CASE FinalConfirm
  <2>1. CASE pc = "final_drop"
    <3>1. /\ pc' = "drop_stage" /\ UNCHANGED <<part, stage, run, data>>
          /\ run = 2 /\ part[2] \notin LoaderImages
          /\ stage = meta[2].package /\ stage # None
          /\ ImageOf[stage] = meta[2].image /\ meta[2].image = part[2]
      BY <1>13, <2>1, Zenon DEF FinalConfirm, DropInv, StageInstalled, StageIs, RunInv,
          Finalizing
    <3>2. ota'[2] \notin {"new", "pending"}
      BY <1>13, <3>1, Zenon DEF FinalConfirm, ConfirmRunning, TypeOK, Slots
    <3>3. tree \in {DataOf[stage], Unfinished} \/ doubt
      BY <3>1, Zenon DEF DataInv
    <3>4. QED
      BY <3>1, <3>2, <3>3, Zenon DEF DropInv, InPlace
  <2>2. CASE pc # "final_drop"
    BY <1>13, <2>2, Zenon DEF FinalConfirm, DropInv
  <2>3. QED
    BY <2>1, <2>2, Zenon
<1>14. CASE UNCHANGED vars
  BY <1>14, Zenon DEF vars, DropInv, InPlace, StageInstalled, StageIs
<1>15. QED
  BY <1>1, <1>2, <1>3, <1>4, <1>5, <1>6, <1>7, <1>8, <1>9, <1>10, <1>11,
      <1>12, <1>13, <1>14, Zenon
     DEF Next, Step, Command, Fault, Reset, Restart, Rebooted

\* A candidate that the ROM gave up keeps its record and is not launched.
LEMMA RejectStep ==
  TypeOK /\ RunInv /\ RomInv /\ RejectInv /\ [Next]_vars => RejectInv'
<1> SUFFICES ASSUME TypeOK, RunInv, RomInv, RejectInv, [Next]_vars
             PROVE  RejectInv'
  BY Zenon
<1> USE PackagesAssumption, MarkersAssumption DEF slots, boot, staged, data,
        work, mode, Goto
<1>1. CASE PowerOn
  <2>1. PICK o : o = GivenUp(ota)
    BY Zenon
  <2>2. o \in [Slots -> OtaStates] /\ (o[2] # ota[2] => o[2] = "aborted")
    BY <2>1, Zenon DEF TypeOK, GivenUp, OtaStates, Slots
  <2>3. ota[2] = "aborted" => o[2] = "aborted"
    BY <2>1, Zenon DEF GivenUp, Slots
  <2>4. PICK s : ota' = [o EXCEPT ![s] = IF o[s] = "new" THEN "pending" ELSE o[s]]
    BY <1>1, <2>1, Zenon DEF PowerOn
  <2>5. o[2] = "aborted" => ota'[2] = "aborted"
    BY <2>2, <2>4, Zenon DEF Slots
  <2>6. /\ rejected' = IF /\ o[2] # ota[2] /\ meta[2].image = part[2]
                          /\ stage = None \/ ImageOf[stage] = part[2]
                       THEN part[2] ELSE rejected
        /\ UNCHANGED <<part, meta, stage>> /\ pc' \in {"recover", "final"}
    BY <1>1, <2>1, Zenon DEF PowerOn
  <2>7. QED
    BY <2>2, <2>3, <2>5, <2>6, Zenon DEF RejectInv, Installing, Replacing
<1>2. CASE Off
  BY <1>2, Zenon DEF Off, RejectInv, Installing, Replacing
<1>3. CASE BeginStage \/ CancelStage
  BY <1>3, Zenon DEF BeginStage, Installing, CancelStage, RejectInv, Replacing
<1>4. CASE BeginTemporary \/ BeginPackage \/ (\E p \in Packages : ReceiveOpen(p)) \/
            Publish
  BY <1>4, Zenon DEF BeginTemporary, BeginPackage, ReceiveOpen, Publish, RejectInv,
      Installing, Replacing
<1>5. CASE ReceiveFails \/ CommitFails \/ DropFile \/ InspectFails \/ StayInLoader \/
            NoLaunch \/ SelectFails \/ Fail
  BY <1>5, Zenon DEF ReceiveFails, Finish, CommitFails, DropFile, InspectFails,
      Installing, StayInLoader, RolledBack, Candidate, Listed, Bootable,
      StageIs, NoLaunch, SelectFails, Fail, RejectInv, Replacing
<1>6. CASE CommitStage
  BY <1>6, Zenon DEF CommitStage, Installing, Finish, RejectInv, Replacing
<1>7. CASE DropStage
  BY <1>7, Zenon DEF DropStage, Installing, RejectInv, Replacing
<1>8. CASE Recover \/ RecoverFile \/ RecoverStage \/ RecoverFails
  BY <1>8, Zenon DEF Recover, RecoverFile, RecoverStage, Installing, RecoverFails,
      RejectInv, Replacing
<1>9. CASE Seed
  BY <1>9, Zenon DEF Seed, TypeOK, Slots, Copied, FromStage, Record, Converged,
      SameImage, StageIs, RejectInv, Installing, Replacing
<1>10. CASE Confirm
  BY <1>10, Zenon DEF Confirm, ConfirmRunning, TypeOK, Slots, RejectInv, Installing, Replacing
<1>11. CASE StartupAgain
  BY <1>11, Zenon DEF StartupAgain, RejectInv, Installing, Replacing
<1>12. CASE Converge
  BY <1>12, Zenon DEF Converge, TypeOK, Slots, Copied, FromStage, Record, Converged,
      SameImage, StageIs, RejectInv, Installing, Replacing
<1>13. CASE ConvergeLoader
  <2>1. UNCHANGED <<ota, part, rejected, stage>> /\ meta'[2] = meta[2]
    BY <1>13 DEF ConvergeLoader, TypeOK, Slots
  <2>2. QED
    BY <1>13, <2>1, Zenon DEF ConvergeLoader, RejectInv, Installing, Replacing
<1>14. CASE Proceed
  <2>1. rejected = None
    BY <1>14, Zenon DEF Proceed, RolledBack, Candidate, StageIs, Bootable, RejectInv
  <2>2. QED
    BY <1>14, <2>1, Zenon DEF Proceed, RejectInv
<1>15. CASE Inspect
  BY <1>15, Zenon DEF Inspect, RejectInv, Installing, Replacing
<1>16. CASE InvalidateTarget \/ RemoveChecksum \/ ClearData \/ FillData \/
            WriteChecksum \/ ReplaceData \/ EraseTarget \/ WriteTarget
  BY <1>16, Zenon DEF InvalidateTarget, Installing, RemoveChecksum, ClearData,
      FillData, WriteChecksum, ReplaceData, EraseTarget, WriteTarget, WriteSegments, WriteApp,
      RejectInv, Replacing
<1>17. CASE RecordTarget
  BY <1>17, Zenon DEF RecordTarget, FromStage, Record, Installing, RejectInv,
      Replacing
<1>18. CASE InvalidateLoader
  <2>1. run = 2
    BY <1>18, Zenon DEF InvalidateLoader, RunInv, Copying
  <2>2. UNCHANGED <<ota, part, rejected, stage>> /\ meta'[2] = meta[2]
    BY <1>18, <2>1 DEF InvalidateLoader, SetNext, TypeOK, Slots
  <2>3. QED
    BY <1>18, <2>2, Zenon DEF InvalidateLoader, RejectInv, Installing, Replacing
<1>19. CASE EraseLoader
  <2>1. UNCHANGED <<ota, meta, rejected, stage>> /\ part'[2] = part[2]
    BY <1>19 DEF EraseLoader, TypeOK, Slots
  <2>2. QED
    BY <1>19, <2>1, Zenon DEF EraseLoader, RejectInv, Installing, Replacing
<1>20. CASE WriteLoader
  <2>1. UNCHANGED <<ota, meta, rejected, stage>> /\ part'[2] = part[2]
    BY <1>20, Zenon DEF WriteLoader, TypeOK, Slots
  <2>2. QED
    BY <1>20, <2>1, Zenon DEF WriteLoader, RejectInv, Installing, Replacing
<1>21. CASE RecordSource
  <2>1. run = 2
    BY <1>21, Zenon DEF RecordSource, RunInv, Copying
  <2>2. ota[2] # "aborted"
    BY <2>1 DEF RomInv
  <2>3. rejected = None
    BY <2>2, Zenon DEF RejectInv
  <2>4. QED
    BY <1>21, <2>3, Zenon DEF RecordSource, RejectInv, Installing, Replacing
<1>22. CASE RecordLoader
  <2>1. UNCHANGED <<ota, part, rejected, stage>> /\ meta'[2] = meta[2]
    BY <1>22 DEF RecordLoader, TypeOK, Slots
  <2>2. QED
    BY <1>22, <2>1, Zenon DEF RecordLoader, RejectInv, Installing, Replacing
<1>23. CASE Rebooted
  BY <1>23, Zenon DEF Rebooted, Launch, CopyDone, RebootLoader, RebootUpgrade, RebootApp,
      StartReboot, RejectInv, Installing, Replacing
<1>24. CASE SelectNext
  <2>1. pc' = "reset" /\ UNCHANGED <<part, meta, stage>>
    BY <1>24, Zenon DEF SelectNext
  <2>2. CASE goal.slot = 2
    BY <1>24, <2>1, <2>2, Zenon DEF SelectNext, RejectInv, Installing, Replacing
  <2>3. CASE goal.slot # 2
    <3>1. ota'[2] = ota[2] /\ rejected' = rejected
      BY <1>24, <2>3 DEF SelectNext, SetNext, TypeOK, Slots
    <3>2. QED
      BY <2>1, <3>1, Zenon DEF RejectInv, Installing, Replacing
  <2>4. QED
    BY <2>2, <2>3, Zenon
<1>25. CASE RebootFails
  <2>1. /\ pc' = "idle" /\ pc = "reset"
        /\ UNCHANGED <<part, meta, stage, rejected>>
    BY <1>25, Zenon DEF RebootFails, Finish
  <2>2. ota'[2] = ota[2] \/ (goal.from = 2 /\ run # 2)
    BY <1>25 DEF RebootFails, SetNext, TypeOK, Slots
  <2>3. goal.from = 2 /\ run # 2 => rejected = None
    BY <2>1, Zenon DEF RomInv, RejectInv, Rebooting
  <2>4. QED
    BY <2>1, <2>2, <2>3, Zenon DEF RejectInv, Installing, Replacing
<1>26. CASE FinalRecord
  BY <1>26, Zenon DEF FinalRecord, TypeOK, Slots, Copied, FromStage, Record, Converged,
      SameImage, StageIs, RejectInv, Installing, Replacing
<1>27. CASE FinalConfirm
  BY <1>27, Zenon DEF FinalConfirm, ConfirmRunning, TypeOK, Slots, RejectInv, Installing,
      Replacing
<1>28. CASE UNCHANGED vars
  BY <1>28, Zenon DEF vars, RejectInv
<1>29. QED
  BY <1>1, <1>2, <1>3, <1>4, <1>5, <1>6, <1>7, <1>8, <1>9, <1>10, <1>11,
      <1>12, <1>13, <1>14, <1>15, <1>16, <1>17, <1>18, <1>19, <1>20, <1>21,
      <1>22, <1>23, <1>24, <1>25, <1>26, <1>27, <1>28, Zenon
     DEF Next, Step, Command, Fault, Reset, Restart, Rebooted

\* The factory state satisfies the invariant.
LEMMA InitInv == Init => IInv
<1> SUFFICES ASSUME Init PROVE IInv
  BY Zenon
<1> USE PackagesAssumption, MarkersAssumption DEF Init, Slots
<1>1. StageInv /\ MetaInv /\ DataInv /\ DropInv /\ RejectInv
  BY Zenon DEF StageInv, MetaInv, DataInv, DropInv, RejectInv, Staging, Installing,
      Replacing, Invalid
<1>2. RunInv
  BY Zenon DEF RunInv, Recovering, Copying, Installing, Replacing, Finalizing
<1>3. RomInv
  BY DEF RomInv, Chosen, GivenUp, Rebooting, Recovering, Copying, Finalizing
<1>4. QED
  BY <1>1, <1>2, <1>3, TypeInit, Zenon DEF IInv

\* The inductive invariant holds in every state that H2Loader, its commands,
\* the ROM and a reset at any point can lead to.
THEOREM Invariance == Spec => []IInv
<1>1. IInv /\ [Next]_vars => IInv'
  BY TypeStep, StageStep, RunStep, RomStep, MetaStep, DataStep, DropInvStep,
     RejectStep, Zenon DEF IInv
<1>2. QED
  BY InitInv, <1>1, PTL DEF Spec

\* Whenever a reset comes, a metadata record names the image its partition
\* holds, the Stage record the package in the file, and .checksum the tree.
THEOREM RecordsStayTrue == Spec => []RecordsTrue
<1>1. IInv => RecordsTrue
  BY Zenon DEF IInv, MetaInv, StageInv, DataInv, RecordsTrue
<1>2. QED
  BY <1>1, Invariance, PTL

\* A candidate that the ROM gave up is not launched again by AUTO.
THEOREM RejectedStaysDown == Spec => NotRelaunched
<1>1. IInv /\ [Next]_vars
        => [pc = "launch" /\ pc' = "select" => part[2] # rejected]_vars
  <2> SUFFICES ASSUME IInv, pc = "launch" PROVE part[2] # rejected
    BY Zenon
  <2>1. rejected = None
    BY Zenon DEF IInv, RejectInv
  <2>2. part[2] \in Images \cup {Torn}
    BY Zenon DEF IInv, TypeOK, Slots
  <2>3. QED
    BY <2>1, <2>2, MarkersAssumption, Zenon
<1>2. QED
  BY <1>1, Invariance, PTL DEF Spec, NotRelaunched

\* Unless a command or a read error takes it, the Stage goes only when its
\* update is in place.
THEOREM UpdateSourceKept == Spec => StageKept
<1>1. ASSUME IInv, [Next]_vars, stage # None, file = stage,
             <<stage, file>>' # <<stage, file>>
      PROVE  pc \in {"idle", "inspect"} \/ InPlace
  <2> USE DEF slots, boot, staged, data, work, mode
  <2>1. /\ pc \notin Staging \cup {"drop_file", "recover_file", "recover_stage"}
        /\ pc = "drop_stage" => InPlace
    BY <1>1, Zenon DEF IInv, StageInv, DropInv
  <2>2. CASE BeginStage \/ CancelStage \/ InspectFails
    BY <2>2, Zenon DEF BeginStage, CancelStage, InspectFails
  <2>3. CASE DropStage
    BY <2>1, <2>3, Zenon DEF DropStage
  <2>4. ~(BeginPackage \/ Publish \/ CommitStage \/ CommitFails \/ DropFile)
    BY <2>1, Zenon DEF Staging, BeginPackage, Publish, CommitStage, CommitFails, DropFile
  <2>5. ~(RecoverFile \/ RecoverStage)
    BY <2>1, Zenon DEF RecoverFile, RecoverStage
  <2>6. ~(\/ PowerOn \/ Restart \/ Reset \/ Fail \/ BeginTemporary
          \/ (\E p \in Packages : ReceiveOpen(p))
          \/ ReceiveFails \/ Recover \/ RecoverFails)
    BY <1>1, Zenon DEF PowerOn, Restart, Reset, Off, Fail, BeginTemporary, ReceiveOpen,
        ReceiveFails, Recover, RecoverFails
  <2>7. ~(\/ Seed \/ Confirm \/ StartupAgain \/ Converge \/ ConvergeLoader
          \/ StayInLoader \/ Proceed \/ NoLaunch \/ Rebooted \/ SelectNext
          \/ SelectFails \/ RebootFails \/ FinalRecord \/ FinalConfirm)
    BY <1>1, Zenon DEF Seed, Confirm, StartupAgain, Converge, ConvergeLoader,
        StayInLoader, Proceed, NoLaunch, Rebooted, Launch, CopyDone, RebootLoader,
        RebootUpgrade, RebootApp, StartReboot, SelectNext, SelectFails,
        RebootFails, FinalRecord, FinalConfirm
  <2>8. ~(\/ Inspect \/ InvalidateTarget \/ RemoveChecksum \/ ClearData
          \/ FillData \/ WriteChecksum \/ ReplaceData \/ EraseTarget
          \/ WriteTarget \/ RecordTarget \/ InvalidateLoader \/ EraseLoader
          \/ WriteLoader \/ RecordSource \/ RecordLoader)
    BY <1>1, Zenon DEF Inspect, InvalidateTarget, RemoveChecksum, ClearData, FillData,
        WriteChecksum, ReplaceData, EraseTarget, WriteTarget, WriteSegments, WriteApp,
      RecordTarget,
        InvalidateLoader, EraseLoader, WriteLoader, RecordSource, RecordLoader
  <2>9. ~UNCHANGED vars
    BY <1>1, Zenon DEF vars
  <2>10. QED
    BY <1>1, <2>2, <2>3, <2>4, <2>5, <2>6, <2>7, <2>8, <2>9, Zenon
    DEF Next, Step, Command, Fault, Rebooted
<1>2. IInv /\ [Next]_vars =>
        [stage # None /\ file = stage /\ <<stage, file>>' # <<stage, file>>
           => pc \in {"idle", "inspect"} \/ InPlace]_vars
  BY <1>1, Zenon
<1>3. QED
  BY <1>2, Invariance, PTL DEF Spec, StageKept

-----------------------------------------------------------------------------
(* The refinement.                                                         *)

\* While a partition is written, the running, other one is whole, and the ROM
\* would start it unless a failed reboot has left its selection behind.
LEMMA WritesTheOther ==
  ASSUME IInv,
         EraseTarget \/ WriteTarget \/ EraseLoader \/ WriteLoader
  PROVE  /\ run \in Slots /\ part[run] # Torn /\ UNCHANGED Undone
         /\ ~Undone => /\ Chosen(next, GivenUp(ota)) = run
                       /\ UNCHANGED Chosen(next, GivenUp(ota))
<1>1. /\ run \in Slots /\ ota[run] \notin Trial
      /\ UNCHANGED <<next, ota, run>> /\ pc # "reset" /\ pc' # "reset"
  <2>1. CASE EraseTarget \/ WriteTarget
    BY <2>1, Zenon DEF EraseTarget, WriteTarget, WriteSegments, WriteApp,
      IInv, RunInv, Installing, Slots, boot,
        Goto
  <2>2. CASE EraseLoader \/ WriteLoader
    BY <2>2, Zenon DEF EraseLoader, WriteLoader, IInv, RunInv, Copying, Slots, boot, Goto
  <2>3. QED
    BY <2>1, <2>2, Zenon
<1>2. part[run] # Torn /\ UNCHANGED Undone
  BY <1>1 DEF IInv, RunInv, Undone, Slots
<1>3. ASSUME ~Undone
      PROVE  /\ Chosen(next, GivenUp(ota)) = run
             /\ UNCHANGED Chosen(next, GivenUp(ota))
  <2>1. next = run
    BY <1>1, <1>3 DEF Undone, Slots
  <2>2. \A s \in Slots : ota[s] # "new"
    BY <2>1, Zenon DEF IInv, RomInv
  <2>3. ota[run] # "aborted" \/ (run = 1 /\ ota[2] = "aborted")
    BY <1>1, <2>2 DEF IInv, RomInv, Slots
  <2>4. Chosen(next, GivenUp(ota)) = run
    BY <1>1, <2>1, <2>2, <2>3 DEF Chosen, GivenUp, Trial, Other, Slots
  <2>5. UNCHANGED GivenUp(ota)
    BY <1>1, <2>2, Zenon DEF GivenUp
  <2>6. QED
    BY <1>1, <2>4, <2>5, Zenon DEF Chosen
<1>4. QED
  BY <1>1, <1>2, <1>3, Zenon

\* The ROM starts one of the two partitions.
LEMMA ChosenSlot == \A n \in Slots : \A o : Chosen(n, o) \in Slots
BY DEF Chosen, Other, Slots

\* H2Loader implements BootContract: the partition that the ROM would start is
\* never written, and only a whole image is chosen.
THEOREM Refinement == Spec => ContractSpec
<1>1. Init => Contract!Init
  BY Zenon DEF Init, Contract!Init, Contract!Slots, Slots, Chosen, GivenUp, Undone
<1>2. ASSUME IInv, IInv', [Next]_vars
      PROVE  [Contract!Next]_Contract!vars
  <2> USE DEF slots, boot, staged, data, work, mode, Slots, Contract!Slots
  <2>0. /\ Chosen(next, GivenUp(ota))' \in Slots
        /\ part'[Chosen(next, GivenUp(ota))'] # Torn
    <3>1. next' \in Slots
      BY <1>2, Zenon DEF IInv, TypeOK
    <3>2. Chosen(next, GivenUp(ota))' \in Slots
      BY <3>1, ChosenSlot, Zenon
    <3>3. part'[Chosen(next, GivenUp(ota))'] # Torn
      BY <1>2, Zenon DEF IInv, RomInv
    <3>4. QED
      BY <3>2, <3>3, Zenon
  <2>1. CASE UNCHANGED part
    <3>1. Contract!Choose(Chosen(next, GivenUp(ota))')
      <4>1. Undone' \in BOOLEAN
        BY Zenon DEF Undone
      <4>2. QED
        BY <2>0, <2>1, <4>1, Zenon DEF Contract!Choose
    <3>2. QED
      BY <2>0, <3>1, Zenon DEF Contract!Next
  <2>2. CASE EraseTarget \/ WriteTarget
    <3>1. run = 1
      BY <1>2, <2>2, Zenon DEF EraseTarget, WriteTarget, WriteSegments, WriteApp,
      IInv, RunInv, Installing
    <3>2. \E i \in Images \cup {Torn} : part' = [part EXCEPT ![2] = i]
      BY <1>2, <2>2, PackagesAssumption, Zenon
      DEF EraseTarget, WriteTarget, WriteSegments, WriteApp,
      IInv, TypeOK, StageInv, Installing
    <3>3. /\ part[1] # Torn /\ UNCHANGED Undone
          /\ ~Undone => /\ Chosen(next, GivenUp(ota)) = 1
                        /\ UNCHANGED Chosen(next, GivenUp(ota))
      BY <1>2, <2>2, <3>1, WritesTheOther, Zenon
    <3>4. Contract!Write(2)
      <4>1. /\ part[3 - 2] # Torn
            /\ ~Undone => 2 # Chosen(next, GivenUp(ota))
        BY <3>3
      <4>2. QED
        BY <2>0, <3>2, <3>3, <4>1, Zenon DEF Contract!Write
    <3>5. QED
      BY <3>4, Zenon DEF Contract!Next
  <2>3. CASE EraseLoader \/ WriteLoader
    <3>1. run = 2
      BY <1>2, <2>3, Zenon DEF EraseLoader, WriteLoader, IInv, RunInv, Copying
    <3>2. \E i \in Images \cup {Torn} : part' = [part EXCEPT ![1] = i]
      BY <1>2, <2>3, PackagesAssumption, Zenon
      DEF EraseLoader, WriteLoader, IInv, TypeOK, StageInv, Installing
    <3>3. /\ part[2] # Torn /\ UNCHANGED Undone
          /\ ~Undone => /\ Chosen(next, GivenUp(ota)) = 2
                        /\ UNCHANGED Chosen(next, GivenUp(ota))
      BY <1>2, <2>3, <3>1, WritesTheOther, Zenon
    <3>4. Contract!Write(1)
      <4>1. /\ part[3 - 1] # Torn
            /\ ~Undone => 1 # Chosen(next, GivenUp(ota))
        BY <3>3
      <4>2. QED
        BY <2>0, <3>2, <3>3, <4>1, Zenon DEF Contract!Write
    <3>5. QED
      BY <3>4, Zenon DEF Contract!Next
  <2>4. ASSUME PowerOn \/ Restart \/ Command \/ Fault PROVE UNCHANGED part
    BY <2>4, Zenon DEF PowerOn, Restart, Reset, Off, Command, Fault, BeginStage,
        CancelStage, StartupAgain, RebootLoader, RebootUpgrade, RebootApp,
        StartReboot, Fail, ReceiveFails, CommitFails, RecoverFails,
        InspectFails, SelectFails, RebootFails
  <2>5. ASSUME \/ BeginTemporary \/ BeginPackage
               \/ (\E p \in Packages : ReceiveOpen(p))
               \/ Publish \/ CommitStage \/ DropStage \/ DropFile \/ Recover
               \/ RecoverFile \/ RecoverStage \/ Seed \/ Confirm \/ Converge
               \/ ConvergeLoader \/ StayInLoader \/ Proceed
        PROVE  UNCHANGED part
    BY <2>5, Zenon DEF BeginTemporary, BeginPackage, ReceiveOpen, Publish,
        CommitStage, DropStage, DropFile, Recover, RecoverFile, RecoverStage,
        Seed, Confirm, Converge, ConvergeLoader, StayInLoader, Proceed
  <2>6. ASSUME \/ Inspect \/ InvalidateTarget \/ RemoveChecksum \/ ClearData
               \/ FillData \/ WriteChecksum \/ ReplaceData \/ RecordTarget
               \/ NoLaunch \/ Launch \/ InvalidateLoader \/ RecordSource
               \/ RecordLoader \/ CopyDone \/ SelectNext
               \/ FinalRecord \/ FinalConfirm \/ UNCHANGED vars
        PROVE  UNCHANGED part
    BY <2>6, Zenon DEF Inspect, InvalidateTarget, RemoveChecksum, ClearData, FillData,
        WriteChecksum, ReplaceData, RecordTarget, NoLaunch, Launch, StartReboot,
        InvalidateLoader, RecordSource, RecordLoader, CopyDone, SelectNext,
        FinalRecord, FinalConfirm, vars
  <2>7. QED
    BY <1>2, <2>1, <2>2, <2>3, <2>4, <2>5, <2>6, Zenon DEF Next, Step
<1>3. QED
  BY <1>1, <1>2, Invariance, PTL DEF Spec, ContractSpec, Contract!Spec

==============================================================================
