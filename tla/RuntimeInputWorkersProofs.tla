---------------------- MODULE RuntimeInputWorkersProofs ----------------------
(***************************************************************************)
(* The lifecycle of the input workers for any number of starts, failed     *)
(* joins and faults, with or without an NFC reader.  The facts about the   *)
(* tasks hold until the path that takes back a start has ignored a failed  *)
(* join (orphaned).                                                        *)
(***************************************************************************)
EXTENDS RuntimeInputWorkers, TLAPS

(* A task that runs has its handle.                                         *)
HandlesKept ==
  ~orphaned =>
    \A t \in Live : t = InputTask(inputTask) \/ t = NfcTask(nfcTask)

(* Which handles are set, by the place of the owner.                        *)
OwnerHandles ==
  /\ owner = "idle" /\ phase = "stopped" => inputTask = 0 /\ nfcTask = 0
  /\ owner \in {"frame", "startInput", "joined", "free", "freed"} =>
       inputTask = 0 /\ nfcTask = 0
  /\ owner \in {"startNfc", "undo"} => nfcTask = 0 /\ hasNfc
  /\ owner = "joinInput" => nfcTask = 0
  /\ owner \in {"request", "joinNfc", "joinInput"} =>
       saved \in {"running", "faulted"}
  /\ owner \in {"frame", "startInput", "startNfc"} => starts # 0
  /\ owner \in {"startInput", "startNfc"} => phase \in {"running", "faulted"}
  /\ ~hasNfc => nfcTask = 0 /\ ~orphaned
  /\ freed => owner = "freed"

(* The fault is latched before the queue is closed, and a start that has no *)
(* task yet has seen no fault.                                              *)
FaultLatched ==
  /\ ~queueOpen => result = "fault"
  /\ \A t \in Tasks : taskPc[t] \in {"request", "phase", "close"} =>
                        result = "fault"
  /\ ~orphaned /\ owner \in {"frame", "startInput"} => result = "ok"

(* Without an NFC task: from the release on nobody samples the button.      *)
Released ==
  ~hasNfc =>
    /\ result = "fault" =>
         \A t \in Tasks : taskPc[t] \in {"unborn", "request", "phase", "close",
                                         "done"}
    /\ result = "fault" /\ ~skipped => ~pressed
    /\ \A t \in Tasks : taskPc[t] = "latch" /\ ~skipped => ~pressed

IInv == TypeOK /\ HandlesKept /\ OwnerHandles /\ FaultLatched /\ Released

------------------------------------------------------------------------------
(* Handle 0 names no task, and a task without its handle does not run.      *)
LEMMA NoHandleNoTask ==
  ASSUME TypeOK, HandlesKept, ~orphaned, inputTask = 0, nfcTask = 0
  PROVE  Live = {}
<1>1. \A t \in Tasks : t # InputTask(0) /\ t # NfcTask(0)
  BY StartsAssumption DEF Tasks, InputTask, NfcTask
<1> QED
  BY <1>1 DEF HandlesKept, Live

(* The initial state satisfies the invariant.                               *)
LEMMA InitInv == Init => IInv
<1> SUFFICES ASSUME Init PROVE IInv
  OBVIOUS
<1>1. TypeOK
  <2>1. 0 \in 0 .. MaxStarts /\ 0 \in 0 .. MaxJoinFailures
    BY StartsAssumption, FailuresAssumption
  <2> QED
    BY Zenon, <2>1
  DEF Init, TypeOK, Phases, OwnerPcs, TaskPcs
<1>2. HandlesKept
  BY DEF Init, HandlesKept, Live
<1>3. OwnerHandles /\ FaultLatched /\ Released
  BY DEF Init, OwnerHandles, FaultLatched, Released
<1> QED
  BY <1>1, <1>2, <1>3 DEF IInv

(* Every step preserves the invariant.                                      *)
LEMMA StepInv == IInv /\ [Next]_vars => IInv'
<1> SUFFICES ASSUME IInv, [Next]_vars PROVE IInv'
  OBVIOUS
<1> USE StartsAssumption, FailuresAssumption
<1>0. TypeOK /\ HandlesKept /\ OwnerHandles /\ FaultLatched /\ Released
  BY DEF IInv
<1>z. /\ 0 \in 0 .. MaxStarts
      /\ \A n \in 0 .. MaxStarts : n < MaxStarts => n + 1 \in 0 .. MaxStarts
      /\ \A n \in 0 .. MaxStarts : n # 0 => n \in 1 .. MaxStarts
      /\ \A n \in 0 .. MaxJoinFailures :
           n < MaxJoinFailures => n + 1 \in 0 .. MaxJoinFailures
  OBVIOUS
<1>q. ~orphaned /\ inputTask = 0 /\ nfcTask = 0 => Live = {}
  BY <1>0, NoHandleNoTask
<1>u. CASE UNCHANGED vars
  BY <1>0, <1>u DEF IInv, TypeOK, HandlesKept, OwnerHandles, FaultLatched,
     Released, Live, vars
<1>1. CASE StartBegin
  <2>1. TypeOK'
    <3>1. /\ starts' \in 0 .. MaxStarts /\ joinFailures' \in 0 .. MaxJoinFailures
          /\ inputTask' \in 0 .. MaxStarts /\ nfcTask' \in 0 .. MaxStarts
      BY <1>0, <1>z, <1>1 DEF StartBegin, taskVars, TypeOK
    <3>2. /\ phase' \in Phases /\ saved' \in Phases
          /\ result' \in {"ok", "fault"}
          /\ consumer' \in {"run", "wait", "left"} /\ owner' \in OwnerPcs
      BY <1>0, <1>1 DEF StartBegin, taskVars, TypeOK, Phases, OwnerPcs
    <3>3. taskPc' \in [Tasks -> TaskPcs]
      BY <1>0, <1>1 DEF StartBegin, taskVars, TypeOK
    <3>4. /\ stop' \in BOOLEAN /\ pressed' \in BOOLEAN /\ skipped' \in BOOLEAN
          /\ queueOpen' \in BOOLEAN /\ wake' \in BOOLEAN
          /\ destroying' \in BOOLEAN /\ freed' \in BOOLEAN
          /\ hasNfc' \in BOOLEAN /\ orphaned' \in BOOLEAN
      BY <1>0, <1>1, Zenon DEF StartBegin, taskVars, TypeOK
    <3> QED
      BY <3>1, <3>2, <3>3, <3>4 DEF TypeOK
  <2>2. HandlesKept' /\ OwnerHandles' /\ FaultLatched' /\ Released'
    BY <1>0, <1>q, <1>z, <1>1
    DEF StartBegin, taskVars, ownerVars,
        TypeOK, HandlesKept, OwnerHandles, FaultLatched, Released, Live
  <2> QED
    BY <2>1, <2>2 DEF IInv
<1>2. CASE StartFrame
  <2>1. TypeOK'
    BY <1>0, <1>z, <1>2
    DEF StartFrame, Sample, Announce, taskVars, ownerVars, TypeOK,
        Phases, OwnerPcs, TaskPcs
  <2>2. HandlesKept' /\ OwnerHandles' /\ FaultLatched' /\ Released'
    BY <1>0, <1>q, <1>z, <1>2
    DEF StartFrame, Sample, Announce, taskVars, ownerVars,
        TypeOK, HandlesKept, OwnerHandles, FaultLatched, Released, Live
  <2> QED
    BY <2>1, <2>2 DEF IInv
<1>3. CASE StartInputTask
  <2>1. TypeOK'
    BY <1>0, <1>z, <1>3
    DEF StartInputTask, Go, taskVars, ownerVars, TypeOK,
        Phases, OwnerPcs, TaskPcs
  <2>2. HandlesKept' /\ OwnerHandles' /\ FaultLatched' /\ Released'
    BY <1>0, <1>q, <1>z, <1>3
    DEF StartInputTask, Go, taskVars, ownerVars,
        TypeOK, HandlesKept, OwnerHandles, FaultLatched, Released, Live, Tasks,
        InputTask, NfcTask
  <2> QED
    BY <2>1, <2>2 DEF IInv
<1>4. CASE StartNfcTask
  <2>1. TypeOK'
    <3>1. /\ starts' \in 0 .. MaxStarts /\ joinFailures' \in 0 .. MaxJoinFailures
          /\ inputTask' \in 0 .. MaxStarts /\ nfcTask' \in 0 .. MaxStarts
      BY <1>0, <1>z, <1>4 DEF StartNfcTask, Go, taskVars, ownerVars, TypeOK
    <3>2. /\ phase' \in Phases /\ saved' \in Phases
          /\ result' \in {"ok", "fault"}
          /\ consumer' \in {"run", "wait", "left"} /\ owner' \in OwnerPcs
      BY <1>0, <1>4 DEF StartNfcTask, Go, taskVars, ownerVars, TypeOK,
         Phases, OwnerPcs
    <3>3. taskPc' \in [Tasks -> TaskPcs]
      BY <1>0, <1>z, <1>4 DEF StartNfcTask, Go, taskVars, ownerVars, TypeOK,
         TaskPcs
    <3>4. /\ stop' \in BOOLEAN /\ pressed' \in BOOLEAN /\ skipped' \in BOOLEAN
          /\ queueOpen' \in BOOLEAN /\ wake' \in BOOLEAN
          /\ destroying' \in BOOLEAN /\ freed' \in BOOLEAN
          /\ hasNfc' \in BOOLEAN /\ orphaned' \in BOOLEAN
      BY <1>0, <1>4, Zenon DEF StartNfcTask, Go, taskVars, ownerVars, TypeOK
    <3> QED
      BY <3>1, <3>2, <3>3, <3>4 DEF TypeOK
  <2>2. HandlesKept' /\ OwnerHandles' /\ FaultLatched' /\ Released'
    BY <1>0, <1>q, <1>z, <1>4
    DEF StartNfcTask, Go, taskVars, ownerVars,
        TypeOK, HandlesKept, OwnerHandles, FaultLatched, Released, Live, Tasks,
        InputTask, NfcTask
  <2> QED
    BY <2>1, <2>2 DEF IInv
<1>5. CASE StartUndo
  <2>1. TypeOK'
    <3>1. /\ starts' \in 0 .. MaxStarts /\ joinFailures' \in 0 .. MaxJoinFailures
          /\ inputTask' \in 0 .. MaxStarts /\ nfcTask' \in 0 .. MaxStarts
      BY <1>0, <1>z, <1>5 DEF StartUndo, JoinOk, JoinFailed, taskVars,
         ownerVars, TypeOK
    <3>2. /\ phase' \in Phases /\ saved' \in Phases
          /\ result' \in {"ok", "fault"}
          /\ consumer' \in {"run", "wait", "left"} /\ owner' \in OwnerPcs
      BY <1>0, <1>5 DEF StartUndo, JoinOk, JoinFailed, taskVars, ownerVars,
         TypeOK, Phases, OwnerPcs
    <3>3. taskPc' \in [Tasks -> TaskPcs]
      BY <1>0, <1>z, <1>5 DEF StartUndo, JoinOk, JoinFailed, taskVars,
         ownerVars, TypeOK, TaskPcs
    <3>4. /\ stop' \in BOOLEAN /\ pressed' \in BOOLEAN /\ skipped' \in BOOLEAN
          /\ queueOpen' \in BOOLEAN /\ wake' \in BOOLEAN
          /\ destroying' \in BOOLEAN /\ freed' \in BOOLEAN
          /\ hasNfc' \in BOOLEAN /\ orphaned' \in BOOLEAN
      BY <1>0, <1>5, Zenon DEF StartUndo, JoinOk, JoinFailed, taskVars,
         ownerVars, TypeOK
    <3> QED
      BY <3>1, <3>2, <3>3, <3>4 DEF TypeOK
  <2>2. HandlesKept' /\ OwnerHandles' /\ FaultLatched' /\ Released'
    BY <1>0, <1>q, <1>z, <1>5
    DEF StartUndo, JoinOk, JoinFailed, taskVars, ownerVars,
        TypeOK, HandlesKept, OwnerHandles, FaultLatched, Released, Live, Tasks,
        InputTask, NfcTask
  <2> QED
    BY <2>1, <2>2 DEF IInv
<1>6. CASE StopBegin
  <2>1. TypeOK'
    BY <1>0, <1>z, <1>6
    DEF StopBegin, taskVars, ownerVars, TypeOK,
        Phases, OwnerPcs, TaskPcs
  <2>2. HandlesKept' /\ OwnerHandles' /\ FaultLatched' /\ Released'
    BY <1>0, <1>q, <1>z, <1>6
    DEF StopBegin, taskVars, ownerVars,
        TypeOK, HandlesKept, OwnerHandles, FaultLatched, Released, Live
  <2> QED
    BY <2>1, <2>2 DEF IInv
<1>7. CASE StopRequest
  <2>1. TypeOK'
    BY <1>0, <1>z, <1>7
    DEF StopRequest, taskVars, ownerVars, TypeOK,
        Phases, OwnerPcs, TaskPcs
  <2>2. HandlesKept' /\ OwnerHandles' /\ FaultLatched' /\ Released'
    BY <1>0, <1>q, <1>z, <1>7
    DEF StopRequest, taskVars, ownerVars,
        TypeOK, HandlesKept, OwnerHandles, FaultLatched, Released, Live
  <2> QED
    BY <2>1, <2>2 DEF IInv
<1>8. CASE JoinNfc
  <2>1. TypeOK'
    BY <1>0, <1>z, <1>8
    DEF JoinNfc, JoinOk, JoinFailed, taskVars, ownerVars, TypeOK,
        Phases, OwnerPcs, TaskPcs
  <2>2. HandlesKept' /\ OwnerHandles' /\ FaultLatched' /\ Released'
    BY <1>0, <1>q, <1>z, <1>8
    DEF JoinNfc, JoinOk, JoinFailed, taskVars, ownerVars,
        TypeOK, HandlesKept, OwnerHandles, FaultLatched, Released, Live, Tasks,
        InputTask, NfcTask
  <2> QED
    BY <2>1, <2>2 DEF IInv
<1>9. CASE JoinInput
  <2>1. TypeOK'
    BY <1>0, <1>z, <1>9
    DEF JoinInput, JoinOk, JoinFailed, taskVars, ownerVars, TypeOK,
        Phases, OwnerPcs, TaskPcs
  <2>2. HandlesKept' /\ OwnerHandles' /\ FaultLatched' /\ Released'
    BY <1>0, <1>q, <1>z, <1>9
    DEF JoinInput, JoinOk, JoinFailed, taskVars, ownerVars,
        TypeOK, HandlesKept, OwnerHandles, FaultLatched, Released, Live, Tasks,
        InputTask, NfcTask
  <2> QED
    BY <2>1, <2>2 DEF IInv
<1>10. CASE StopFails
  <2>1. TypeOK'
    BY <1>0, <1>z, <1>10
    DEF StopFails, JoinFailed, taskVars, ownerVars, TypeOK,
        Phases, OwnerPcs, TaskPcs
  <2>2. HandlesKept' /\ OwnerHandles' /\ FaultLatched' /\ Released'
    BY <1>0, <1>q, <1>z, <1>10
    DEF StopFails, JoinFailed, taskVars, ownerVars,
        TypeOK, HandlesKept, OwnerHandles, FaultLatched, Released, Live
  <2> QED
    BY <2>1, <2>2 DEF IInv
<1>11. CASE StopDone
  <2>1. TypeOK'
    <3>1. /\ starts' \in 0 .. MaxStarts /\ joinFailures' \in 0 .. MaxJoinFailures
          /\ inputTask' \in 0 .. MaxStarts /\ nfcTask' \in 0 .. MaxStarts
      BY <1>0, <1>z, <1>11 DEF StopDone, taskVars, TypeOK
    <3>2. /\ phase' \in Phases /\ saved' \in Phases
          /\ result' \in {"ok", "fault"}
          /\ consumer' \in {"run", "wait", "left"} /\ owner' \in OwnerPcs
      BY <1>0, <1>11 DEF StopDone, taskVars, TypeOK, Phases, OwnerPcs
    <3>3. taskPc' \in [Tasks -> TaskPcs]
      BY <1>0, <1>11 DEF StopDone, taskVars, TypeOK
    <3>4. /\ stop' \in BOOLEAN /\ pressed' \in BOOLEAN /\ skipped' \in BOOLEAN
          /\ queueOpen' \in BOOLEAN /\ wake' \in BOOLEAN
          /\ destroying' \in BOOLEAN /\ freed' \in BOOLEAN
          /\ hasNfc' \in BOOLEAN /\ orphaned' \in BOOLEAN
      BY <1>0, <1>11, Zenon DEF StopDone, taskVars, TypeOK
    <3> QED
      BY <3>1, <3>2, <3>3, <3>4 DEF TypeOK
  <2>2. HandlesKept' /\ OwnerHandles' /\ FaultLatched' /\ Released'
    BY <1>0, <1>q, <1>z, <1>11
    DEF StopDone, taskVars, ownerVars,
        TypeOK, HandlesKept, OwnerHandles, FaultLatched, Released, Live
  <2> QED
    BY <2>1, <2>2 DEF IInv
<1>12. CASE DestroyStopped
  <2>1. TypeOK'
    BY <1>0, <1>z, <1>12
    DEF DestroyStopped, taskVars, ownerVars, TypeOK,
        Phases, OwnerPcs, TaskPcs
  <2>2. HandlesKept' /\ OwnerHandles' /\ FaultLatched' /\ Released'
    BY <1>0, <1>q, <1>z, <1>12
    DEF DestroyStopped, taskVars, ownerVars,
        TypeOK, HandlesKept, OwnerHandles, FaultLatched, Released, Live
  <2> QED
    BY <2>1, <2>2 DEF IInv
<1>13. CASE Free
  <2>1. TypeOK'
    BY <1>0, <1>z, <1>13
    DEF Free, taskVars, ownerVars, TypeOK,
        Phases, OwnerPcs, TaskPcs
  <2>2. HandlesKept' /\ OwnerHandles' /\ FaultLatched' /\ Released'
    BY <1>0, <1>q, <1>z, <1>13
    DEF Free, taskVars, ownerVars,
        TypeOK, HandlesKept, OwnerHandles, FaultLatched, Released, Live
  <2> QED
    BY <2>1, <2>2 DEF IInv
<1>14. CASE ConsumerWait
  <2>1. TypeOK'
    BY <1>0, <1>z, <1>14
    DEF ConsumerWait, taskVars, ownerVars, TypeOK,
        Phases, OwnerPcs, TaskPcs
  <2>2. HandlesKept' /\ OwnerHandles' /\ FaultLatched' /\ Released'
    BY <1>0, <1>q, <1>z, <1>14
    DEF ConsumerWait, taskVars, ownerVars,
        TypeOK, HandlesKept, OwnerHandles, FaultLatched, Released, Live
  <2> QED
    BY <2>1, <2>2 DEF IInv
<1>15. CASE ConsumerWoken
  <2>1. TypeOK'
    <3>1. /\ starts' \in 0 .. MaxStarts /\ joinFailures' \in 0 .. MaxJoinFailures
          /\ inputTask' \in 0 .. MaxStarts /\ nfcTask' \in 0 .. MaxStarts
      BY <1>0, <1>z, <1>15 DEF ConsumerWoken, taskVars, ownerVars, TypeOK
    <3>2. /\ phase' \in Phases /\ saved' \in Phases
          /\ result' \in {"ok", "fault"}
          /\ consumer' \in {"run", "wait", "left"} /\ owner' \in OwnerPcs
      BY <1>0, <1>15 DEF ConsumerWoken, taskVars, ownerVars, TypeOK, Phases,
         OwnerPcs
    <3>3. taskPc' \in [Tasks -> TaskPcs]
      BY <1>0, <1>z, <1>15 DEF ConsumerWoken, taskVars, ownerVars, TypeOK,
         TaskPcs
    <3>4. /\ stop' \in BOOLEAN /\ pressed' \in BOOLEAN /\ skipped' \in BOOLEAN
          /\ queueOpen' \in BOOLEAN /\ wake' \in BOOLEAN
          /\ destroying' \in BOOLEAN /\ freed' \in BOOLEAN
          /\ hasNfc' \in BOOLEAN /\ orphaned' \in BOOLEAN
      BY <1>0, <1>15, Zenon DEF ConsumerWoken, taskVars, ownerVars, TypeOK
    <3> QED
      BY <3>1, <3>2, <3>3, <3>4 DEF TypeOK
  <2>2. HandlesKept' /\ OwnerHandles' /\ FaultLatched' /\ Released'
    BY <1>0, <1>q, <1>z, <1>15
    DEF ConsumerWoken, taskVars, ownerVars,
        TypeOK, HandlesKept, OwnerHandles, FaultLatched, Released, Live
  <2> QED
    BY <2>1, <2>2 DEF IInv
<1>16. CASE ConsumerLeaves
  <2>1. TypeOK'
    BY <1>0, <1>z, <1>16
    DEF ConsumerLeaves, taskVars, ownerVars, TypeOK,
        Phases, OwnerPcs, TaskPcs
  <2>2. HandlesKept' /\ OwnerHandles' /\ FaultLatched' /\ Released'
    BY <1>0, <1>q, <1>z, <1>16
    DEF ConsumerLeaves, taskVars, ownerVars,
        TypeOK, HandlesKept, OwnerHandles, FaultLatched, Released, Live
  <2> QED
    BY <2>1, <2>2 DEF IInv
<1>17. ASSUME NEW t \in Tasks, Loop(t) PROVE IInv'
  <2>1. TypeOK'
    BY <1>0, <1>z, <1>17
    DEF Loop, Go, taskVars, ownerVars, TypeOK,
        Phases, OwnerPcs, TaskPcs
  <2>2. HandlesKept' /\ OwnerHandles' /\ FaultLatched' /\ Released'
    BY <1>0, <1>q, <1>z, <1>17
    DEF Loop, Go, taskVars, ownerVars,
        TypeOK, HandlesKept, OwnerHandles, FaultLatched, Released, Live, Tasks,
        InputTask, NfcTask
  <2> QED
    BY <2>1, <2>2 DEF IInv
<1>18. ASSUME NEW t \in Tasks, Poll(t) PROVE IInv'
  <2>1. TypeOK'
    BY <1>0, <1>z, <1>18
    DEF Poll, Go, Sample, Announce, taskVars, ownerVars, TypeOK,
        Phases, OwnerPcs, TaskPcs
  <2>2. HandlesKept' /\ OwnerHandles' /\ FaultLatched' /\ Released'
    BY <1>0, <1>q, <1>z, <1>18
    DEF Poll, Go, Sample, Announce, taskVars, ownerVars,
        TypeOK, HandlesKept, OwnerHandles, FaultLatched, Released, Live, Tasks,
        InputTask, NfcTask
  <2> QED
    BY <2>1, <2>2 DEF IInv
<1>19. ASSUME NEW t \in Tasks, Check(t) PROVE IInv'
  <2>1. TypeOK'
    BY <1>0, <1>z, <1>19
    DEF Check, Go, taskVars, ownerVars, TypeOK,
        Phases, OwnerPcs, TaskPcs
  <2>2. HandlesKept' /\ OwnerHandles' /\ FaultLatched' /\ Released'
    BY <1>0, <1>q, <1>z, <1>19
    DEF Check, Go, taskVars, ownerVars,
        TypeOK, HandlesKept, OwnerHandles, FaultLatched, Released, Live, Tasks,
        InputTask, NfcTask
  <2> QED
    BY <2>1, <2>2 DEF IInv
<1>20. ASSUME NEW t \in Tasks, Sleep(t) PROVE IInv'
  <2>1. TypeOK'
    BY <1>0, <1>z, <1>20
    DEF Sleep, Go, taskVars, ownerVars, TypeOK,
        Phases, OwnerPcs, TaskPcs
  <2>2. HandlesKept' /\ OwnerHandles' /\ FaultLatched' /\ Released'
    BY <1>0, <1>q, <1>z, <1>20
    DEF Sleep, Go, taskVars, ownerVars,
        TypeOK, HandlesKept, OwnerHandles, FaultLatched, Released, Live, Tasks,
        InputTask, NfcTask
  <2> QED
    BY <2>1, <2>2 DEF IInv
<1>21. ASSUME NEW t \in Tasks, FaultRelease(t) PROVE IInv'
  <2>1. TypeOK'
    <3>1. /\ starts' \in 0 .. MaxStarts /\ joinFailures' \in 0 .. MaxJoinFailures
          /\ inputTask' \in 0 .. MaxStarts /\ nfcTask' \in 0 .. MaxStarts
      BY <1>0, <1>z, <1>21 DEF FaultRelease, Announce, Go, taskVars, ownerVars, TypeOK
    <3>2. /\ phase' \in Phases /\ saved' \in Phases
          /\ result' \in {"ok", "fault"}
          /\ consumer' \in {"run", "wait", "left"} /\ owner' \in OwnerPcs
      BY <1>0, <1>21 DEF FaultRelease, Announce, Go, taskVars, ownerVars, TypeOK,
         Phases, OwnerPcs
    <3>3. taskPc' \in [Tasks -> TaskPcs]
      BY <1>0, <1>z, <1>21 DEF FaultRelease, Announce, Go, taskVars, ownerVars, TypeOK,
         TaskPcs
    <3>4. /\ stop' \in BOOLEAN /\ pressed' \in BOOLEAN /\ skipped' \in BOOLEAN
          /\ queueOpen' \in BOOLEAN /\ wake' \in BOOLEAN
          /\ destroying' \in BOOLEAN /\ freed' \in BOOLEAN
          /\ hasNfc' \in BOOLEAN /\ orphaned' \in BOOLEAN
      BY <1>0, <1>21, Zenon DEF FaultRelease, Announce, Go, taskVars, ownerVars, TypeOK
    <3> QED
      BY <3>1, <3>2, <3>3, <3>4 DEF TypeOK
  <2>2. HandlesKept' /\ OwnerHandles' /\ FaultLatched' /\ Released'
    BY <1>0, <1>q, <1>z, <1>21
    DEF FaultRelease, Announce, Go, taskVars, ownerVars,
        TypeOK, HandlesKept, OwnerHandles, FaultLatched, Released, Live, Tasks,
        InputTask, NfcTask
  <2> QED
    BY <2>1, <2>2 DEF IInv
<1>22. ASSUME NEW t \in Tasks, FaultLatch(t) PROVE IInv'
  <2>1. TypeOK'
    BY <1>0, <1>z, <1>22
    DEF FaultLatch, Go, taskVars, ownerVars, TypeOK,
        Phases, OwnerPcs, TaskPcs
  <2>2. HandlesKept' /\ OwnerHandles' /\ FaultLatched' /\ Released'
    BY <1>0, <1>q, <1>z, <1>22
    DEF FaultLatch, Go, taskVars, ownerVars,
        TypeOK, HandlesKept, OwnerHandles, FaultLatched, Released, Live, Tasks,
        InputTask, NfcTask
  <2> QED
    BY <2>1, <2>2 DEF IInv
<1>23. ASSUME NEW t \in Tasks, FaultRequestStop(t) PROVE IInv'
  <2>1. TypeOK'
    BY <1>0, <1>z, <1>23
    DEF FaultRequestStop, Go, taskVars, ownerVars, TypeOK,
        Phases, OwnerPcs, TaskPcs
  <2>2. HandlesKept' /\ OwnerHandles' /\ FaultLatched' /\ Released'
    BY <1>0, <1>q, <1>z, <1>23
    DEF FaultRequestStop, Go, taskVars, ownerVars,
        TypeOK, HandlesKept, OwnerHandles, FaultLatched, Released, Live, Tasks,
        InputTask, NfcTask
  <2> QED
    BY <2>1, <2>2 DEF IInv
<1>24. ASSUME NEW t \in Tasks, FaultPhase(t) PROVE IInv'
  <2>1. TypeOK'
    BY <1>0, <1>z, <1>24
    DEF FaultPhase, Go, taskVars, ownerVars, TypeOK,
        Phases, OwnerPcs, TaskPcs
  <2>2. HandlesKept' /\ OwnerHandles' /\ FaultLatched' /\ Released'
    BY <1>0, <1>q, <1>z, <1>24
    DEF FaultPhase, Go, taskVars, ownerVars,
        TypeOK, HandlesKept, OwnerHandles, FaultLatched, Released, Live, Tasks,
        InputTask, NfcTask
  <2> QED
    BY <2>1, <2>2 DEF IInv
<1>25. ASSUME NEW t \in Tasks, FaultClose(t) PROVE IInv'
  <2>1. TypeOK'
    <3>1. /\ starts' \in 0 .. MaxStarts /\ joinFailures' \in 0 .. MaxJoinFailures
          /\ inputTask' \in 0 .. MaxStarts /\ nfcTask' \in 0 .. MaxStarts
      BY <1>0, <1>z, <1>25 DEF FaultClose, Go, taskVars, ownerVars, TypeOK
    <3>2. /\ phase' \in Phases /\ saved' \in Phases
          /\ result' \in {"ok", "fault"}
          /\ consumer' \in {"run", "wait", "left"} /\ owner' \in OwnerPcs
      BY <1>0, <1>25 DEF FaultClose, Go, taskVars, ownerVars, TypeOK, Phases,
         OwnerPcs
    <3>3. taskPc' \in [Tasks -> TaskPcs]
      BY <1>0, <1>z, <1>25 DEF FaultClose, Go, taskVars, ownerVars, TypeOK,
         TaskPcs
    <3>4. /\ stop' \in BOOLEAN /\ pressed' \in BOOLEAN /\ skipped' \in BOOLEAN
          /\ queueOpen' \in BOOLEAN /\ wake' \in BOOLEAN
          /\ destroying' \in BOOLEAN /\ freed' \in BOOLEAN
          /\ hasNfc' \in BOOLEAN /\ orphaned' \in BOOLEAN
      BY <1>0, <1>25, Zenon DEF FaultClose, Go, taskVars, ownerVars, TypeOK
    <3> QED
      BY <3>1, <3>2, <3>3, <3>4 DEF TypeOK
  <2>2. HandlesKept' /\ OwnerHandles' /\ FaultLatched' /\ Released'
    BY <1>0, <1>q, <1>z, <1>25
    DEF FaultClose, Go, taskVars, ownerVars,
        TypeOK, HandlesKept, OwnerHandles, FaultLatched, Released, Live, Tasks,
        InputTask, NfcTask
  <2> QED
    BY <2>1, <2>2 DEF IInv
<1> QED
  BY <1>u, <1>1, <1>2, <1>3, <1>4, <1>5, <1>6, <1>7, <1>8, <1>9, <1>10,
     <1>11, <1>12, <1>13, <1>14, <1>15, <1>16, <1>17, <1>18, <1>19, <1>20,
     <1>21, <1>22, <1>23, <1>24, <1>25
  DEF Next, Owner, Task, Consumer, Finished

------------------------------------------------------------------------------
(* IInv is an invariant.                                                    *)
THEOREM Invariance == Spec => []IInv
<1>1. Init => IInv
  BY InitInv
<1>2. IInv /\ [Next]_vars => IInv'
  BY StepInv
<1> QED
  BY <1>1, <1>2, PTL DEF Spec

(* The state of the lifecycle is always well typed.                         *)
THEOREM TypeCorrect == Spec => []TypeOK
<1>1. IInv => TypeOK
  BY DEF IInv
<1> QED
  BY <1>1, Invariance, PTL

(* For any number of starts, failed joins and faults: once a start or a     *)
(* stop returned with the phase STOPPED no input or NFC task runs, and      *)
(* h2_runtime_destroy frees the Runtime under none, unless a failed join    *)
(* was ignored.                                                             *)
THEOREM QuietWhenStopped == Spec => []StoppedIsQuiet
<1>1. IInv => StoppedIsQuiet
  BY NoHandleNoTask DEF IInv, StoppedIsQuiet, OwnerHandles
<1> QED
  BY <1>1, Invariance, PTL

(* A start never runs on the event queue a fault has closed.                *)
THEOREM StartsOnOpenQueue == Spec => []NoStartOnClosedQueue
<1>1. IInv => NoStartOnClosedQueue
  BY DEF IInv, TypeOK, NoStartOnClosedQueue, FaultLatched
<1> QED
  BY <1>1, Invariance, PTL

(* Without an NFC task a fault leaves the button released.                  *)
THEOREM FaultReleasesButton == Spec => []InputFaultReleases
<1>1. IInv => InputFaultReleases
  BY DEF IInv, InputFaultReleases, NoFrozenButton, Released
<1> QED
  BY <1>1, Invariance, PTL
=============================================================================
