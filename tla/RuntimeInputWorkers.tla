------------------------- MODULE RuntimeInputWorkers -------------------------
(***************************************************************************)
(* Start, stop, fault and destruction of the input task and the NFC task   *)
(* (h2_runtime_input.c, h2_runtime_destroy).                               *)
(*                                                                         *)
(* One owner calls h2_runtime_input_start, h2_runtime_input_stop and       *)
(* h2_runtime_destroy, in series as their contract asks.  The tasks run    *)
(* beside it.  Every store to input_phase, input_stop_requested and        *)
(* input_worker_result by a task is a step; so is every section under the  *)
(* writer mutex, which excludes the other such sections.  Starting a task  *)
(* and joining one may fail, as the Task PAL allows.  What a poll does to  *)
(* the event lists is the subject of RuntimeInput; here it is the level of *)
(* one button.  A test-control session, which refuses a start and keeps a  *)
(* fault from releasing anything, is not modelled; nor is a Runtime that   *)
(* is no longer ready under a running task, for which a poll faults.       *)
(***************************************************************************)
EXTENDS Naturals

CONSTANTS MaxStarts,        \* bound on accepted starts
          MaxJoinFailures   \* bound on failing joins

ASSUME StartsAssumption == MaxStarts \in Nat
ASSUME FailuresAssumption == MaxJoinFailures \in Nat

VARIABLES
  hasNfc,       \* an NFC reader is mapped: has_nfc_source
  phase,        \* input_phase
  stop,         \* input_stop_requested
  result,       \* input_worker_result: "ok" or "fault"
  inputTask,    \* input_task: the start that created it, 0 is NULL
  nfcTask,      \* input_nfc_task, likewise
  taskPc,       \* per task: where it is
  pressed,      \* is_pressed of the button source
  skipped,      \* a fault could not take the writer mutex
  queueOpen,    \* event_queue is not closed
  wake,         \* wake_queue holds a token
  consumer,     \* the main loop: "run", "wait" (in wait_notify) or "left"
  owner,        \* where the owner's call is
  saved,        \* local phase of h2_runtime_input_stop
  destroying,   \* the stop is part of h2_runtime_destroy
  freed,        \* the Runtime was freed
  orphaned,     \* a join that failed was ignored (for the properties)
  starts,       \* accepted starts so far
  joinFailures  \* failed joins so far

vars == <<hasNfc, phase, stop, result, inputTask, nfcTask, taskPc, pressed,
          skipped, queueOpen, wake, consumer, owner, saved, destroying, freed,
          orphaned, starts, joinFailures>>

Phases == {"stopped", "starting", "running", "stopping", "faulted"}
OwnerPcs == {"idle", "frame", "startInput", "startNfc", "undo", "request",
             "joinNfc", "joinInput", "joined", "free", "freed"}
TaskPcs == {"unborn", "loop", "poll", "check", "sleep", "release", "latch",
            "request", "phase", "close", "done"}

(* A task is named by its entry and the start that created it.              *)
Tasks == {"input", "nfc"} \X (1 .. MaxStarts)
InputTask(n) == <<"input", n>>
NfcTask(n) == <<"nfc", n>>
Live == {t \in Tasks : taskPc[t] \notin {"unborn", "done"}}
Go(t, pc) == taskPc' = [taskPc EXCEPT ![t] = pc]

taskVars == <<taskPc, pressed, skipped, queueOpen, wake>>
ownerVars == <<hasNfc, inputTask, nfcTask, owner, saved, destroying, freed,
               orphaned, starts, joinFailures>>

Init ==
  /\ hasNfc \in BOOLEAN
  /\ phase = "stopped" /\ stop = FALSE /\ result = "ok"
  /\ inputTask = 0 /\ nfcTask = 0
  /\ taskPc = [t \in Tasks |-> "unborn"]
  /\ pressed = FALSE /\ skipped = FALSE
  /\ queueOpen = TRUE /\ wake = FALSE
  /\ consumer = "run"
  /\ owner = "idle" /\ saved = "stopped" /\ destroying = FALSE /\ freed = FALSE
  /\ orphaned = FALSE /\ starts = 0 /\ joinFailures = 0

------------------------------------------------------------------------------
(* h2_runtime_input_start.                                                  *)

(* Mutant: a fault does not forbid another start.                           *)
MutantStartAfterFault ==
  /\ owner = "idle" /\ starts < MaxStarts
  /\ phase = "stopped"
  /\ phase' = "starting"
  /\ stop' = FALSE
  /\ starts' = starts + 1
  /\ owner' = "frame"
  /\ UNCHANGED <<hasNfc, result, inputTask, nfcTask, saved, destroying, freed,
                 orphaned, joinFailures, taskVars, consumer>>

StartBegin ==
  /\ owner = "idle" /\ starts < MaxStarts
  /\ result = "ok"
  /\ phase = "stopped"
  /\ phase' = "starting"
  /\ stop' = FALSE
  /\ starts' = starts + 1
  /\ owner' = "frame"
  /\ UNCHANGED <<hasNfc, result, inputTask, nfcTask, saved, destroying, freed,
                 orphaned, joinFailures, taskVars, consumer>>

(* An event (an edge, a repeat of a held button, an edge refused earlier)   *)
(* wakes the main loop if the queue takes it, and a closed queue takes none.*)
Announce == wake' \in {wake, wake \/ queueOpen}

(* One poll of the button.                                                  *)
Sample == pressed' \in BOOLEAN /\ Announce

(* The first frame, taken by the owner; it may fail, or find no source.     *)
StartFrame ==
  /\ owner = "frame"
  /\ Sample
  /\ \/ phase' = "running" /\ owner' = "startInput"
     \/ phase' = "stopped" /\ owner' = "idle"
  /\ UNCHANGED <<hasNfc, stop, result, inputTask, nfcTask, saved, destroying,
                 freed, orphaned, starts, joinFailures, taskPc, skipped,
                 queueOpen, consumer>>

StartInputTask ==
  /\ owner = "startInput"
  /\ \/ /\ inputTask' = starts
        /\ Go(InputTask(starts), "loop")
        /\ owner' = IF hasNfc THEN "startNfc" ELSE "idle"
        /\ UNCHANGED phase
     \/ /\ inputTask' = 0
        /\ phase' = "stopped"
        /\ owner' = "idle"
        /\ UNCHANGED taskPc
  /\ UNCHANGED <<hasNfc, stop, result, nfcTask, saved, destroying, freed,
                 orphaned, starts, joinFailures, pressed, skipped, queueOpen,
                 wake, consumer>>

StartNfcTask ==
  /\ owner = "startNfc"
  /\ \/ /\ nfcTask' = starts
        /\ Go(NfcTask(starts), "loop")
        /\ owner' = "idle"
        /\ UNCHANGED stop
     \/ /\ nfcTask' = 0
        /\ stop' = TRUE
        /\ owner' = "undo"
        /\ UNCHANGED taskPc
  /\ UNCHANGED <<hasNfc, phase, result, inputTask, saved, destroying, freed,
                 orphaned, starts, joinFailures, pressed, skipped, queueOpen,
                 wake, consumer>>

(* h2_pal_task_join: it waits for the task, or fails.                       *)
JoinOk(t) == taskPc[t] = "done" /\ UNCHANGED joinFailures
JoinFailed ==
  /\ joinFailures < MaxJoinFailures
  /\ joinFailures' = joinFailures + 1

(* The NFC task did not start: the result of the join is ignored.           *)
StartUndo ==
  /\ owner = "undo"
  /\ \/ JoinOk(InputTask(inputTask)) /\ UNCHANGED orphaned
     \/ JoinFailed /\ orphaned' = TRUE
  /\ inputTask' = 0
  /\ stop' = FALSE
  /\ phase' = "stopped"
  /\ owner' = "idle"
  /\ UNCHANGED <<hasNfc, result, nfcTask, saved, destroying, freed, starts,
                 taskVars, consumer>>

------------------------------------------------------------------------------
(* h2_runtime_input_stop, alone or as the first part of h2_runtime_destroy. *)

StopBegin ==
  /\ owner = "idle"
  /\ phase \in {"running", "faulted"}
  /\ saved' = phase
  /\ destroying' \in BOOLEAN
  /\ owner' = "request"
  /\ UNCHANGED <<hasNfc, phase, stop, result, inputTask, nfcTask, freed,
                 orphaned, starts, joinFailures, taskVars, consumer>>

(* Mutant: the stop is not requested.                                       *)
MutantForgetRequest ==
  /\ owner = "request"
  /\ phase' = "stopping"
  /\ owner' = "joinNfc"
  /\ UNCHANGED <<hasNfc, stop, result, inputTask, nfcTask, saved, destroying,
                 freed, orphaned, starts, joinFailures, taskVars, consumer>>

StopRequest ==
  /\ owner = "request"
  /\ phase' = "stopping"
  /\ stop' = TRUE
  /\ owner' = "joinNfc"
  /\ UNCHANGED <<hasNfc, result, inputTask, nfcTask, saved, destroying, freed,
                 orphaned, starts, joinFailures, taskVars, consumer>>

JoinNfc ==
  /\ owner = "joinNfc"
  /\ \/ nfcTask = 0 /\ UNCHANGED joinFailures
     \/ nfcTask # 0 /\ JoinOk(NfcTask(nfcTask))
  /\ nfcTask' = 0
  /\ owner' = "joinInput"
  /\ UNCHANGED <<hasNfc, phase, stop, result, inputTask, saved, destroying,
                 freed, orphaned, starts, taskVars, consumer>>

(* Mutant: the result of the join is ignored.                               *)
MutantIgnoreJoin ==
  /\ owner = "joinInput"
  /\ \/ inputTask = 0 /\ UNCHANGED joinFailures
     \/ inputTask # 0 /\ (JoinOk(InputTask(inputTask)) \/ JoinFailed)
  /\ inputTask' = 0
  /\ owner' = "joined"
  /\ UNCHANGED <<hasNfc, phase, stop, result, nfcTask, saved, destroying,
                 freed, orphaned, starts, taskVars, consumer>>

JoinInput ==
  /\ owner = "joinInput"
  /\ \/ inputTask = 0 /\ UNCHANGED joinFailures
     \/ inputTask # 0 /\ JoinOk(InputTask(inputTask))
  /\ inputTask' = 0
  /\ owner' = "joined"
  /\ UNCHANGED <<hasNfc, phase, stop, result, nfcTask, saved, destroying,
                 freed, orphaned, starts, taskVars, consumer>>

(* A failed join restores the phase and keeps the handle.                   *)
StopFails ==
  /\ \/ owner = "joinNfc" /\ nfcTask # 0
     \/ owner = "joinInput" /\ inputTask # 0
  /\ JoinFailed
  /\ phase' = saved
  /\ owner' = "idle"
  /\ UNCHANGED <<hasNfc, stop, result, inputTask, nfcTask, saved, destroying,
                 freed, orphaned, starts, taskVars, consumer>>

StopDone ==
  /\ owner = "joined"
  /\ stop' = FALSE
  /\ phase' = "stopped"
  /\ owner' = IF destroying THEN "free" ELSE "idle"
  /\ UNCHANGED <<hasNfc, result, inputTask, nfcTask, saved, destroying, freed,
                 orphaned, starts, joinFailures, taskVars, consumer>>

(* h2_runtime_destroy of a stopped Runtime.                                 *)
DestroyStopped ==
  /\ owner = "idle"
  /\ phase = "stopped"
  /\ owner' = "free"
  /\ UNCHANGED <<hasNfc, phase, stop, result, inputTask, nfcTask, saved,
                 destroying, freed, orphaned, starts, joinFailures, taskVars,
                 consumer>>

(* Nothing is joined any more: release everything.                          *)
Free ==
  /\ owner = "free"
  /\ freed' = TRUE
  /\ owner' = "freed"
  /\ UNCHANGED <<hasNfc, phase, stop, result, inputTask, nfcTask, saved,
                 destroying, orphaned, starts, joinFailures, taskVars,
                 consumer>>

------------------------------------------------------------------------------
(* input_task_entry and input_nfc_task_entry.                               *)

Loop(t) ==
  /\ taskPc[t] = "loop"
  /\ Go(t, IF stop THEN "done" ELSE "poll")
  /\ UNCHANGED <<phase, stop, result, pressed, skipped, queueOpen, wake,
                 consumer, ownerVars>>

(* input_worker_poll samples the button, a frame may also fail; the NFC     *)
(* task scans its readers.                                                  *)
Poll(t) ==
  /\ taskPc[t] = "poll"
  /\ \/ t[1] = "input" /\ Sample
     \/ UNCHANGED <<pressed, wake>>
  /\ Go(t, "check")
  /\ UNCHANGED <<phase, stop, result, skipped, queueOpen, consumer, ownerVars>>

Check(t) ==
  /\ taskPc[t] = "check"
  /\ Go(t, IF stop THEN "done" ELSE "sleep")
  /\ UNCHANGED <<phase, stop, result, pressed, skipped, queueOpen, wake,
                 consumer, ownerVars>>

(* Without a working sleep the worker cannot pace itself.                   *)
Sleep(t) ==
  /\ taskPc[t] = "sleep"
  /\ \E pc \in {"loop", "release"} : Go(t, pc)
  /\ UNCHANGED <<phase, stop, result, pressed, skipped, queueOpen, wake,
                 consumer, ownerVars>>

------------------------------------------------------------------------------
(* input_worker_fault.                                                      *)

(* Mutant: the release is queued and the level kept.                        *)
MutantKeepHeld(t) ==
  /\ taskPc[t] = "release"
  /\ wake' = (wake \/ pressed)
  /\ Go(t, "latch")
  /\ UNCHANGED <<phase, stop, result, pressed, skipped, queueOpen, consumer,
                 ownerVars>>

(* release_held_buttons_locked: the release may be dropped by a full queue; *)
(* without the writer mutex the source table is not touched.                *)
FaultRelease(t) ==
  /\ taskPc[t] = "release"
  /\ \/ /\ pressed' = FALSE
        /\ Announce
        /\ UNCHANGED skipped
     \/ skipped' = TRUE /\ UNCHANGED <<pressed, wake>>
  /\ Go(t, "latch")
  /\ UNCHANGED <<phase, stop, result, queueOpen, consumer, ownerVars>>

FaultLatch(t) ==
  /\ taskPc[t] = "latch"
  /\ result' = "fault"
  /\ Go(t, "request")
  /\ UNCHANGED <<phase, stop, pressed, skipped, queueOpen, wake, consumer,
                 ownerVars>>

FaultRequestStop(t) ==
  /\ taskPc[t] = "request"
  /\ stop' = TRUE
  /\ Go(t, "phase")
  /\ UNCHANGED <<phase, result, pressed, skipped, queueOpen, wake, consumer,
                 ownerVars>>

FaultPhase(t) ==
  /\ taskPc[t] = "phase"
  /\ phase' = "faulted"
  /\ Go(t, "close")
  /\ UNCHANGED <<stop, result, pressed, skipped, queueOpen, wake, consumer,
                 ownerVars>>

FaultClose(t) ==
  /\ taskPc[t] = "close"
  /\ queueOpen' = FALSE
  /\ Go(t, "done")
  /\ UNCHANGED <<phase, stop, result, pressed, skipped, wake, consumer,
                 ownerVars>>

------------------------------------------------------------------------------
(* The main loop: h2_runtime_poll_event until the queue is empty, then      *)
(* h2_runtime_wait_notify; it leaves when the queue is closed.              *)

ConsumerWait ==
  /\ consumer = "run" /\ queueOpen
  /\ consumer' = "wait"
  /\ UNCHANGED <<phase, stop, result, taskVars, ownerVars>>

ConsumerWoken ==
  /\ consumer = "wait" /\ wake
  /\ wake' = FALSE
  /\ consumer' = "run"
  /\ UNCHANGED <<phase, stop, result, taskPc, pressed, skipped, queueOpen,
                 ownerVars>>

ConsumerLeaves ==
  /\ consumer = "run" /\ ~queueOpen
  /\ consumer' = "left"
  /\ UNCHANGED <<phase, stop, result, taskVars, ownerVars>>

------------------------------------------------------------------------------
Owner ==
  \/ StartFrame \/ StartInputTask \/ StartNfcTask \/ StartUndo
  \/ StopRequest \/ JoinNfc \/ JoinInput \/ StopFails \/ StopDone \/ Free

Task(t) ==
  \/ Loop(t) \/ Poll(t) \/ Check(t) \/ Sleep(t)
  \/ FaultRelease(t) \/ FaultLatch(t) \/ FaultRequestStop(t) \/ FaultPhase(t)
  \/ FaultClose(t)

Consumer == ConsumerWait \/ ConsumerWoken \/ ConsumerLeaves

(* After destruction nothing need happen.                                   *)
Finished == freed /\ UNCHANGED vars

Next ==
  \/ StartBegin \/ StopBegin \/ DestroyStopped
  \/ Owner \/ (\E t \in Tasks : Task(t)) \/ Consumer \/ Finished

Spec == Init /\ [][Next]_vars

(* A call of the owner goes on, and every task is scheduled.                *)
FairSpec ==
  /\ Spec
  /\ WF_vars(Owner)
  /\ \A t \in Tasks : WF_vars(Task(t))

------------------------------------------------------------------------------
(* Type invariant.                                                          *)
TypeOK ==
  /\ hasNfc \in BOOLEAN /\ orphaned \in BOOLEAN
  /\ phase \in Phases /\ saved \in Phases
  /\ stop \in BOOLEAN /\ result \in {"ok", "fault"}
  /\ inputTask \in 0 .. MaxStarts /\ nfcTask \in 0 .. MaxStarts
  /\ taskPc \in [Tasks -> TaskPcs]
  /\ pressed \in BOOLEAN /\ skipped \in BOOLEAN
  /\ queueOpen \in BOOLEAN /\ wake \in BOOLEAN
  /\ consumer \in {"run", "wait", "left"}
  /\ owner \in OwnerPcs /\ destroying \in BOOLEAN /\ freed \in BOOLEAN
  /\ starts \in 0 .. MaxStarts /\ joinFailures \in 0 .. MaxJoinFailures

(* When a start or a stop returns with the phase STOPPED no task runs: the  *)
(* next start creates the only ones, and destruction may free what they     *)
(* use.  The exception is the path that takes back a start and ignores a    *)
(* failed join.                                                             *)
StoppedIsQuiet ==
  ~orphaned /\ phase = "stopped" /\ owner \in {"idle", "free", "freed"} =>
    Live = {}

(* "Failed joins retain *runtime and every borrowed dependency for retry":  *)
(* no task runs in a freed Runtime.                                         *)
NoTaskAfterFree == freed => Live = {}

(* "A stopped worker must not leave a Button frozen in the pressed state":  *)
(* once a fault has ended every task the button reads released, unless the  *)
(* writer mutex could not be taken.                                         *)
NoFrozenButton ==
  result = "fault" /\ Live = {} /\ ~skipped => ~pressed

(* The same on a board without an NFC reader, where the task that faults is *)
(* the one that samples the button.                                         *)
InputFaultReleases == ~hasNfc => NoFrozenButton

(* "Restarting the poller would produce a Runtime that samples input it can *)
(* never deliver": while a start goes on the event queue is open.           *)
NoStartOnClosedQueue ==
  ~orphaned /\ owner \in {"frame", "startInput"} => queueOpen

(* "A worker fault closes the Runtime event queue to wake blocked           *)
(* consumers": after the close the main loop is not left in wait_notify     *)
(* without a token.                                                         *)
FaultWakesConsumer == ~queueOpen => ~(consumer = "wait" /\ ~wake)

(* A stop that was requested returns, although it joins without a deadline: *)
(* the tasks look at input_stop_requested, also in the middle of a fault.   *)
StopTerminates ==
  (owner \in {"request", "joinNfc", "joinInput", "undo"}) ~>
    (owner \in {"idle", "freed"})
=============================================================================
