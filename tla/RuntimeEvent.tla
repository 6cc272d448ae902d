----------------------------- MODULE RuntimeEvent -----------------------------
(***************************************************************************)
(* The Runtime event queue, the coalescing wake slot and the door that     *)
(* deinit closes to the tasks that post custom events or notify            *)
(* (libs/runtime/src: h2_runtime_event.c, h2_runtime_custom_event.c and    *)
(* the tail of h2_runtime_destroy).                                        *)
(*                                                                         *)
(* Posters are App and library tasks.  A call is a post (NO_WAIT or with a *)
(* finite timeout) or a notify that follows work the library put in its    *)
(* own dispatch queue.  The consumer is the main loop the header           *)
(* prescribes: wait, drain the events, drain the libraries' work, wait.    *)
(* The PAL queues are modelled by the contract of h2_pal_queue.h: FIFO,    *)
(* bounded, close refuses sends and wakes waiters, buffered items remain   *)
(* receivable.  An event is its sequence number; payloads are left out.    *)
(***************************************************************************)
EXTENDS Naturals, Sequences, FiniteSets

CONSTANTS Posters,          \* tasks that post custom events and notify
          Capacity,         \* items of the event queue
          SequenceModulus,  \* 2^32 in the code: h2_runtime_sequence_t
          FirstSequences,   \* where the counter may stand at the start
          MaxCalls          \* bound on the calls of one poster

ASSUME PostersAssumption == IsFiniteSet(Posters)
ASSUME CapacityAssumption == Capacity \in Nat \ {0}
ASSUME ModulusAssumption ==
  /\ SequenceModulus \in Nat \ {0}
  /\ SequenceModulus > 4 * MaxCalls * Cardinality(Posters)
ASSUME FirstAssumption == FirstSequences \subseteq 0 .. SequenceModulus - 1
ASSUME CallsAssumption == MaxCalls \in Nat

VARIABLES
  queue,         \* event_queue: sequence numbers
  queueOpen,     \* event_queue accepts sends
  wake,          \* tokens in the one-slot wake_queue
  wakeOpen,      \* wake_queue accepts sends
  inFlight,      \* custom_event_in_flight
  doorClosed,    \* custom_event_closed
  nextSequence,  \* next_sequence
  work,          \* a library's own dispatch queue is not empty
  pc,            \* per poster: where it is in its call
  op,            \* per poster: "post" or "notify"
  sequence,      \* per poster: the sequence its post took (0: none)
  calls,         \* per poster: calls made so far
  consumerPc,    \* the main loop
  destroyPc      \* h2_runtime_destroy

queueVars == <<queue, queueOpen, wake, wakeOpen>>
doorVars == <<inFlight, doorClosed>>
posterVars == <<pc, op, sequence, calls>>
vars == <<queueVars, doorVars, nextSequence, work, posterVars, consumerPc,
          destroyPc>>

PosterPcs == {"idle", "called", "claimed", "backout", "admitted", "resequence",
              "send", "notify", "leave"}
DestroyPcs == {"running", "closeQueue", "closeWake", "storeDoor",
               "readInFlight", "destroyQueue", "destroyWake", "free", "done"}

(* A poster holds a slot between the two updates of in_flight, and is       *)
(* admitted once custom_event_enter has returned 1.                         *)
Claiming == {"claimed", "backout", "admitted", "resequence", "send", "notify",
             "leave"}
Admitted == {"admitted", "resequence", "send", "notify", "leave"}
Drained == {"destroyQueue", "destroyWake", "free", "done"}

(* A Runtime that has issued any number of sequences before.                *)
Init ==
  /\ queue = <<>>
  /\ queueOpen = TRUE
  /\ wake = 0
  /\ wakeOpen = TRUE
  /\ inFlight = 0
  /\ doorClosed = FALSE
  /\ nextSequence \in FirstSequences
  /\ work = FALSE
  /\ pc = [p \in Posters |-> "idle"]
  /\ op = [p \in Posters |-> "post"]
  /\ sequence = [p \in Posters |-> 0]
  /\ calls = [p \in Posters |-> 0]
  /\ consumerPc = "drain"
  /\ destroyPc = "running"

------------------------------------------------------------------------------
(* Posters.                                                                 *)

Goto(p, label) == pc' = [pc EXCEPT ![p] = label]

(* A post begins: the argument checks read the Runtime.  The caller's half  *)
(* of the contract is that no post begins after deinit has started.         *)
PostCall(p) ==
  /\ pc[p] = "idle"
  /\ calls[p] < MaxCalls
  /\ destroyPc = "running"
  /\ calls' = [calls EXCEPT ![p] = @ + 1]
  /\ op' = [op EXCEPT ![p] = "post"]
  /\ Goto(p, "called")
  /\ UNCHANGED <<queueVars, doorVars, nextSequence, work, sequence, consumerPc,
                 destroyPc>>

(* A library fills its dispatch queue and calls h2_runtime_notify.          *)
NotifyCall(p) ==
  /\ pc[p] = "idle"
  /\ calls[p] < MaxCalls
  /\ destroyPc = "running"
  /\ calls' = [calls EXCEPT ![p] = @ + 1]
  /\ op' = [op EXCEPT ![p] = "notify"]
  /\ work' = TRUE
  /\ Goto(p, "called")
  /\ UNCHANGED <<queueVars, doorVars, nextSequence, sequence, consumerPc,
                 destroyPc>>

(* custom_event_enter: claim first, then check the door.                    *)
Claim(p) ==
  /\ pc[p] = "called"
  /\ inFlight' = inFlight + 1
  /\ Goto(p, "claimed")
  /\ UNCHANGED <<queueVars, doorClosed, nextSequence, work, op, sequence,
                 calls, consumerPc, destroyPc>>

CheckDoor(p) ==
  /\ pc[p] = "claimed"
  /\ Goto(p, IF doorClosed THEN "backout" ELSE "admitted")
  /\ UNCHANGED <<queueVars, doorVars, nextSequence, work, op, sequence, calls,
                 consumerPc, destroyPc>>

(* Mutant: the claim is not given back.                                     *)
MutantBackOutLeaks(p) ==
  /\ pc[p] = "backout"
  /\ Goto(p, "idle")
  /\ UNCHANGED <<queueVars, doorVars, nextSequence, work, op, sequence, calls,
                 consumerPc, destroyPc>>

(* The door is closed: INVALID_STATE.                                       *)
BackOut(p) ==
  /\ pc[p] = "backout"
  /\ inFlight' = inFlight - 1
  /\ Goto(p, "idle")
  /\ UNCHANGED <<queueVars, doorClosed, nextSequence, work, op, sequence,
                 calls, consumerPc, destroyPc>>

(* Mutant: 0 is issued like any other number.                               *)
MutantIssueZero(p) ==
  /\ pc[p] = "admitted"
  /\ op[p] = "post"
  /\ sequence' = [sequence EXCEPT ![p] = nextSequence]
  /\ nextSequence' = (nextSequence + 1) % SequenceModulus
  /\ Goto(p, "send")
  /\ UNCHANGED <<queueVars, doorVars, work, op, calls, consumerPc, destroyPc>>

(* h2_runtime_next_sequence: one fetch_add, and a second one when the       *)
(* first returned 0.                                                        *)
TakeSequence(p) ==
  /\ pc[p] = "admitted" \/ pc[p] = "resequence"
  /\ op[p] = "post"
  /\ sequence' = [sequence EXCEPT ![p] = nextSequence]
  /\ nextSequence' = (nextSequence + 1) % SequenceModulus
  /\ Goto(p, IF nextSequence = 0 /\ pc[p] = "admitted" THEN "resequence"
             ELSE "send")
  /\ UNCHANGED <<queueVars, doorVars, work, op, calls, consumerPc, destroyPc>>

(* Mutant: a notify wakes only for queued events.                           *)
MutantNotifyIfEvents(p) ==
  /\ pc[p] = "admitted"
  /\ op[p] = "notify"
  /\ Goto(p, IF queue # <<>> THEN "notify" ELSE "leave")
  /\ UNCHANGED <<queueVars, doorVars, nextSequence, work, op, sequence, calls,
                 consumerPc, destroyPc>>

NotifyDirectly(p) ==
  /\ pc[p] = "admitted"
  /\ op[p] = "notify"
  /\ Goto(p, "notify")
  /\ UNCHANGED <<queueVars, doorVars, nextSequence, work, op, sequence, calls,
                 consumerPc, destroyPc>>

(* Mutant: no wake after the event is queued.                               *)
MutantSendSilently(p) ==
  /\ pc[p] = "send"
  /\ queueOpen
  /\ Len(queue) < Capacity
  /\ queue' = Append(queue, sequence[p])
  /\ sequence' = [sequence EXCEPT ![p] = 0]
  /\ Goto(p, "leave")
  /\ UNCHANGED <<queueOpen, wake, wakeOpen, doorVars, nextSequence, work, op,
                 calls, consumerPc, destroyPc>>

(* h2_runtime_enqueue_event_strict: the send succeeds ...                   *)
SendAccepted(p) ==
  /\ pc[p] = "send"
  /\ queueOpen
  /\ Len(queue) < Capacity
  /\ queue' = Append(queue, sequence[p])
  /\ sequence' = [sequence EXCEPT ![p] = 0]
  /\ Goto(p, "notify")
  /\ UNCHANGED <<queueOpen, wake, wakeOpen, doorVars, nextSequence, work, op,
                 calls, consumerPc, destroyPc>>

(* ... or returns FULL, TIMEOUT or CLOSED; a send with a timeout waits here *)
(* while the queue is full, for a finite time.                              *)
SendRefused(p) ==
  /\ pc[p] = "send"
  /\ ~queueOpen \/ Len(queue) = Capacity
  /\ sequence' = [sequence EXCEPT ![p] = 0]
  /\ Goto(p, "leave")
  /\ UNCHANGED <<queueVars, doorVars, nextSequence, work, op, calls,
                 consumerPc, destroyPc>>

(* h2_runtime_notify_internal: FULL means a wake is already pending.        *)
Notify(p) ==
  /\ pc[p] = "notify"
  /\ wake' = IF wakeOpen THEN 1 ELSE wake
  /\ Goto(p, "leave")
  /\ UNCHANGED <<queue, queueOpen, wakeOpen, doorVars, nextSequence, work, op,
                 sequence, calls, consumerPc, destroyPc>>

Leave(p) ==
  /\ pc[p] = "leave"
  /\ inFlight' = inFlight - 1
  /\ Goto(p, "idle")
  /\ UNCHANGED <<queueVars, doorClosed, nextSequence, work, op, sequence,
                 calls, consumerPc, destroyPc>>

Proceed(p) == \/ Claim(p) \/ CheckDoor(p) \/ BackOut(p) \/ TakeSequence(p)
              \/ NotifyDirectly(p) \/ SendAccepted(p) \/ SendRefused(p)
              \/ Notify(p) \/ Leave(p)

Poster(p) == PostCall(p) \/ NotifyCall(p) \/ Proceed(p)

------------------------------------------------------------------------------
(* The main loop.                                                           *)

(* h2_runtime_poll_event.                                                   *)
PollEvent ==
  /\ consumerPc = "drain"
  /\ queue # <<>>
  /\ queue' = Tail(queue)
  /\ UNCHANGED <<queueOpen, wake, wakeOpen, doorVars, nextSequence, work,
                 posterVars, consumerPc, destroyPc>>

(* The queue is empty (WOULD_BLOCK), or closed and drained (CLOSED).        *)
PollEmpty ==
  /\ consumerPc = "drain"
  /\ queue = <<>>
  /\ consumerPc' = IF queueOpen THEN "dispatch" ELSE "gone"
  /\ UNCHANGED <<queueVars, doorVars, nextSequence, work, posterVars,
                 destroyPc>>

DispatchWork ==
  /\ consumerPc = "dispatch"
  /\ work' = FALSE
  /\ consumerPc' = "wait"
  /\ UNCHANGED <<queueVars, doorVars, nextSequence, posterVars, destroyPc>>

(* h2_runtime_wait_notify with WAIT_FOREVER.                                *)
WaitNotify ==
  /\ consumerPc = "wait"
  /\ wake > 0 \/ ~wakeOpen
  /\ wake' = 0
  /\ consumerPc' = IF wake > 0 THEN "drain" ELSE "gone"
  /\ UNCHANGED <<queue, queueOpen, wakeOpen, doorVars, nextSequence, work,
                 posterVars, destroyPc>>

Consumer == PollEvent \/ PollEmpty \/ DispatchWork \/ WaitNotify

------------------------------------------------------------------------------
(* h2_runtime_destroy, from custom_event_close on.                          *)

DestroyStep(from, to) == destroyPc = from /\ destroyPc' = to

DestroyBegin ==
  /\ DestroyStep("running", "closeQueue")
  /\ UNCHANGED <<queueVars, doorVars, nextSequence, work, posterVars,
                 consumerPc>>

CloseQueue ==
  /\ DestroyStep("closeQueue", "closeWake")
  /\ queueOpen' = FALSE
  /\ UNCHANGED <<queue, wake, wakeOpen, doorVars, nextSequence, work,
                 posterVars, consumerPc>>

(* Mutant: the wake queue is left open.                                     *)
MutantKeepWakeOpen ==
  /\ DestroyStep("closeWake", "storeDoor")
  /\ UNCHANGED <<queueVars, doorVars, nextSequence, work, posterVars,
                 consumerPc>>

CloseWake ==
  /\ DestroyStep("closeWake", "storeDoor")
  /\ wakeOpen' = FALSE
  /\ UNCHANGED <<queue, queueOpen, wake, doorVars, nextSequence, work,
                 posterVars, consumerPc>>

(* The drain loop: close the door, then read the claims; not zero sleeps a  *)
(* millisecond and goes round.                                              *)
StoreDoor ==
  /\ DestroyStep("storeDoor", "readInFlight")
  /\ doorClosed' = TRUE
  /\ UNCHANGED <<queueVars, inFlight, nextSequence, work, posterVars,
                 consumerPc>>

(* Mutant: one look at the claims, whatever it shows, ends the drain.       *)
MutantGiveUpDrain ==
  /\ DestroyStep("readInFlight", "destroyQueue")
  /\ UNCHANGED <<queueVars, doorVars, nextSequence, work, posterVars,
                 consumerPc>>

ReadInFlight ==
  /\ DestroyStep("readInFlight",
                 IF inFlight = 0 THEN "destroyQueue" ELSE "storeDoor")
  /\ UNCHANGED <<queueVars, doorVars, nextSequence, work, posterVars,
                 consumerPc>>

(* The queues are destroyed, then the Runtime is freed.                     *)
TearDown ==
  /\ \/ DestroyStep("destroyQueue", "destroyWake")
     \/ DestroyStep("destroyWake", "free")
     \/ DestroyStep("free", "done")
  /\ UNCHANGED <<queueVars, doorVars, nextSequence, work, posterVars,
                 consumerPc>>

Destroyer == CloseQueue \/ CloseWake \/ StoreDoor \/ ReadInFlight \/ TearDown

Next ==
  \/ \E p \in Posters : Poster(p)
  \/ Consumer
  \/ DestroyBegin
  \/ Destroyer

Spec == Init /\ [][Next]_vars

(* Tasks are scheduled; the main loop runs; a destroy that has begun goes   *)
(* on.  Nobody has to call, and nobody has to destroy.  A refused send of   *)
(* a timed post is fair because its timeout is finite.                      *)
FairSpec ==
  /\ Spec
  /\ \A p \in Posters : WF_vars(Proceed(p))
  /\ WF_vars(Consumer)
  /\ WF_vars(Destroyer)

------------------------------------------------------------------------------
(* Type invariant.                                                          *)
TypeOK ==
  /\ queue \in Seq(0 .. SequenceModulus - 1)
  /\ queueOpen \in BOOLEAN
  /\ wake \in {0, 1}
  /\ wakeOpen \in BOOLEAN
  /\ inFlight \in Nat
  /\ doorClosed \in BOOLEAN
  /\ nextSequence \in 0 .. SequenceModulus - 1
  /\ work \in BOOLEAN
  /\ pc \in [Posters -> PosterPcs]
  /\ op \in [Posters -> {"post", "notify"}]
  /\ sequence \in [Posters -> 0 .. SequenceModulus - 1]
  /\ calls \in [Posters -> 0 .. MaxCalls]
  /\ consumerPc \in {"drain", "dispatch", "wait", "gone"}
  /\ destroyPc \in DestroyPcs

Claims == {p \in Posters : pc[p] \in Claiming}

(* in_flight counts exactly the tasks between claim and release, back-outs  *)
(* included, so the drain neither ends early nor waits for a ghost.         *)
CountsClaims == inFlight = Cardinality(Claims)

(* "falling through would free the state under it": once the drain loop of  *)
(* custom_event_close has ended no admitted post or notify is running, so   *)
(* none of them can use a destroyed queue or the freed Runtime.             *)
NoAdmittedAfterDrain ==
  destroyPc \in Drained => \A p \in Posters : pc[p] \notin Admitted

(* The header's promise for every racing poster, "released with an error    *)
(* instead of touching destroyed state": a call that began before deinit    *)
(* started has returned before the Runtime is freed.                        *)
NoCallAfterFree ==
  destroyPc = "done" => \A p \in Posters : pc[p] = "idle"

(* No lost wake-up: a main loop blocked in wait_notify with events in the   *)
(* queue has a token waiting for it, or a producer is about to leave one.   *)
NoLostWakeup ==
  consumerPc = "wait" /\ queue # <<>> /\ wakeOpen =>
    wake = 1 \/ \E p \in Posters : pc[p] = "notify"

(* The same for the libraries' own dispatch queues: work announced with     *)
(* h2_runtime_notify is not stranded behind a blocked main loop.            *)
NoStrandedWork ==
  consumerPc = "wait" /\ work /\ wakeOpen /\ ~doorClosed =>
    \/ wake = 1
    \/ \E p \in Posters : op[p] = "notify" /\ pc[p] \notin {"idle", "leave"}

(* h2_runtime_sequence_after on counters of SequenceModulus values.         *)
SequenceAfter(a, b) ==
  IF a = 0 \/ b = 0 THEN a # 0 /\ b = 0
  ELSE (a + SequenceModulus - b) % SequenceModulus
         \in 1 .. (SequenceModulus - 1) \div 2

Outstanding ==
  {queue[i] : i \in DOMAIN queue} \cup
  {sequence[p] : p \in {q \in Posters : pc[q] = "send"}}

(* Sequences order events across the wrap: no event carries 0, and the next *)
(* sequence to be issued is after every one still queued or being sent,     *)
(* also while two posters race over the 0 that both must skip.              *)
SequencesOrdered ==
  /\ 0 \notin Outstanding
  /\ \A s \in Outstanding :
       SequenceAfter(IF nextSequence = 0 THEN 1 ELSE nextSequence, s)

(* Every event the queue accepted reaches the main loop, unless a destroy   *)
(* intervenes.                                                              *)
EventsReachConsumer ==
  (queue # <<>> /\ destroyPc = "running") ~>
    (queue = <<>> \/ destroyPc # "running")

(* "Termination is guaranteed instead by the poster side": the unbounded    *)
(* drain of custom_event_close always ends.                                 *)
DestroyTerminates == (destroyPc = "closeQueue") ~> (destroyPc = "done")

(* "A consumer still blocked in h2_runtime_wait_notify() gets CLOSED".      *)
ConsumerReleased == (destroyPc = "closeQueue") ~> (consumerPc = "gone")
==============================================================================
