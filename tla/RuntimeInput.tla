----------------------------- MODULE RuntimeInput -----------------------------
(***************************************************************************)
(* The button pipeline of the input worker (h2_runtime_input.c): samples   *)
(* and push edges become pending events; the snapshot is published before  *)
(* they are sent; edges the full event queue refuses are retained on their *)
(* source and sent again at the next poll.                                 *)
(*                                                                         *)
(* A task holds the writer mutex during a poll, so what it computes on the *)
(* lists is one step.  Every publication and every queue send is a step of *)
(* its own: readers may pin the banks and the main loop may drain          *)
(* the queue in between.  Time stamps are abstracted to edge numbers: edge *)
(* 2n-1 is the n-th press of a source, edge 2n its release, so a source is *)
(* pressed while its edge number is odd.                                   *)
(*                                                                         *)
(* Two tasks end in input_worker_fault when they cannot sleep: the input   *)
(* task, which polls, and the NFC task of a board that has a reader.  The  *)
(* one that faults releases the held buttons under the writer mutex and    *)
(* then closes the event queue, whatever the other is doing.  Test-control *)
(* sessions, which own the sources instead of the poll and are left alone  *)
(* by a fault, are not modelled.                                           *)
(***************************************************************************)
EXTENDS Integers, Sequences, FiniteSets

CONSTANTS Boards,           \* the boards: per source "single", "radio", "push"
          NfcBoards,        \* those with an NFC reader, and so an NFC task
          QueueCapacity,    \* items of the event queue
          PendingCapacity,  \* input_pending_event_capacity (at least 4)
          RetainedEdgeMax,  \* H2_RUNTIME_BUTTON_RETAINED_EDGE_MAX (2)
          MaxPresses,       \* per board: bound on the presses of a source
          MaxLost           \* per board: bound on the events lost by sends
                            \* that fail while the queue is open

ASSUME BoardAssumption ==
  \A k \in Boards : k \in Seq({"single", "radio", "push"}) /\ k # <<>>
ASSUME CapacityAssumption == QueueCapacity \in Nat \ {0}
ASSUME PendingAssumption == PendingCapacity \in Nat /\ PendingCapacity >= 4
ASSUME RetainedAssumption == RetainedEdgeMax \in Nat \ {0}

Tasks == {"input", "nfc"}

VARIABLES
  board,        \* the sources of this board, fixed by init
  edges,        \* per source: edges recognised so far (is_pressed: odd)
  settled,      \* per source: initialized, and the last read succeeded
  skip,         \* per source: skip_poll_once
  pending,      \* input_pending_events
  retained,     \* per source: button.retained
  dirty,        \* state_dirty
  shown,        \* per source: its edge number in the published snapshot
  queue,        \* event_queue
  seen,         \* per source: the last edge the main loop received
  outstanding,  \* events produced, not received and not counted as dropped
  pc,           \* where the holder of the writer mutex is ("idle": it is free)
  step,         \* in a poll: 0 push edges, i source i, N + 1 the end
  task,         \* per task: "running", or its fault: "releasing" the buttons,
                \* "released", or "skipped" for want of the writer mutex
  closed,       \* input_stop_requested, and the event queue closed
  lost          \* events discarded by a failed send, and not counted

faultVars == <<task, closed, lost>>
vars == <<board, edges, settled, skip, pending, retained, dirty, shown, queue,
          seen, outstanding, pc, step, faultVars>>

Sources == DOMAIN board

(* The bound on the edges of one source.                                    *)
MaxEdges == 2 * MaxPresses[board]

Pressed(n) == n % 2 = 1
Event(s, k, n, retain) == [src |-> s, kind |-> k, edge |-> n,
                           retain |-> retain]

------------------------------------------------------------------------------
(* The worker's lists.  A list operation maps a record of the pending list, *)
(* the retained lists and the account of outstanding events to such a       *)
(* record.  A retained edge is its number and what is owed of it: the DOWN  *)
(* or UP ("edge"), the final action ("action"), or both.  The loops of the  *)
(* code are functions of the number of rounds done.                         *)

Lists == [pending |-> pending, retained |-> retained,
          outstanding |-> outstanding]

(* The events the sources of S are owed: source, place in its list, which.  *)
Owing(held, S) ==
  {x \in S \X ((1 .. RetainedEdgeMax) \X {"edge", "action"}) :
     LET s == x[1]
         i == x[2][1]
     IN i \in DOMAIN held[s] /\ x[2][2] \in held[s][i].owes}

(* retained_event_count.                                                    *)
RetainedEvents(held, s) == Cardinality(Owing(held, {s}))

(* evict_retained_edges: every owed event is counted as dropped.            *)
Evict(b, s) == [b EXCEPT !.outstanding = @ - RetainedEvents(b.retained, s),
                         !.retained[s] = <<>>]

(* The record retain_button_event makes of one event.                       *)
RetainedEdge(e) ==
  [edge |-> e.edge, owes |-> {IF e.kind = "action" THEN "action" ELSE "edge"}]

(* Mutant: a full list refuses the new edge.                                *)
MutantRetainOldest(b, e) ==
  IF Len(b.retained[e.src]) >= RetainedEdgeMax
    THEN [b EXCEPT !.outstanding = @ - 1]
    ELSE [b EXCEPT !.retained[e.src] = Append(@, RetainedEdge(e))]

(* retain_button_event: the final action joins the UP retained before it;   *)
(* an edge that does not fit evicts the others.                             *)
Joins(held, e) ==
  /\ e.kind = "action"
  /\ held # <<>>
  /\ held[Len(held)].edge = e.edge
  /\ "action" \notin held[Len(held)].owes

Retain(b, e) ==
  LET held == b.retained[e.src]
      room == IF Len(held) >= RetainedEdgeMax THEN Evict(b, e.src) ELSE b
  IN IF Joins(held, e)
       THEN [b EXCEPT !.retained[e.src][Len(held)].owes = @ \cup {"action"}]
       ELSE [room EXCEPT !.retained[e.src] = Append(@, RetainedEdge(e))]

(* keep_or_drop_input_event.                                                *)
KeepOrDrop(b, e) ==
  IF e.retain THEN Retain(b, e) ELSE [b EXCEPT !.outstanding = @ - 1]

(* The event takes the next place of the pending list.                      *)
Push(b, e) == [b EXCEPT !.pending = Append(@, e)]

(* A pass over the pending list: events of S are kept or dropped, the rest  *)
(* stays pending.                                                           *)
SiftEvent(b, e, S) ==
  IF e.src \in S THEN KeepOrDrop(b, e) ELSE Push(b, e)

Sifted(b, S) ==
  LET pass[i \in 0 .. Len(b.pending)] ==
        IF i = 0 THEN [b EXCEPT !.pending = <<>>]
                 ELSE SiftEvent(pass[i - 1], b.pending[i], S)
  IN pass

Sift(b, S) == Sifted(b, S)[Len(b.pending)]

(* Mutant: the spilled events are forgotten.                                *)
MutantSpillForgets(b, s) ==
  [Sift(b, {s}) EXCEPT !.retained = b.retained,
                       !.outstanding = b.outstanding]

(* spill_source_pending_events.                                             *)
Spill(b, s) == Sift(b, {s})

(* Mutants: no look at the retained edges; no spill of older events.        *)
MutantAppendAnyway(b, e) ==
  IF Len(b.pending) >= PendingCapacity
    THEN KeepOrDrop(IF e.retain THEN Spill(b, e.src) ELSE b, e)
    ELSE Push(b, e)
MutantNoSpill(b, e) ==
  IF b.retained[e.src] # <<>> \/ Len(b.pending) >= PendingCapacity
    THEN KeepOrDrop(b, e)
    ELSE Push(b, e)

(* append_input_event.                                                      *)
AppendEvent(b, e) ==
  IF b.retained[e.src] # <<>>
    THEN KeepOrDrop(b, e)
  ELSE IF Len(b.pending) >= PendingCapacity
    THEN KeepOrDrop(IF e.retain THEN Spill(b, e.src) ELSE b, e)
    ELSE Push(b, e)

(* The two events a retained edge may owe.                                  *)
EdgeEvent(s, n) == Event(s, IF Pressed(n) THEN "down" ELSE "up", n, TRUE)
ActionEvent(s, n) == Event(s, "action", n, TRUE)

(* requeue_retained_edges: the edges of a source go back as a whole, ...    *)
RequeueEdge(b, s, x) ==
  LET c == IF "edge" \in x.owes THEN AppendEvent(b, EdgeEvent(s, x.edge))
                                ELSE b
  IN IF "action" \in x.owes THEN AppendEvent(c, ActionEvent(s, x.edge)) ELSE c

RequeuedEdges(b, s) ==
  LET round[i \in 0 .. Len(b.retained[s])] ==
        IF i = 0 THEN [b EXCEPT !.retained[s] = <<>>]
                 ELSE RequeueEdge(round[i - 1], s, b.retained[s][i])
  IN round

RequeueSource(b, s) ==
  IF \/ b.retained[s] = <<>>
     \/ RetainedEvents(b.retained, s) > PendingCapacity - Len(b.pending)
    THEN b
    ELSE RequeuedEdges(b, s)[Len(b.retained[s])]

(* ... one source after the other.                                          *)
RequeuedSources(b) ==
  LET round[s \in 0 .. Len(board)] ==
        IF s = 0 THEN b ELSE RequeueSource(round[s - 1], s)
  IN round

Requeue(b) == RequeuedSources(b)[Len(board)]

------------------------------------------------------------------------------
(* update_button_pressed and publish_error: what a source emits when it     *)
(* reads "pressed" or "released", when its read fails ("error"), and when   *)
(* it is not part of the reading ("none").                                  *)

NextEdge(s, reading) ==
  IF \/ reading = "pressed" /\ ~Pressed(edges[s])
     \/ reading = "released" /\ Pressed(edges[s])
    THEN edges[s] + 1 ELSE edges[s]

(* A new event is outstanding until it is received or counted as dropped.   *)
Post(b, e) == AppendEvent([b EXCEPT !.outstanding = @ + 1], e)

Take(b, s, reading) ==
  LET n == NextEdge(s, reading)
  IN CASE reading = "pressed" ->
            Post(Post(b, Event(s, "down", n, n # edges[s])),
                 Event(s, "action", n, FALSE))
       [] reading = "released" ->
            IF n = edges[s] THEN b
            ELSE Post(Post(b, Event(s, "up", n, TRUE)),
                      Event(s, "action", n, TRUE))
       [] reading = "error" -> Post(b, Event(s, "error", n, FALSE))
       [] reading = "none" -> b

Taken(b, readings) ==
  LET round[s \in 0 .. Len(board)] ==
        IF s = 0 THEN b ELSE Take(round[s - 1], s, readings[s])
  IN round

TakeAll(b, readings) == Taken(b, readings)[Len(board)]

Store(b) ==
  /\ pending' = b.pending
  /\ retained' = b.retained
  /\ outstanding' = b.outstanding

(* The sources S take what get says, in one reading.                        *)
Read(S, get) ==
  LET readings == [s \in Sources |-> IF s \in S THEN get[s] ELSE "none"]
  IN /\ \A s \in Sources : NextEdge(s, readings[s]) <= MaxEdges
     /\ Store(TakeAll(Lists, readings))
     /\ edges' = [s \in Sources |-> NextEdge(s, readings[s])]
     /\ settled' = [s \in Sources |->
                      IF s \in S THEN get[s] # "error" ELSE settled[s]]
     /\ dirty' = (dirty \/ \E s \in S : \/ get[s] # "released"
                                        \/ Pressed(edges[s])
                                        \/ ~settled[s])

Init ==
  /\ board \in Boards
  /\ edges = [s \in Sources |-> 0]
  /\ settled = [s \in Sources |-> FALSE]
  /\ skip = [s \in Sources |-> FALSE]
  /\ pending = <<>>
  /\ retained = [s \in Sources |-> <<>>]
  /\ dirty = TRUE
  /\ shown = [s \in Sources |-> 0]
  /\ queue = <<>>
  /\ seen = [s \in Sources |-> 0]
  /\ outstanding = 0
  /\ pc = "idle"
  /\ step = 0
  /\ task = [t \in Tasks |-> "running"]
  /\ closed = FALSE
  /\ lost = 0

------------------------------------------------------------------------------
(* One poll: input_poll_once_unlocked.                                      *)

(* The input task finds the mutex free and no stop requested.               *)
MayPoll == pc = "idle" /\ task["input"] = "running" /\ ~closed

(* Mutant: retained edges are never taken up again.                         *)
MutantNeverRequeue ==
  /\ MayPoll
  /\ pc' = "step"
  /\ step' = 0
  /\ UNCHANGED <<board, edges, settled, skip, pending, retained, dirty, shown,
                 queue, seen, outstanding, faultVars>>

(* Retained edges first; they are published before any new sample.          *)
PollBegin ==
  /\ MayPoll
  /\ LET b == Requeue(Lists)
         requeued == b.retained # retained
     IN /\ Store(b)
        /\ dirty' = (dirty \/ requeued)
        /\ pc' = IF requeued THEN "publish" ELSE "step"
  /\ step' = 0
  /\ UNCHANGED <<board, edges, settled, skip, shown, queue, seen, faultVars>>

(* publish_pending_events follows a step that left events pending.          *)
ThenPublish == pc' = IF pending' # <<>> THEN "publish" ELSE "step"

(* consume_push_button_edges: one edge of the push queue ...                *)
PushEdge(s, level) ==
  /\ pc = "step"
  /\ step = 0
  /\ board[s] = "push"
  /\ Read({s}, [x \in {s} |-> level])
  /\ skip' = [skip EXCEPT ![s] = TRUE]
  /\ ThenPublish
  /\ UNCHANGED <<board, shown, queue, seen, step, faultVars>>

(* ... until it is empty.                                                   *)
PushDone ==
  /\ pc = "step"
  /\ step = 0
  /\ step' = 1
  /\ UNCHANGED <<board, edges, settled, skip, pending, retained, dirty, shown,
                 queue, seen, outstanding, pc, faultVars>>

(* A source with skip_poll_once set, or not due.                            *)
SkipSource ==
  /\ pc = "step"
  /\ step \in Sources
  /\ skip' = [skip EXCEPT ![step] = FALSE]
  /\ step' = step + 1
  /\ UNCHANGED <<board, edges, settled, pending, retained, dirty, shown,
                 queue, seen, outstanding, pc, faultVars>>

SourceDue == pc = "step" /\ step \in Sources /\ ~skip[step]

(* poll_single_button: a reading or an error.                               *)
PollSingle ==
  /\ SourceDue
  /\ board[step] = "single"
  /\ \E got \in {"pressed", "released", "error"} :
       Read({step}, [x \in {step} |-> got])
  /\ step' = step + 1
  /\ ThenPublish
  /\ UNCHANGED <<board, skip, shown, queue, seen, faultVars>>

(* A push source repeats its level.                                         *)
PollPush ==
  /\ SourceDue
  /\ board[step] = "push"
  /\ Read({step}, [x \in {step} |-> IF Pressed(edges[x]) THEN "pressed"
                                                        ELSE "released"])
  /\ step' = step + 1
  /\ ThenPublish
  /\ UNCHANGED <<board, skip, shown, queue, seen, faultVars>>

(* poll_radio_button_group: one pressed button at most, for all children;   *)
(* the group is read when its first child comes up.                         *)
PollRadio ==
  /\ SourceDue
  /\ board[step] = "radio"
  /\ LET group == {s \in Sources : board[s] = "radio"}
     IN IF \E s \in group : s < step
          THEN UNCHANGED <<edges, settled, pending, retained, dirty,
                           outstanding>>
          ELSE \/ \E down \in group \cup {0} :
                    Read(group, [x \in group |-> IF x = down THEN "pressed"
                                                 ELSE "released"])
               \/ Read(group, [x \in group |-> "error"])
  /\ step' = step + 1
  /\ ThenPublish
  /\ UNCHANGED <<board, skip, shown, queue, seen, faultVars>>

(* publish_pending_events: a dirty snapshot goes first; while every retired *)
(* bank is pinned the events stay pending.                                  *)
PublishDone ==
  /\ pc = "publish"
  /\ shown' = IF dirty THEN edges ELSE shown
  /\ dirty' = FALSE
  /\ pc' = "send"
  /\ UNCHANGED <<board, edges, settled, skip, pending, retained, queue, seen,
                 outstanding, step, faultVars>>

(* Mutant: a blocked publication does not hold the events back.             *)
MutantSendUnpublished ==
  /\ pc = "publish"
  /\ dirty
  /\ pc' = "send"
  /\ UNCHANGED <<board, edges, settled, skip, pending, retained, dirty, shown,
                 queue, seen, outstanding, step, faultVars>>

PublishDeferred ==
  /\ pc = "publish"
  /\ dirty
  /\ pc' = "step"
  /\ UNCHANGED <<board, edges, settled, skip, pending, retained, dirty, shown,
                 queue, seen, outstanding, step, faultVars>>

(* enqueue_pending_events: one send; the first FULL ends the pass, and what *)
(* is left is kept or dropped.  A closed queue takes no event and is not    *)
(* FULL either.                                                             *)
SendAccepted ==
  /\ ~closed
  /\ Len(queue) < QueueCapacity
  /\ queue' = Append(queue, Head(pending))
  /\ pending' = Tail(pending)
  /\ UNCHANGED <<retained, outstanding>>

SendFull ==
  /\ ~closed
  /\ Len(queue) = QueueCapacity
  /\ Store(Sift(Lists, Sources))
  /\ UNCHANGED queue

Send ==
  /\ pc = "send"
  /\ SendAccepted \/ SendFull
  /\ pc' = IF pending' = <<>> THEN "step" ELSE "send"
  /\ UNCHANGED <<board, edges, settled, skip, dirty, shown, seen, step,
                 faultVars>>

(* A send that fails in another way, as every send does once the queue is   *)
(* closed: what is pending is discarded, neither kept nor counted.          *)
Discard ==
  /\ pending # <<>>
  /\ closed \/ lost < MaxLost[board]
  /\ lost' = lost + Len(pending)

(* In a poll the error is noted; consume_push_button_edges (the step 0 of a *)
(* poll that has taken an edge) stops at it.                                *)
SendFails ==
  /\ pc = "send"
  /\ Discard
  /\ pending' = <<>>
  /\ pc' = "step"
  /\ step' = IF step = 0 /\ \E s \in Sources : skip[s] THEN 1 ELSE step
  /\ UNCHANGED <<board, edges, settled, skip, retained, dirty, shown, queue,
                 seen, outstanding, task, closed>>

(* publish_snapshot_if_due: due and free, or else left dirty.               *)
PollEnd ==
  /\ pc = "step"
  /\ step = Len(board) + 1
  /\ \/ dirty' = FALSE /\ shown' = IF dirty THEN edges ELSE shown
     \/ UNCHANGED <<dirty, shown>>
  /\ pc' = "idle"
  /\ UNCHANGED <<board, edges, settled, skip, pending, retained, queue, seen,
                 outstanding, step, faultVars>>

------------------------------------------------------------------------------
(* A task that has not stopped may find that it cannot sleep.               *)
MayFault(t) ==
  task[t] = "running" /\ (t = "nfc" => board \in NfcBoards)

(* input_worker_fault of a task: release_held_buttons_locked ...            *)
Fault(t) ==
  /\ MayFault(t)
  /\ pc = "idle"
  /\ LET held == {s \in Sources : Pressed(edges[s])}
         readings == [s \in Sources |->
                        IF s \in held THEN "released" ELSE "none"]
     IN /\ edges' = [s \in Sources |-> NextEdge(s, readings[s])]
        /\ Store(Requeue(TakeAll(Lists, readings)))
        /\ dirty' = (dirty \/ held # {} \/ retained' # retained)
  /\ settled' = [s \in Sources |-> Pressed(edges[s]) \/ settled[s]]
  /\ pc' = "faultPublish1"
  /\ task' = [task EXCEPT ![t] = "releasing"]
  /\ UNCHANGED <<board, skip, shown, queue, seen, step, closed, lost>>

(* ... which is skipped when the writer mutex cannot be taken (the input    *)
(* task does not try while it is polling) ...                               *)
FaultSkipped(t) ==
  /\ MayFault(t)
  /\ t = "input" => pc = "idle" \/ task["nfc"] = "releasing"
  /\ task' = [task EXCEPT ![t] = "skipped"]
  /\ UNCHANGED <<board, edges, settled, skip, pending, retained, dirty, shown,
                 queue, seen, outstanding, pc, step, closed, lost>>

(* ... and then the stop of both tasks and the close of the event queue.    *)
CloseQueue ==
  /\ ~closed
  /\ \E t \in Tasks : task[t] \in {"released", "skipped"}
  /\ closed' = TRUE
  /\ UNCHANGED <<board, edges, settled, skip, pending, retained, dirty, shown,
                 queue, seen, outstanding, pc, step, task, lost>>

(* The writer mutex is given back.                                          *)
Released ==
  /\ pc' = "idle"
  /\ task' = [t \in Tasks |->
                IF task[t] = "releasing" THEN "released" ELSE task[t]]

EvictAll(b) ==
  [b EXCEPT !.outstanding = @ - Cardinality(Owing(b.retained, Sources)),
            !.retained = [s \in Sources |-> <<>>]]

(* Three attempts to publish the released state.                            *)
FaultPublish ==
  /\ pc \in {"faultPublish1", "faultPublish2", "faultPublish3"}
  /\ shown' = edges
  /\ dirty' = FALSE
  /\ pc' = "faultSend"
  /\ UNCHANGED <<board, edges, settled, skip, pending, retained, queue, seen,
                 outstanding, step, faultVars>>

FaultRetry ==
  /\ pc \in {"faultPublish1", "faultPublish2"}
  /\ pc' = IF pc = "faultPublish1" THEN "faultPublish2" ELSE "faultPublish3"
  /\ UNCHANGED <<board, edges, settled, skip, pending, retained, dirty, shown,
                 queue, seen, outstanding, step, faultVars>>

(* The last attempt failed: everything undelivered is dropped and counted.  *)
FaultGiveUp ==
  /\ pc = "faultPublish3"
  /\ Store(EvictAll([Lists EXCEPT !.pending = <<>>,
                                  !.outstanding = @ - Len(pending)]))
  /\ Released
  /\ UNCHANGED <<board, edges, settled, skip, dirty, shown, queue, seen,
                 step, closed, lost>>

FaultSend ==
  /\ pc = "faultSend"
  /\ pending # <<>>
  /\ SendAccepted
  /\ UNCHANGED <<board, edges, settled, skip, dirty, shown, seen, pc, step,
                 faultVars>>

(* Mutant: edges the queue refuses at the last pass are kept.               *)
MutantFaultKeeps ==
  /\ pc = "faultSend"
  /\ pending = <<>> \/ (~closed /\ Len(queue) = QueueCapacity)
  /\ Store(Sift(Lists, Sources))
  /\ Released
  /\ UNCHANGED <<board, edges, settled, skip, dirty, shown, queue, seen,
                 step, closed, lost>>

FaultSent ==
  /\ pc = "faultSend"
  /\ pending = <<>> \/ (~closed /\ Len(queue) = QueueCapacity)
  /\ Store(EvictAll(Sift(Lists, Sources)))
  /\ Released
  /\ UNCHANGED <<board, edges, settled, skip, dirty, shown, queue, seen,
                 step, closed, lost>>

(* The queue fails or is closed already, by the fault of the other task.    *)
FaultSendFails ==
  /\ pc = "faultSend"
  /\ Discard
  /\ Store(EvictAll([Lists EXCEPT !.pending = <<>>]))
  /\ Released
  /\ UNCHANGED <<board, edges, settled, skip, dirty, shown, queue, seen,
                 step, closed>>

------------------------------------------------------------------------------
(* h2_runtime_poll_event.                                                   *)
Receive ==
  /\ queue # <<>>
  /\ LET e == Head(queue)
     IN seen' = [seen EXCEPT ![e.src] =
                   IF e.kind \in {"down", "up"} THEN e.edge ELSE @]
  /\ queue' = Tail(queue)
  /\ outstanding' = outstanding - 1
  /\ UNCHANGED <<board, edges, settled, skip, pending, retained, dirty, shown,
                 pc, step, faultVars>>

Worker ==
  \/ PollBegin \/ PushDone \/ SkipSource \/ PollSingle \/ PollPush \/ PollRadio
  \/ \E s \in Sources, level \in {"pressed", "released"} : PushEdge(s, level)
  \/ PublishDone \/ PublishDeferred \/ Send \/ SendFails \/ PollEnd
  \/ FaultPublish \/ FaultRetry \/ FaultGiveUp \/ FaultSend \/ FaultSent
  \/ FaultSendFails

Next ==
  \/ Worker \/ CloseQueue \/ Receive
  \/ \E t \in Tasks : Fault(t) \/ FaultSkipped(t)

Spec == Init /\ [][Next]_vars

(* A task has given up, after releasing the buttons or not.                 *)
Faulted == \E t \in Tasks : task[t] \in {"released", "skipped"}

(* The worker runs until a task faults, the poll interval of a due source   *)
(* passes, readers do not pin every retired bank at each attempt            *)
(* (RuntimeState shows that a dirty state is published), the push queue     *)
(* runs dry, and the main loop keeps up: now and then it has emptied the    *)
(* queue when a poll begins.  The first two conjuncts are weak fairness of  *)
(* Worker, enabled until a task faults, and strong fairness of the          *)
(* readings, enabled when a source is due, with ENABLED spelled out.        *)
FairSpec ==
  /\ Spec
  /\ []<><<Worker>>_vars \/ []<>Faulted
  /\ []<><<PollSingle \/ PollPush \/ PollRadio>>_vars \/ <>[]~SourceDue
  /\ SF_vars(PublishDone)
  /\ SF_vars(PushDone)
  /\ WF_vars(Receive)
  /\ []<>(Faulted \/ (pc = "idle" /\ queue = <<>>))

------------------------------------------------------------------------------
(* What the main loop will still receive, if nothing is lost: the queue,    *)
(* the pending events, and for each edge retained of the source its edge    *)
(* and its action, where they are owed (nobody's event where not).          *)
Nothing == Event(0, "error", 0, FALSE)

Stream(s) ==
  queue \o pending \o
  [i \in 1 .. 2 * Len(retained[s]) |->
     LET x == retained[s][(i + 1) \div 2]
     IN CASE i % 2 = 1 /\ "edge" \in x.owes -> EdgeEvent(s, x.edge)
          [] i % 2 = 0 /\ "action" \in x.owes -> ActionEvent(s, x.edge)
          [] OTHER -> Nothing]

IsLevel(e, s) == e.src = s /\ e.kind \in {"down", "up"}

(* A fault's last pass over the lists is done.                              *)
GaveUp == \E t \in Tasks : task[t] = "released"

(* "the level the consumer ends up seeing stays correct": whatever was      *)
(* dropped, evicted or deferred, the last press or release on its way to    *)
(* the main loop, or else the last one it received, is the last one that    *)
(* happened; unless a send failed in another way than on a full queue, or a *)
(* fault has given up what it could not deliver.                            *)
LevelNotLost ==
  lost = 0 /\ ~GaveUp => \A s \in Sources :
    LET way == Stream(s)
        AllFrom(k) == \A i \in k .. Len(way) :
                        IsLevel(way[i], s) => way[i].edge = edges[s]
    IN \/ seen[s] = edges[s] /\ AllFrom(1)
       \/ \E k \in DOMAIN way : /\ IsLevel(way[k], s)
                                /\ way[k].edge = edges[s]
                                /\ AllFrom(k)

(* "nothing of that source overtakes an older edge": events of one source   *)
(* reach the main loop in the order of their edges, a release before its    *)
(* final action, and no edge twice.                                         *)
NoOvertaking ==
  \A s \in Sources :
    LET way == Stream(s)
    IN \A j \in DOMAIN way : way[j].src = s =>
         /\ seen[s] <= way[j].edge
         /\ \A i \in 1 .. j - 1 : way[i].src = s =>
              /\ way[i].edge <= way[j].edge
              /\ way[i].edge = way[j].edge /\ way[j].retain =>
                   way[i].kind = "up" /\ way[j].kind = "action"

(* "A source never has pending and retained events at once".                *)
PendingOrRetained ==
  \A s \in Sources : retained[s] # <<>> =>
    \A i \in DOMAIN pending : pending[i].src # s

(* Every event is received, on its way in lists that keep to their          *)
(* capacities, counted by h2_runtime_dropped_event_count, or discarded by a *)
(* send that failed in another way than on a full queue; a fault, however   *)
(* it ends and whoever else faults, adds no other way out.                  *)
Accounted ==
  /\ outstanding = Len(queue) + Len(pending)
                     + Cardinality(Owing(retained, Sources)) + lost
  /\ Len(pending) <= PendingCapacity
  /\ \A s \in Sources : Len(retained[s]) <= RetainedEdgeMax

(* "the component-state API never lags behind a delivered event": a task    *)
(* that receives an event reads a snapshot at least as new.                 *)
SnapshotNotBehind ==
  /\ \A i \in DOMAIN queue : queue[i].edge <= shown[queue[i].src]
  /\ \A s \in Sources : seen[s] <= shown[s]

(* A terminal fault of the input task that could take the mutex leaves      *)
(* every button released and owes nothing, for good: also when the NFC task *)
(* faults before, after or in between, and closes the queue.                *)
FaultReleases ==
  task["input"] = "released" /\ pc = "idle" =>
    /\ \A s \in Sources : ~Pressed(edges[s]) /\ retained[s] = <<>>
    /\ pending = <<>>

(* A press or a release the queue refused is not retained forever: once the *)
(* buttons rest, as MaxPresses makes them, the main loop has received the   *)
(* level and keeps it.  For boards with one source: with several, the       *)
(* samples and errors of one may fill a queue of one item at every pass     *)
(* before the edges of another.                                             *)
LevelReceived ==
  Len(board) = 1 =>
    <>[](Faulted \/ lost # 0 \/ \A s \in Sources : seen[s] = edges[s])
==============================================================================
