-------------------------- MODULE RuntimeInputProofs --------------------------
(***************************************************************************)
(* The safety properties of RuntimeInput, for every board and every        *)
(* capacity: an inductive invariant carries what the list operations keep  *)
(* through the polls, the sends, the receives and the faults.              *)
(***************************************************************************)
EXTENDS RuntimeInputLists

------------------------------------------------------------------------------
(* The inductive invariant.                                                 *)

Types ==
  /\ board \in Boards
  /\ edges \in [Sources -> Nat]
  /\ shown \in [Sources -> Nat]
  /\ seen \in [Sources -> Nat]
  /\ queue \in Seq(EventSet(Sources))
  /\ dirty \in BOOLEAN
  /\ task \in [Tasks -> {"running", "releasing", "released", "skipped"}]
  /\ lost \in Nat

Past == Gone(Sources, queue, seen)

(* The events beyond the worker's lists that nobody has counted.            *)
Beyond == Len(queue) + lost

(* Everything on its way is in order, accounted for and no newer than the   *)
(* level of its source; until an event is discarded or a fault has given    *)
(* up, the level itself is on its way.                                      *)
ListsInv ==
  /\ Delivers(Sources, Past, Lists, edges, Beyond)
  /\ lost = 0 /\ ~GaveUp => Live(Sources, Past, Lists, edges)
  /\ QueueInOrder(queue, seen)

(* The snapshot is behind the levels only while it is dirty, and never      *)
(* while events are sent.                                                   *)
ShownInv ==
  /\ SnapshotNotBehind
  /\ ~dirty => shown = edges
  /\ pc \in {"send", "faultSend"} => ~dirty
  /\ \A s \in Sources : shown[s] <= edges[s]

(* Whose steps the holder of the writer mutex takes: a running input task   *)
(* polls, and a fault has no button held.                                   *)
Polling == {"step", "publish", "send"}
Releasing == {"faultPublish1", "faultPublish2", "faultPublish3", "faultSend"}
PhaseInv ==
  /\ pc \in {"publish", "send"} => pending # <<>>
  /\ pc \in Polling => task["input"] = "running"
  /\ pc \in Releasing <=> \E t \in Tasks : task[t] = "releasing"
  /\ pc \in Releasing => \A s \in Sources : ~Pressed(edges[s])
  /\ FaultReleases

WorkerInv == Types /\ ListsInv /\ ShownInv /\ PhaseInv

(* A board has finitely many sources.                                       *)
LEMMA BoardFinite ==
  ASSUME board \in Boards
  PROVE  /\ Len(board) \in Nat /\ Sources = 1 .. Len(board)
         /\ IsFiniteSet(Sources)
<1>1. board \in Seq({"single", "radio", "push"})
  BY BoardAssumption, Zenon
<1>2. Len(board) \in Nat /\ Sources = 1 .. Len(board)
  BY <1>1 DEF Sources
<1> QED
  BY <1>2, FS_Interval

(* The worker begins with nothing owed.                                     *)
LEMMA InitWorkerInv == Init => WorkerInv
<1> SUFFICES ASSUME Init
             PROVE  WorkerInv
  BY Zenon
<1> USE DEF Init
<1> DEFINE none == [s \in Sources |-> <<>>]
<1>1. Types
  BY DEF Types, Tasks
<1>2. IsFiniteSet(Sources)
  BY BoardFinite, Zenon
<1>3. Lists \in ListsSet(Sources)
  <2>1. none \in [Sources -> Seq(EdgeSet)] /\ <<>> \in Seq(EventSet(Sources))
        /\ 0 \in Int
    OBVIOUS
  <2> QED
    BY <2>1, Zenon DEF Lists, ListsSet
<1>4. /\ Lists.pending = <<>> /\ Lists.retained = none
      /\ Lists.outstanding = 0
  BY Zenon DEF Lists
<1>5. \A s \in Sources : none[s] = <<>>
  BY Zenon
<1>6. DOMAIN none = Sources
  BY Zenon
<1>7. Past = {SeenEvent(seen, s) : s \in Sources}
  BY DEF Past, Gone
<1>8. \A s \in Sources : /\ SeenEvent(seen, s).src = s
                         /\ SeenEvent(seen, s).edge = edges[s]
                         /\ IsLevel(SeenEvent(seen, s), s)
  <2>1. \A s \in Sources : seen[s] = edges[s]
    BY Zenon
  <2> QED
    BY <1>1, <2>1, SeenEventType DEF Types
<1> HIDE DEF none, Init
<1>9. \A i \in DOMAIN Lists.pending : FALSE
  BY <1>4
<1>10. Fine(Sources, Past, Lists)
  <2>1. PendingInOrder(Past, Lists)
    BY <1>9, Zenon DEF PendingInOrder
  <2>2. HeldInOrder(Past, Lists)
    BY <1>4, <1>5, <1>6 DEF HeldInOrder, Ordered
  <2>3. \A s \in Sources : Len(Lists.retained[s]) <= RetainedEdgeMax
    BY <1>4, <1>5, RetainedAssumption
  <2> QED
    BY <1>3, <2>1, <2>2, <2>3, Zenon DEF Fine
<1>11. Sound(Sources, Past, Lists)
  <2>1. Len(Lists.pending) <= PendingCapacity
    BY <1>4, PendingAssumption
  <2> QED
    BY <1>9, <1>10, <2>1, Zenon DEF Sound, Apart
<1>12. Debt(Lists) = Beyond
  <2>1. Owing(Lists.retained, DOMAIN Lists.retained) = {}
    BY <1>4, <1>5, <1>6 DEF Owing
  <2>2. Cardinality(Owing(Lists.retained, DOMAIN Lists.retained)) = 0
    BY <2>1, FS_EmptySet, Zenon
  <2>3. Len(Lists.pending) = 0 /\ Len(queue) = 0 /\ lost = 0
    BY <1>4, Zenon DEF Init
  <2> QED
    BY <1>4, <2>2, <2>3 DEF Debt, Beyond
<1>13. ASSUME NEW s \in Sources
       PROVE  /\ Bound(Past, Lists, s, edges[s])
              /\ Carries(Past, Lists, s, edges[s])
  <2>1. Ahead(Past, Lists) = Past
    BY <1>9, Zenon DEF Ahead
  <2>2. \A a \in Past : a.src = s => a.edge <= edges[s]
    BY <1>1, <1>7, <1>8 DEF Types
  <2>3. Within(Lists.retained[s], edges[s])
    BY <1>4, <1>5 DEF Within
  <2>4. \E a \in Past : IsLevel(a, s) /\ a.edge = edges[s]
    BY <1>7, <1>8, Zenon
  <2> QED
    BY <2>1, <2>2, <2>3, <2>4, Zenon DEF Bound, Carries
<1>14. QueueInOrder(queue, seen)
  BY DEF QueueInOrder, Init
<1>15. ListsInv
  BY <1>11, <1>12, <1>13, <1>14, Zenon DEF ListsInv, Delivers, Live
<1>16. ShownInv
  BY DEF ShownInv, SnapshotNotBehind, Init
<1>17. PhaseInv
  BY DEF PhaseInv, FaultReleases, Init, Polling, Releasing, Tasks
<1> QED
  BY <1>1, <1>15, <1>16, <1>17, Zenon DEF WorkerInv

(* Steps that leave the events where they are.                              *)
LEMMA QuietStep ==
  ASSUME ListsInv, lost' = lost, GaveUp => GaveUp',
         UNCHANGED <<board, edges, pending, retained, outstanding, queue, seen>>
  PROVE  ListsInv'
<1>1. /\ Sources' = Sources /\ Lists' = Lists /\ Past' = Past
      /\ edges' = edges /\ queue' = queue /\ seen' = seen /\ Beyond' = Beyond
  BY Zenon DEF Sources, Lists, Past, Beyond
<1> QED
  BY <1>1, Zenon DEF ListsInv

(* A list operation is what the step leaves.                                *)
LEMMA StoreLists ==
  ASSUME NEW S, NEW c \in ListsSet(S), Store(c)
  PROVE  Lists' = c
BY ListsRecord, Zenon DEF Store, Lists

(* The snapshot part, when the levels may have moved on.                    *)
LEMMA ShownStays ==
  ASSUME Types, ShownInv, UNCHANGED <<board, shown, queue, seen>>,
         pc' \notin {"send", "faultSend"},
         dirty' = FALSE => dirty = FALSE /\ edges' = edges,
         edges' \in [Sources -> Nat], dirty' \in BOOLEAN,
         \A s \in Sources : edges[s] <= edges'[s]
  PROVE  ShownInv'
<1>1. Sources' = Sources
  BY Zenon DEF Sources
<1>2. SnapshotNotBehind'
  BY <1>1, Zenon DEF ShownInv, SnapshotNotBehind
<1>3. ~dirty' => shown' = edges'
  BY Zenon DEF ShownInv, Types
<1>4. ASSUME NEW s \in Sources
      PROVE  shown'[s] <= edges'[s]
  <2>1. /\ shown[s] \in Nat /\ edges[s] \in Nat /\ edges'[s] \in Nat
        /\ shown[s] <= edges[s] /\ edges[s] <= edges'[s] /\ shown' = shown
    BY Zenon DEF ShownInv, Types
  <2> QED
    BY <2>1
<1> QED
  BY <1>1, <1>2, <1>3, <1>4, Zenon DEF ShownInv

(* Readings move each source to its next edge, and make the snapshot dirty  *)
(* when one moved.                                                          *)
LEMMA ReadStep ==
  ASSUME WorkerInv, NEW S \in SUBSET Sources, NEW get,
         \A s \in S : get[s] \in {"pressed", "released", "error"},
         Read(S, get), pc = "step", ThenPublish,
         UNCHANGED <<board, shown, queue, seen, faultVars>>
  PROVE  WorkerInv'
<1> DEFINE readings == [s \in Sources |-> IF s \in S THEN get[s] ELSE "none"]
           c == TakeAll(Lists, readings)
<1>1. Types /\ ListsInv /\ ShownInv /\ PhaseInv
  BY Zenon DEF WorkerInv
<1>2. /\ Len(board) \in Nat /\ Sources = 1 .. Len(board)
      /\ IsFiniteSet(Sources)
  BY <1>1, BoardFinite, Zenon DEF Types
<1>3. /\ Sources' = Sources /\ Past' = Past /\ Past \in SUBSET EventSet(Sources)
      /\ lost' = lost /\ task' = task /\ Beyond' = Beyond
      /\ GaveUp' <=> GaveUp
  BY <1>1, GoneType, Zenon DEF Types, Sources, Past, Beyond, GaveUp, faultVars
<1>4. \A s \in Sources : edges[s] \in Nat /\ readings[s] \in Readings
  BY <1>1, Zenon DEF Types, Readings
<1>5. /\ Store(c)
      /\ edges' = [s \in Sources |-> NextEdge(s, readings[s])]
      /\ dirty' = (dirty \/ \E s \in S : \/ get[s] # "released"
                                         \/ Pressed(edges[s])
                                         \/ ~settled[s])
  BY Zenon DEF Read
<1>6. ASSUME NEW s \in Sources
      PROVE  /\ edges'[s] = NextEdge(s, readings[s])
             /\ edges'[s] \in Nat /\ edges[s] <= edges'[s]
  <2>1. edges'[s] = NextEdge(s, readings[s]) /\ edges[s] \in Nat
    BY <1>4, <1>5, Zenon
  <2>2. edges'[s] \in Nat /\ (edges'[s] = edges[s] \/ edges'[s] = edges[s] + 1)
    BY <2>1, NextEdgeType, Zenon
  <2> QED
    BY <2>1, <2>2
<1>7. /\ Delivers(Sources, Past, c, edges', Beyond)
      /\ Live(Sources, Past, Lists, edges) => Live(Sources, Past, c, edges')
  <2>1. Delivers(Sources, Past, Lists, edges, Beyond)
    BY <1>1, Zenon DEF ListsInv
  <2>2. \A s \in Sources : edges'[s] = NextEdge(s, readings[s])
    BY <1>6, Zenon
  <2> HIDE DEF readings
  <2> QED
    BY <1>2, <1>3, <1>4, <2>1, <2>2, ReadDelivers, Zenon
<1> HIDE DEF c
<1>8. Lists' = c
  BY <1>5, <1>7, StoreLists, Zenon DEF Delivers, Sound, Fine
<1>9. ListsInv'
  BY <1>1, <1>3, <1>7, <1>8, Zenon DEF ListsInv
<1>10. Types'
  BY <1>1, <1>3, <1>5, <1>6, Zenon DEF Types
<1>11. ASSUME dirty' = FALSE
       PROVE  dirty = FALSE /\ edges' = edges
  <2>1. dirty = FALSE /\ \A s \in S : get[s] = "released" /\ ~Pressed(edges[s])
    BY <1>1, <1>5, <1>11, Zenon DEF Types
  <2>2. \A s \in Sources : NextEdge(s, readings[s]) = edges[s]
    BY <2>1, Zenon DEF NextEdge
  <2> QED
    BY <1>1, <1>5, <2>1, <2>2, Zenon DEF Types
<1>12. pc' \in {"publish", "step"} /\ (pc' = "publish" => pending' # <<>>)
  BY Zenon DEF ThenPublish
<1>13. ShownInv'
  <2>1. edges' \in [Sources -> Nat] /\ dirty' \in BOOLEAN
    BY <1>3, <1>10, Zenon DEF Types
  <2> QED
    BY <1>1, <1>6, <1>11, <1>12, <2>1, ShownStays, Zenon
<1>14. PhaseInv'
  BY <1>1, <1>3, <1>12, Zenon DEF PhaseInv, FaultReleases, Polling, Releasing
<1> QED
  BY <1>9, <1>10, <1>13, <1>14, Zenon DEF WorkerInv

(* Steps of a poll that only change the snapshot or the place in the poll.  *)
LEMMA PlainStep ==
  ASSUME WorkerInv,
         PushDone \/ SkipSource \/ PublishDone \/ PublishDeferred \/ PollEnd
           \/ FaultPublish \/ FaultRetry \/ CloseQueue \/ UNCHANGED vars
  PROVE  WorkerInv'
<1>1. Types /\ ListsInv /\ ShownInv /\ PhaseInv
  BY Zenon DEF WorkerInv
<1>2. /\ UNCHANGED <<board, edges, pending, retained, outstanding, queue, seen>>
      /\ lost' = lost /\ task' = task /\ (GaveUp' <=> GaveUp)
  BY Zenon DEF PushDone, SkipSource, PublishDone, PublishDeferred, PollEnd,
     FaultPublish, FaultRetry, CloseQueue, vars, faultVars, GaveUp
<1>3. ListsInv'
  BY <1>1, <1>2, QuietStep, Zenon
<1>4. Sources' = Sources
  BY <1>2, Zenon DEF Sources
<1>5. \/ dirty' = FALSE /\ shown' = edges
      \/ dirty' = dirty /\ shown' = shown
  BY <1>1, Zenon DEF PushDone, SkipSource, PublishDone, PublishDeferred,
         PollEnd, FaultPublish, FaultRetry, CloseQueue, vars, ShownInv, Types
<1>6. Types'
  BY <1>1, <1>2, <1>4, <1>5, Zenon DEF Types
<1>7. SnapshotNotBehind'
  <2>1. CASE shown' = shown
    BY <1>1, <1>2, <1>4, <2>1, Zenon DEF SnapshotNotBehind, ShownInv
  <2>2. CASE shown' = edges
    <3>1. \A s \in Sources : /\ seen[s] \in Nat /\ shown[s] \in Nat
                             /\ edges[s] \in Nat /\ seen[s] <= shown[s]
                             /\ shown[s] <= edges[s]
      BY <1>1, Zenon DEF Types, ShownInv, SnapshotNotBehind
    <3>2. \A i \in DOMAIN queue : /\ queue[i].edge \in Nat
                                  /\ queue[i].src \in Sources
                                  /\ queue[i].edge <= shown[queue[i].src]
      BY <1>1 DEF Types, ShownInv, SnapshotNotBehind, EventSet
    <3>3. \A i \in DOMAIN queue : queue[i].edge <= edges[queue[i].src]
      BY <3>1, <3>2
    <3>4. \A s \in Sources : seen[s] <= edges[s]
      BY <3>1
    <3> QED
      BY <3>3, <3>4, <1>2, <1>4, <2>2, Zenon DEF SnapshotNotBehind
  <2> QED
    BY <1>5, <2>1, <2>2, Zenon
<1>8. ShownInv'
  <2>1. pc' \in {"send", "faultSend"} => ~dirty'
    BY <1>1, Zenon DEF PushDone, SkipSource, PublishDone, PublishDeferred,
           PollEnd, FaultPublish, FaultRetry, CloseQueue, vars, ShownInv
  <2>2. \A s \in Sources : shown'[s] <= edges'[s]
    BY <1>1, <1>2, <1>5 DEF ShownInv, Types
  <2>3. ~dirty' => shown' = edges'
    BY <1>1, <1>2, <1>5, Zenon DEF ShownInv
  <2> QED
    BY <1>4, <1>7, <2>1, <2>2, <2>3, Zenon DEF ShownInv
<1>9. PhaseInv'
  <2>1. \/ pc' = pc
        \/ pc \in Polling /\ pc' = "step"
        \/ pc = "publish" /\ pc' = "send"
        \/ pc = "step" /\ pc' = "idle"
        \/ pc \in Releasing /\ pc' \in Releasing
    BY Zenon DEF PushDone, SkipSource, PublishDone, PublishDeferred, PollEnd,
       FaultPublish, FaultRetry, CloseQueue, vars, Polling, Releasing
  <2> QED
    BY <1>1, <1>2, <1>4, <2>1, Zenon
    DEF PhaseInv, FaultReleases, Polling, Releasing
<1> QED
  BY <1>3, <1>6, <1>8, <1>9, Zenon DEF WorkerInv

(* A reading of the poll, of one source or of a radio group.                *)
LEMMA PollStep ==
  ASSUME WorkerInv,
         \/ PollSingle \/ PollPush \/ PollRadio
         \/ \E s \in Sources, level \in {"pressed", "released"} :
              PushEdge(s, level)
  PROVE  WorkerInv'
<1>1. CASE PollSingle
  <2>1. PICK got \in {"pressed", "released", "error"} :
          Read({step}, [x \in {step} |-> got])
    BY <1>1, Zenon DEF PollSingle
  <2>2. /\ {step} \in SUBSET Sources /\ pc = "step" /\ ThenPublish
        /\ UNCHANGED <<board, shown, queue, seen, faultVars>>
    BY <1>1, Zenon DEF PollSingle, SourceDue
  <2> DEFINE get == [x \in {step} |-> got]
  <2>3. \A s \in {step} : get[s] \in {"pressed", "released", "error"}
    BY Zenon
  <2> HIDE DEF get
  <2> QED
    BY <2>1, <2>2, <2>3, ReadStep, Zenon DEF get
<1>2. CASE PollPush
  <2> DEFINE get == [x \in {step} |-> IF Pressed(edges[x]) THEN "pressed"
                                                          ELSE "released"]
  <2>1. /\ Read({step}, get)
        /\ {step} \in SUBSET Sources /\ pc = "step" /\ ThenPublish
        /\ UNCHANGED <<board, shown, queue, seen, faultVars>>
    BY <1>2, Zenon DEF PollPush, SourceDue
  <2>2. \A s \in {step} : get[s] \in {"pressed", "released", "error"}
    BY Zenon
  <2> HIDE DEF get
  <2> QED
    BY <2>1, <2>2, ReadStep, Zenon
<1>3. ASSUME NEW s \in Sources, NEW level \in {"pressed", "released"},
             PushEdge(s, level)
      PROVE  WorkerInv'
  <2> DEFINE get == [x \in {s} |-> level]
  <2>1. /\ Read({s}, get)
        /\ {s} \in SUBSET Sources /\ pc = "step" /\ ThenPublish
        /\ UNCHANGED <<board, shown, queue, seen, faultVars>>
    BY <1>3, Zenon DEF PushEdge
  <2>2. \A x \in {s} : get[x] \in {"pressed", "released", "error"}
    BY Zenon
  <2> HIDE DEF get
  <2> QED
    BY <2>1, <2>2, ReadStep, Zenon
<1>4. CASE PollRadio
  <2> DEFINE group == {s \in Sources : board[s] = "radio"}
             downs(down) == [x \in group |-> IF x = down THEN "pressed"
                                                         ELSE "released"]
             errors == [x \in group |-> "error"]
  <2>1. /\ group \in SUBSET Sources /\ pc = "step" /\ ThenPublish
        /\ UNCHANGED <<board, shown, queue, seen, faultVars>>
    BY <1>4, Zenon DEF PollRadio, SourceDue
  <2>2. ASSUME NEW down \in group \cup {0}, Read(group, downs(down))
        PROVE  WorkerInv'
    <3>1. \A x \in group : downs(down)[x] \in {"pressed", "released", "error"}
      BY Zenon
    <3> HIDE DEF group, downs
    <3> QED
      BY <3>1, <2>1, <2>2, ReadStep, Zenon
  <2>3. ASSUME Read(group, errors)
        PROVE  WorkerInv'
    <3>1. \A x \in group : errors[x] \in {"pressed", "released", "error"}
      BY Zenon
    <3> HIDE DEF group, errors
    <3> QED
      BY <3>1, <2>1, <2>3, ReadStep, Zenon
  <2>4. ASSUME UNCHANGED <<edges, settled, pending, retained, dirty,
                           outstanding>>
        PROVE  WorkerInv'
    <3>1. Types /\ ListsInv /\ ShownInv /\ PhaseInv
      BY Zenon DEF WorkerInv
    <3>2. /\ Sources' = Sources /\ task' = task /\ lost' = lost
          /\ GaveUp' <=> GaveUp
      BY <2>1, Zenon DEF Sources, faultVars, GaveUp
    <3>3. ListsInv'
      BY <3>1, <3>2, <2>1, <2>4, QuietStep, Zenon
    <3>4. Types'
      BY <3>1, <3>2, <2>1, <2>4, Zenon DEF Types
    <3>5. pc' \in {"publish", "step"} /\ (pc' = "publish" => pending' # <<>>)
      BY <2>1, Zenon DEF ThenPublish
    <3>6. ShownInv' /\ PhaseInv'
      BY <3>1, <3>2, <3>5, <2>1, <2>4, Zenon
      DEF ShownInv, SnapshotNotBehind, PhaseInv, FaultReleases, Polling,
          Releasing
    <3> QED
      BY <3>3, <3>4, <3>6, Zenon DEF WorkerInv
  <2>5. \/ UNCHANGED <<edges, settled, pending, retained, dirty, outstanding>>
        \/ \E down \in group \cup {0} : Read(group, downs(down))
        \/ Read(group, errors)
    BY <1>4, Zenon DEF PollRadio
  <2> HIDE DEF group, downs, errors
  <2> QED
    BY <2>2, <2>3, <2>4, <2>5, Zenon
<1> QED
  BY <1>1, <1>2, <1>3, <1>4, Zenon

(* The lists after an operation c that leaves queue and main loop alone.    *)
LEMMA ListStep ==
  ASSUME ListsInv, UNCHANGED <<board, queue, seen>>, NEW c, Store(c),
         Delivers(Sources, Past, c, edges', Beyond'),
         lost' = 0 /\ ~GaveUp' => Live(Sources, Past, c, edges')
  PROVE  ListsInv'
<1>1. Sources' = Sources /\ Past' = Past
  BY Zenon DEF Sources, Past
<1>2. Lists' = c
  BY StoreLists, Zenon DEF Delivers, Sound, Fine
<1> QED
  BY <1>1, <1>2, Zenon DEF ListsInv

(* A poll begins: the retained edges are requeued.                          *)
LEMMA PollBeginStep ==
  ASSUME WorkerInv, PollBegin
  PROVE  WorkerInv'
<1> DEFINE c == Requeue(Lists)
<1>1. Types /\ ListsInv /\ ShownInv /\ PhaseInv
  BY Zenon DEF WorkerInv
<1>2. /\ Len(board) \in Nat /\ Sources = 1 .. Len(board)
      /\ Past \in SUBSET EventSet(Sources) /\ Sources' = Sources
      /\ \A s \in Sources : edges[s] \in Nat
  BY <1>1, BoardFinite, GoneType, Zenon DEF Types, Past, PollBegin, Sources
<1>3. /\ pc = "idle" /\ Store(c) /\ dirty' = (dirty \/ c.retained # retained)
      /\ pc' = IF c.retained # retained THEN "publish" ELSE "step"
      /\ UNCHANGED <<board, edges, shown, queue, seen, task, lost>>
      /\ task["input"] = "running" /\ Beyond' = Beyond /\ (GaveUp' <=> GaveUp)
  BY Zenon DEF PollBegin, MayPoll, faultVars, Beyond, GaveUp
<1>4. /\ Delivers(Sources, Past, Lists, edges, Beyond)
      /\ lost = 0 /\ ~GaveUp => Live(Sources, Past, Lists, edges)
  BY <1>1, <1>3, Zenon DEF ListsInv
<1> HIDE DEF c
<1>5. /\ Delivers(Sources, Past, c, edges, Beyond)
      /\ lost = 0 /\ ~GaveUp => Live(Sources, Past, c, edges)
      /\ c.retained # Lists.retained => c.pending # <<>>
  BY <1>2, <1>4, RequeueDelivers, Zenon DEF c
<1>6. ListsInv'
  BY <1>1, <1>3, <1>5, ListStep, Zenon
<1>7. Types'
  BY <1>1, <1>2, <1>3, Zenon DEF Types
<1>8. pc' \in {"publish", "step"} /\ (pc' = "publish" => pending' # <<>>)
  BY <1>3, <1>5, Zenon DEF Lists, Store
<1>9. ShownInv'
  BY <1>1, <1>2, <1>3, <1>8, Zenon DEF ShownInv, SnapshotNotBehind
<1>10. PhaseInv'
  BY <1>1, <1>3, <1>8, Zenon DEF PhaseInv, FaultReleases, Polling, Releasing
<1> QED
  BY <1>6, <1>7, <1>9, <1>10, Zenon DEF WorkerInv

(* The queue takes the head of the pending list: the snapshot shows it.     *)
LEMMA AcceptStep ==
  ASSUME WorkerInv, pc \in {"send", "faultSend"}, pending # <<>>, SendAccepted,
         UNCHANGED <<board, edges, shown, dirty, seen, task, lost>>
  PROVE  Types' /\ ListsInv' /\ SnapshotNotBehind'
<1> DEFINE e == Head(pending)
<1>1. Types /\ ListsInv /\ ShownInv
  BY Zenon DEF WorkerInv
<1>2. IsFiniteSet(Sources) /\ Sources' = Sources
  BY <1>1, BoardFinite, Zenon DEF Types, Sources
<1>3. /\ Delivers(Sources, Past, Lists, edges, Beyond)
      /\ QueueInOrder(queue, seen)
  BY <1>1, Zenon DEF ListsInv
<1>4. /\ Lists.pending = pending /\ Lists.retained = retained
      /\ Lists.outstanding = outstanding
  BY Zenon DEF Lists
<1>5. /\ queue' = Append(queue, Head(Lists.pending)) /\ Lists' = Sent(Lists)
      /\ Past' = Gone(Sources, queue', seen)
  BY <1>2, <1>4, Zenon DEF SendAccepted, Sent, Lists, Past
<1>6. pending \in Seq(EventSet(Sources))
  BY <1>3, <1>4, Zenon DEF Delivers, Sound, Fine, ListsSet
<1>7. Moves(Sources, queue, seen, pending, queue')
  BY <1>1, <1>6, SendMoves, Zenon DEF Types, SendAccepted
<1>8. Types'
  BY <1>1, <1>2, <1>7, Zenon DEF Types, Moves
<1>9. /\ Delivers(Sources, Past', Lists', edges, Beyond')
      /\ Live(Sources, Past, Lists, edges) =>
           Live(Sources, Past', Lists', edges)
      /\ QueueInOrder(queue', seen)
  <2>1. /\ seen \in [Sources -> Nat] /\ queue \in Seq(EventSet(Sources))
        /\ Lists.pending # <<>> /\ IsFiniteSet(Sources)
        /\ Delivers(Sources, Gone(Sources, queue, seen), Lists, edges, Beyond)
    BY <1>1, <1>2, <1>3, <1>4, Zenon DEF Types, Past
  <2>2. queue' = Append(queue, Head(Lists.pending)) /\ Lists' = Sent(Lists)
    BY <1>5, Zenon
  <2>3. Hands(Sources, queue, seen, Lists, edges, Beyond, queue', Lists')
    BY <2>1, <2>2, SendDelivers, Zenon
  <2>4. Beyond' = Beyond + 1
    <3>1. Len(queue') = Len(queue) + 1 /\ Len(queue) \in Nat /\ lost \in Nat
      BY <1>1, <1>7 DEF Types, Moves
    <3> QED
      BY <3>1 DEF Beyond
  <2> QED
    BY <1>3, <1>5, <2>3, <2>4, Zenon DEF Hands, Past
<1>10. ListsInv'
  <2>1. GaveUp' <=> GaveUp
    BY Zenon DEF GaveUp
  <2> QED
    BY <1>1, <1>2, <1>9, <2>1, Zenon DEF ListsInv
<1>11. e \in EventSet(Sources) /\ e.src \in Sources /\ e.edge <= shown[e.src]
  <2>1. e \in EventSet(Sources) /\ e = pending[1] /\ 1 \in DOMAIN pending
    BY <1>7, Zenon DEF Moves
  <2>2. e.src \in Sources
    BY <2>1, Zenon DEF EventSet
  <2>3. e \in Ahead(Past, Lists)
    BY <2>1, <1>4, Zenon DEF Ahead
  <2>4. e.edge <= edges[e.src]
    BY <2>2, <2>3, <1>3, Zenon DEF Delivers, Bound
  <2>5. shown = edges
    BY <1>1, Zenon DEF ShownInv
  <2> QED
    BY <2>1, <2>2, <2>4, <2>5, Zenon
<1>12. SnapshotNotBehind'
  <2>1. \A i \in DOMAIN queue' :
          (i \in DOMAIN queue /\ queue'[i] = queue[i]) \/ queue'[i] = e
    BY <1>1, <1>11 DEF SendAccepted, Types
  <2>2. \A i \in DOMAIN queue' : queue'[i].edge <= shown[queue'[i].src]
    BY <2>1, <1>1, <1>11, Zenon DEF ShownInv, SnapshotNotBehind
  <2> QED
    BY <2>2, <1>1, <1>2, Zenon DEF ShownInv, SnapshotNotBehind
<1> QED
  BY <1>8, <1>10, <1>12, Zenon

(* publish_pending_events sends one event.                                  *)
LEMMA SendStep ==
  ASSUME WorkerInv, Send \/ FaultSend
  PROVE  WorkerInv'
<1>1. Types /\ ListsInv /\ ShownInv /\ PhaseInv
  BY Zenon DEF WorkerInv
<1>2. /\ UNCHANGED <<board, edges, shown, dirty, seen, task, lost>>
      /\ pending # <<>>
      /\ \/ pc = "send" /\ pc' \in {"send", "step"}
         \/ pc = "faultSend" /\ pc' = "faultSend"
      /\ pc' = "send" => pending' # <<>>
      /\ SendAccepted \/ SendFull
  BY <1>1, Zenon DEF Send, FaultSend, PhaseInv, faultVars
<1>3. Sources' = Sources /\ (GaveUp' <=> GaveUp)
  BY <1>2, Zenon DEF Sources, GaveUp
<1>4. Types' /\ ListsInv' /\ SnapshotNotBehind'
  <2>1. CASE SendAccepted
    BY <2>1, <1>2, AcceptStep, Zenon
  <2>2. CASE SendFull
    <3> DEFINE c == Sift(Lists, Sources)
    <3>1. Store(c) /\ UNCHANGED <<board, queue, seen>>
      BY <2>2, <1>2, Zenon DEF SendFull
    <3>2. /\ IsFiniteSet(Sources) /\ Past \in SUBSET EventSet(Sources)
          /\ \A s \in Sources : edges[s] \in Nat
      BY <1>1, BoardFinite, GoneType, Zenon DEF Types, Past
    <3>3. /\ Delivers(Sources, Past, Lists, edges, Beyond)
          /\ lost = 0 /\ ~GaveUp => Live(Sources, Past, Lists, edges)
          /\ Beyond' = Beyond
      BY <1>1, <1>2, <3>1, Zenon DEF ListsInv, Beyond
    <3> HIDE DEF c
    <3>4. /\ Delivers(Sources, Past, c, edges, Beyond)
          /\ lost = 0 /\ ~GaveUp => Live(Sources, Past, c, edges)
      BY <3>2, <3>3, SiftDelivers, Zenon DEF c
    <3>5. ListsInv'
      BY <3>1, <3>3, <3>4, <1>1, <1>2, <1>3, ListStep, Zenon
    <3>6. Types' /\ SnapshotNotBehind'
      BY <3>1, <1>1, <1>2, <1>3, Zenon DEF Types, ShownInv, SnapshotNotBehind
    <3> QED
      BY <3>5, <3>6, Zenon
  <2> QED
    BY <1>2, <2>1, <2>2, Zenon
<1>5. ShownInv'
  BY <1>1, <1>2, <1>3, <1>4, Zenon DEF ShownInv
<1>6. PhaseInv'
  BY <1>1, <1>2, <1>3, Zenon DEF PhaseInv, FaultReleases, Polling, Releasing
<1> QED
  BY <1>4, <1>5, <1>6, Zenon DEF WorkerInv

(* A send of the poll fails: the pending events are lost, and known to be.  *)
LEMMA SendFailsStep ==
  ASSUME WorkerInv, SendFails
  PROVE  WorkerInv'
<1>1. Types /\ ListsInv /\ ShownInv /\ PhaseInv
  BY Zenon DEF WorkerInv
<1>2. /\ UNCHANGED <<board, edges, retained, dirty, shown, queue, seen,
                     outstanding, task>>
      /\ pc = "send" /\ pc' = "step" /\ pending # <<>> /\ pending' = <<>>
      /\ lost' = lost + Len(pending)
  BY Zenon DEF SendFails, Discard
<1>3. /\ IsFiniteSet(Sources) /\ Past \in SUBSET EventSet(Sources)
      /\ Sources' = Sources /\ Past' = Past
  BY <1>1, <1>2, BoardFinite, GoneType, Zenon DEF Types, Sources, Past
<1>4. /\ Lists.pending = pending /\ Lists \in ListsSet(Sources)
      /\ Delivers(Sources, Past, Lists, edges, Beyond)
  BY <1>1, Zenon DEF Lists, ListsInv, Delivers, Sound, Fine
<1>5. /\ Len(pending) \in Nat /\ Len(pending) # 0 /\ Len(queue) \in Nat
      /\ lost \in Nat
  BY <1>1, <1>2, <1>4 DEF ListsSet, Types
<1>6. /\ lost' \in Nat /\ lost' # 0
      /\ Beyond' = Beyond + Len(Lists.pending) - 0
  BY <1>2, <1>4, <1>5 DEF Beyond
<1>7. Lists' = Emptied(Lists, 0)
  <2>1. outstanding - 0 = outstanding
    BY <1>4 DEF ListsSet, Lists
  <2> QED
    BY <1>2, <2>1, Zenon DEF Lists, Emptied
<1>8. Delivers(Sources, Past, Lists', edges, Beyond')
  <2>1. 0 \in Int
    OBVIOUS
  <2> QED
    BY <1>3, <1>4, <1>6, <1>7, <2>1, EmptiedDelivers, Zenon
<1>9. ListsInv'
  BY <1>1, <1>2, <1>3, <1>6, <1>8, Zenon DEF ListsInv
<1>10. Types'
  BY <1>1, <1>2, <1>3, <1>6, Zenon DEF Types
<1>11. ShownInv'
  BY <1>1, <1>2, <1>3, Zenon DEF ShownInv, SnapshotNotBehind
<1>12. PhaseInv'
  BY <1>1, <1>2, <1>3, Zenon DEF PhaseInv, FaultReleases, Polling, Releasing
<1> QED
  BY <1>9, <1>10, <1>11, <1>12, Zenon DEF WorkerInv

(* A fault that cannot take the writer mutex changes no list.               *)
LEMMA SkippedStep ==
  ASSUME WorkerInv, NEW t \in Tasks, FaultSkipped(t)
  PROVE  WorkerInv'
<1>1. Types /\ ListsInv /\ ShownInv /\ PhaseInv
  BY Zenon DEF WorkerInv
<1>2. /\ UNCHANGED <<board, edges, pending, retained, dirty, shown, queue,
                     seen, outstanding, pc, lost>>
      /\ task[t] = "running" /\ task' = [task EXCEPT ![t] = "skipped"]
      /\ t = "input" => pc = "idle" \/ task["nfc"] = "releasing"
  BY Zenon DEF FaultSkipped, MayFault
<1>3. /\ task \in [Tasks -> {"running", "releasing", "released", "skipped"}]
      /\ Sources' = Sources
  BY <1>1, <1>2, Zenon DEF Types, Sources
<1>4. /\ task' \in [Tasks -> {"running", "releasing", "released", "skipped"}]
      /\ task'[t] = "skipped" /\ \A x \in Tasks : x # t => task'[x] = task[x]
  BY <1>2, <1>3, Zenon
<1>5. GaveUp => GaveUp'
  BY <1>2, <1>4, Zenon DEF GaveUp
<1>6. ListsInv'
  BY <1>1, <1>2, <1>5, QuietStep, Zenon
<1>7. Types' /\ ShownInv'
  BY <1>1, <1>2, <1>3, <1>4, Zenon DEF Types, ShownInv, SnapshotNotBehind
<1>8. PhaseInv'
  <2>1. \A x \in Tasks : task'[x] = "releasing" <=> task[x] = "releasing"
    BY <1>2, <1>4, Zenon
  <2>2. pc \in Polling => task'["input"] = "running"
    <3>1. "input" \in Tasks /\ "nfc" \in Tasks
      BY DEF Tasks
    <3>2. CASE t = "input"
      BY <3>1, <3>2, <1>1, <1>2, Zenon DEF PhaseInv, Polling, Releasing
    <3>3. CASE t # "input"
      BY <3>1, <3>3, <1>1, <1>4, Zenon DEF PhaseInv
    <3> QED
      BY <3>2, <3>3, Zenon
  <2>3. task'["input"] = "released" => task["input"] = "released"
    <3>1. "input" \in Tasks
      BY DEF Tasks
    <3> QED
      BY <3>1, <1>4, Zenon
  <2> QED
    BY <1>1, <1>2, <1>3, <2>1, <2>2, <2>3, Zenon DEF PhaseInv, FaultReleases
<1> QED
  BY <1>6, <1>7, <1>8, Zenon DEF WorkerInv

(* The main loop receives an event.                                         *)
LEMMA ReceiveStep ==
  ASSUME WorkerInv, Receive
  PROVE  WorkerInv'
<1> DEFINE e == Head(queue)
<1>1. Types /\ ListsInv /\ ShownInv /\ PhaseInv
  BY Zenon DEF WorkerInv
<1>2. /\ queue # <<>> /\ queue' = Tail(queue) /\ seen' = SeenNext(seen, e)
      /\ UNCHANGED <<board, edges, pending, retained, dirty, shown, pc, task,
                     lost>>
      /\ Lists' = Received(Lists)
  BY Zenon DEF Receive, SeenNext, Lists, Received, faultVars
<1>3. /\ IsFiniteSet(Sources) /\ Sources' = Sources
      /\ \A s \in Sources : edges[s] \in Nat
      /\ seen \in [Sources -> Nat] /\ queue \in Seq(EventSet(Sources))
  BY <1>1, <1>2, BoardFinite, Zenon DEF Types, Sources
<1>4. Receives(Sources, queue, seen, e, seen')
  BY <1>2, <1>3, ReceiveEchoes, Zenon
<1>5. Types'
  BY <1>1, <1>2, <1>3, <1>4, Zenon DEF Types, Receives
<1>6. ListsInv'
  <2>1. /\ Delivers(Sources, Gone(Sources, queue, seen), Lists, edges, Beyond)
        /\ QueueInOrder(queue, seen)
    BY <1>1, Zenon DEF ListsInv, Past
  <2>2. /\ Delivers(Sources, Gone(Sources, Tail(queue), seen'), Lists', edges,
                    Beyond - 1)
        /\ QueueInOrder(Tail(queue), seen')
        /\ Live(Sources, Gone(Sources, queue, seen), Lists, edges) =>
             Live(Sources, Gone(Sources, Tail(queue), seen'), Lists', edges)
    BY <1>2, <1>3, <2>1, ReceiveDelivers, Zenon
  <2>3. Past' = Gone(Sources, Tail(queue), seen') /\ (GaveUp' <=> GaveUp)
    BY <1>2, <1>3, Zenon DEF Past, GaveUp
  <2>4. Beyond' = Beyond - 1
    <3>1. /\ Len(Tail(queue)) = Len(queue) - 1 /\ Len(queue) \in Nat
          /\ lost \in Nat
      BY <1>1, <1>2, <1>3 DEF Types
    <3> QED
      BY <1>2, <3>1 DEF Beyond
  <2> QED
    BY <1>1, <1>2, <1>3, <2>2, <2>3, <2>4, Zenon DEF ListsInv, Past
<1>7. SnapshotNotBehind'
  <2>1. \A i \in DOMAIN queue : queue[i].edge <= shown[queue[i].src]
    BY <1>1, Zenon DEF ShownInv, SnapshotNotBehind
  <2>2. \A i \in DOMAIN Tail(queue) :
          Tail(queue)[i].edge <= shown[Tail(queue)[i].src]
    BY <2>1, <1>4, Zenon DEF Receives
  <2>3. ASSUME NEW s \in Sources
        PROVE  seen'[s] <= shown[s]
    <3>1. CASE s = e.src /\ e.kind \in {"down", "up"}
      <4>1. seen'[s] = e.edge
        BY <3>1, <1>2, <1>3, Zenon DEF SeenNext
      <4>2. e.edge <= shown[e.src]
        BY <2>1, <1>4, Zenon DEF Receives
      <4> QED
        BY <3>1, <4>1, <4>2, Zenon
    <3>2. CASE ~(s = e.src /\ e.kind \in {"down", "up"})
      <4>1. seen'[s] = seen[s]
        BY <3>2, <1>2, <1>3, Zenon DEF SeenNext
      <4> QED
        BY <4>1, <1>1, Zenon DEF ShownInv, SnapshotNotBehind
    <3> QED
      BY <3>1, <3>2, Zenon
  <2> QED
    BY <1>2, <1>3, <2>2, <2>3, Zenon DEF SnapshotNotBehind
<1>8. ShownInv'
  BY <1>1, <1>2, <1>3, <1>7, Zenon DEF ShownInv
<1>9. PhaseInv'
  BY <1>1, <1>2, <1>3, Zenon DEF PhaseInv, FaultReleases
<1> QED
  BY <1>5, <1>6, <1>8, <1>9, Zenon DEF WorkerInv

(* A terminal fault releases the held buttons.                              *)
LEMMA FaultStep ==
  ASSUME WorkerInv, NEW t \in Tasks, Fault(t)
  PROVE  WorkerInv'
<1> DEFINE held == {s \in Sources : Pressed(edges[s])}
           readings == [s \in Sources |->
                          IF s \in held THEN "released" ELSE "none"]
           b == TakeAll(Lists, readings)
           c == Requeue(b)
<1>1. Types /\ ListsInv /\ ShownInv
  BY Zenon DEF WorkerInv
<1>2. /\ Len(board) \in Nat /\ Sources = 1 .. Len(board)
      /\ Past \in SUBSET EventSet(Sources) /\ Sources' = Sources
      /\ Beyond' = Beyond /\ lost' = lost
  BY <1>1, BoardFinite, GoneType, Zenon
  DEF Types, Past, Fault, Sources, Beyond
<1>3. /\ pc = "idle" /\ Store(c) /\ pc' = "faultPublish1"
      /\ edges' = [s \in Sources |-> NextEdge(s, readings[s])]
      /\ dirty' = (dirty \/ held # {} \/ retained' # retained)
      /\ UNCHANGED <<board, shown, queue, seen>>
      /\ task[t] = "running" /\ task' = [task EXCEPT ![t] = "releasing"]
  BY Zenon DEF Fault, MayFault
<1>4. \A s \in Sources : edges[s] \in Nat /\ readings[s] \in Readings
  BY <1>1, Zenon DEF Types, Readings
<1>5. ASSUME NEW s \in Sources
      PROVE  /\ edges'[s] = NextEdge(s, readings[s])
             /\ edges'[s] \in Nat /\ edges[s] <= edges'[s]
             /\ ~Pressed(edges'[s])
             /\ held = {} => edges'[s] = edges[s]
  <2>1. edges'[s] = NextEdge(s, readings[s]) /\ edges[s] \in Nat
    BY <1>3, <1>4, Zenon
  <2>2. edges'[s] \in Nat /\ (edges'[s] = edges[s] \/ edges'[s] = edges[s] + 1)
    BY <2>1, NextEdgeType, Zenon
  <2>3. ~Pressed(edges'[s])
    <3>1. CASE Pressed(edges[s])
      <4>1. readings[s] = "released"
        BY <3>1, Zenon
      <4> QED
        BY <2>1, <4>1, NextEdgeType, Zenon
    <3>2. CASE ~Pressed(edges[s])
      <4>1. readings[s] = "none"
        BY <3>2, Zenon
      <4> QED
        BY <2>1, <3>2, <4>1, NextEdgeType, Zenon
    <3> QED
      BY <3>1, <3>2, Zenon
  <2>4. held = {} => edges'[s] = edges[s]
    <3>1. held = {} => readings[s] = "none"
      BY Zenon
    <3> QED
      BY <3>1, <2>1, NextEdgeType, Zenon
  <2> QED
    BY <2>1, <2>2, <2>3, <2>4
<1>6. /\ Delivers(Sources, Past, b, edges', Beyond)
      /\ Live(Sources, Past, Lists, edges) => Live(Sources, Past, b, edges')
  <2>1. Delivers(Sources, Past, Lists, edges, Beyond)
    BY <1>1, <1>3, Zenon DEF ListsInv
  <2>2. \A s \in Sources : edges'[s] = NextEdge(s, readings[s])
    BY <1>5, Zenon
  <2> HIDE DEF readings
  <2> QED
    BY <1>2, <1>4, <2>1, <2>2, ReadDelivers, Zenon
<1> HIDE DEF b, c
<1>7. /\ Delivers(Sources, Past, c, edges', Beyond)
      /\ Live(Sources, Past, b, edges') => Live(Sources, Past, c, edges')
  <2>1. \A s \in Sources : edges'[s] \in Nat
    BY <1>5, Zenon
  <2> QED
    BY <1>2, <1>6, <2>1, RequeueDelivers, Zenon DEF c
<1>8. /\ task' \in [Tasks -> {"running", "releasing", "released", "skipped"}]
      /\ task'[t] = "releasing" /\ (GaveUp => GaveUp')
  <2>1. task \in [Tasks -> {"running", "releasing", "released", "skipped"}]
    BY <1>1, Zenon DEF Types
  <2> QED
    BY <1>3, <2>1, Zenon DEF GaveUp
<1>9. ListsInv'
  <2>1. lost' = 0 /\ ~GaveUp' => Live(Sources, Past, c, edges')
    BY <1>1, <1>2, <1>6, <1>7, <1>8, Zenon DEF ListsInv
  <2> QED
    BY <1>1, <1>2, <1>3, <1>7, <2>1, ListStep, Zenon
<1>10. edges' \in [Sources -> Nat]
  BY <1>3, <1>5, Zenon
<1>11. Types'
  BY <1>1, <1>2, <1>3, <1>8, <1>10, Zenon DEF Types
<1>12. ShownInv'
  <2>1. ASSUME dirty' = FALSE
        PROVE  dirty = FALSE /\ edges' = edges
    <3>1. dirty = FALSE /\ held = {}
      BY <2>1, <1>1, <1>3, Zenon DEF Types
    <3>2. \A s \in Sources : edges'[s] = edges[s]
      BY <3>1, <1>5, Zenon
    <3> QED
      BY <3>1, <3>2, <1>1, <1>10 DEF Types
  <2>2. \A s \in Sources : edges[s] <= edges'[s]
    BY <1>5, Zenon
  <2>3. dirty' \in BOOLEAN /\ pc' \notin {"send", "faultSend"}
    BY <1>3, <1>11, Zenon DEF Types
  <2> QED
    BY <1>1, <1>3, <1>10, <2>1, <2>2, <2>3, ShownStays, Zenon
<1>13. PhaseInv'
  BY <1>2, <1>3, <1>5, <1>8, Zenon
  DEF PhaseInv, FaultReleases, Polling, Releasing
<1> QED
  BY <1>11, <1>12, <1>13, <1>9, Zenon DEF WorkerInv

(* The fault evicts what is retained and gives up the rest.                 *)
LEMMA FaultEndStep ==
  ASSUME WorkerInv, FaultGiveUp \/ FaultSent \/ FaultSendFails
  PROVE  WorkerInv'
<1>1. Types /\ ListsInv /\ ShownInv /\ PhaseInv
  BY Zenon DEF WorkerInv
<1>2. /\ IsFiniteSet(Sources) /\ Past \in SUBSET EventSet(Sources)
      /\ \A s \in Sources : edges[s] \in Nat
  BY <1>1, BoardFinite, GoneType, Zenon DEF Types, Past
<1>3. /\ pc' = "idle" /\ pc \in Releasing
      /\ UNCHANGED <<board, edges, dirty, shown, queue, seen>>
      /\ task' = [t \in Tasks |->
                    IF task[t] = "releasing" THEN "released" ELSE task[t]]
  BY Zenon DEF FaultGiveUp, FaultSent, FaultSendFails, Released, Releasing
<1>4. /\ Delivers(Sources, Past, Lists, edges, Beyond) /\ Sources' = Sources
      /\ Lists.pending = pending /\ Lists \in ListsSet(Sources)
      /\ task \in [Tasks -> {"running", "releasing", "released", "skipped"}]
  BY <1>1, <1>3, Zenon
  DEF ListsInv, Sources, Types, Lists, Delivers, Sound, Fine
<1>5. /\ Len(pending) \in Nat /\ Len(queue) \in Nat /\ lost \in Nat
      /\ Beyond \in Nat
  BY <1>1, <1>4 DEF ListsSet, Types, Beyond
<1>6. \E g : /\ Delivers(Sources, Past, g, edges, Beyond')
             /\ g.pending = <<>> /\ Store(EvictAll(g)) /\ lost' \in Nat
  <2>1. CASE FaultGiveUp
    <3> DEFINE g == Emptied(Lists, Len(pending))
    <3>1. Beyond' = Beyond /\ lost' = lost
      BY <2>1, Zenon DEF FaultGiveUp, Beyond
    <3>2. Store(EvictAll(g))
      BY <2>1, <1>4, ListsEmptied, Zenon DEF FaultGiveUp
    <3>3. /\ Beyond + Len(Lists.pending) - Len(pending) = Beyond
          /\ Len(pending) \in Int
      BY <1>4, <1>5
    <3>4. /\ Delivers(Sources, Past, g, edges,
                      Beyond + Len(Lists.pending) - Len(pending))
          /\ g.pending = <<>>
      BY <1>2, <1>4, <3>3, EmptiedDelivers, Zenon
    <3> QED
      BY <3>1, <3>2, <3>3, <3>4, <1>5, Zenon
  <2>2. CASE FaultSent
    <3> DEFINE g == Sift(Lists, Sources)
    <3>1. Store(EvictAll(g)) /\ Beyond' = Beyond /\ lost' = lost
      BY <2>2, Zenon DEF FaultSent, Beyond
    <3>2. Delivers(Sources, Past, g, edges, Beyond) /\ g.pending = <<>>
      BY <1>2, <1>4, SiftDelivers, Zenon
    <3> QED
      BY <3>1, <3>2, <1>5, Zenon
  <2>3. CASE FaultSendFails
    <3> DEFINE g == Emptied(Lists, 0)
    <3>1. queue' = queue /\ lost' = lost + Len(pending)
      BY <2>3, Zenon DEF FaultSendFails, Discard
    <3>2. Store(EvictAll(g))
      BY <2>3, <1>4, ListsEmptied, Zenon DEF FaultSendFails
    <3>3. /\ Beyond' = Beyond + Len(Lists.pending) - 0 /\ 0 \in Int
          /\ lost' \in Nat
      BY <1>4, <1>5, <3>1 DEF Beyond
    <3>4. Delivers(Sources, Past, g, edges, Beyond') /\ g.pending = <<>>
      BY <1>2, <1>4, <3>3, EmptiedDelivers, Zenon
    <3> QED
      BY <3>2, <3>3, <3>4, Zenon
  <2> QED
    BY <2>1, <2>2, <2>3, Zenon
<1>7. PICK g : /\ Delivers(Sources, Past, g, edges, Beyond')
               /\ g.pending = <<>> /\ Store(EvictAll(g)) /\ lost' \in Nat
  BY <1>6, Zenon
<1>8. PICK c : c = EvictAll(g)
  BY Zenon
<1>9. /\ Delivers(Sources, Past, c, edges, Beyond')
      /\ c.pending = <<>> /\ \A s \in Sources : c.retained[s] = <<>>
  <2>1. PICK k : k = Beyond'
    BY Zenon
  <2>2. Delivers(Sources, Past, g, edges, k) /\ g.pending = <<>>
    BY <1>7, <2>1, Zenon
  <2>3. /\ Delivers(Sources, Past, c, edges, k) /\ c.pending = g.pending
        /\ NoneRetained(Sources, c)
    <3>1. /\ IsFiniteSet(Sources) /\ Past \in SUBSET EventSet(Sources)
          /\ Delivers(Sources, Past, g, edges, k)
      BY <1>2, <2>2, Zenon
    <3> QED
      BY <1>8, <3>1, EvictDelivers, Zenon
  <2> QED
    BY <2>1, <2>2, <2>3, Zenon DEF NoneRetained
<1>10. Store(c)
  BY <1>7, <1>8, Zenon
<1>11. /\ \A t \in Tasks : task'[t] # "releasing"
       /\ task' \in [Tasks -> {"running", "releasing", "released", "skipped"}]
       /\ GaveUp'
  <2>1. PICK t \in Tasks : task[t] = "releasing"
    BY <1>1, <1>3, Zenon DEF PhaseInv
  <2>2. \A x \in Tasks : task'[x] = IF task[x] = "releasing" THEN "released"
                                                            ELSE task[x]
    BY <1>3, Zenon
  <2>3. GaveUp'
    BY <2>1, <2>2, Zenon DEF GaveUp
  <2>4. task' \in [Tasks -> {"running", "releasing", "released", "skipped"}]
    BY <1>3, <1>4, Zenon
  <2> QED
    BY <2>2, <2>3, <2>4, Zenon
<1>12. ListsInv'
  BY <1>1, <1>3, <1>9, <1>10, <1>11, ListStep, Zenon
<1>13. Types'
  BY <1>1, <1>3, <1>4, <1>7, <1>11, Zenon DEF Types
<1>14. ShownInv'
  BY <1>1, <1>3, <1>4, Zenon
  DEF ShownInv, SnapshotNotBehind, Releasing
<1>15. PhaseInv'
  BY <1>1, <1>3, <1>4, <1>9, <1>10, <1>11, Zenon
  DEF PhaseInv, FaultReleases, Store, Polling, Releasing
<1> QED
  BY <1>12, <1>13, <1>14, <1>15, Zenon DEF WorkerInv

(* WorkerInv is inductive.                                                  *)
LEMMA NextWorkerInv == WorkerInv /\ [Next]_vars => WorkerInv'
<1> SUFFICES ASSUME WorkerInv, [Next]_vars
             PROVE  WorkerInv'
  BY Zenon
<1>1. CASE \/ PushDone \/ SkipSource \/ PublishDone \/ PublishDeferred
           \/ PollEnd \/ FaultPublish \/ FaultRetry \/ CloseQueue
           \/ UNCHANGED vars
  BY <1>1, PlainStep, Zenon
<1>2. CASE \/ PollSingle \/ PollPush \/ PollRadio
           \/ \E s \in Sources, level \in {"pressed", "released"} :
                PushEdge(s, level)
  BY <1>2, PollStep, Zenon
<1>3. CASE PollBegin
  BY <1>3, PollBeginStep, Zenon
<1>4. CASE Send \/ FaultSend
  BY <1>4, SendStep, Zenon
<1>5. CASE Receive
  BY <1>5, ReceiveStep, Zenon
<1>6. CASE SendFails
  BY <1>6, SendFailsStep, Zenon
<1>7. CASE FaultGiveUp \/ FaultSent \/ FaultSendFails
  BY <1>7, FaultEndStep, Zenon
<1>8. CASE \E t \in Tasks : Fault(t) \/ FaultSkipped(t)
  BY <1>8, FaultStep, SkippedStep, Zenon
<1> QED
  BY <1>1, <1>2, <1>3, <1>4, <1>5, <1>6, <1>7, <1>8, Zenon DEF Next, Worker

(* The invariant of the input worker.                                       *)
LEMMA WorkerInvariant == Spec => []WorkerInv
BY InitWorkerInv, NextWorkerInv, PTL DEF Spec

------------------------------------------------------------------------------
(* What the main loop will still receive of a source.                       *)

(* The i-th place of the stream behind the pending events.                  *)
HeldAt(held, s, i) ==
  LET x == held[(i + 1) \div 2]
  IN CASE i % 2 = 1 /\ "edge" \in x.owes -> EdgeEvent(s, x.edge)
       [] i % 2 = 0 /\ "action" \in x.owes -> ActionEvent(s, x.edge)
       [] OTHER -> Nothing

(* A function on 1 .. n is a sequence.                                      *)
LEMMA FunctionIsSequence ==
  ASSUME NEW T, NEW n \in Nat, NEW h \in [1 .. n -> T]
  PROVE  h \in Seq(T) /\ Len(h) = n
OBVIOUS

(* The parts of a concatenation.                                            *)
InTwoParts(T, g, h, n, m) ==
  /\ g \o h \in Seq(T) /\ Len(g \o h) = n + m
  /\ \A i \in 1 .. n : (g \o h)[i] = g[i]
  /\ \A i \in 1 .. m : (g \o h)[n + i] = h[i]

(* Both parts are found in a concatenation.                                 *)
LEMMA Concatenation ==
  ASSUME NEW T, NEW g \in Seq(T), NEW h \in Seq(T),
         NEW n \in Nat, Len(g) = n, NEW m \in Nat, Len(h) = m
  PROVE  InTwoParts(T, g, h, n, m)
BY DEF InTwoParts

(* The stream is the queue, the pending list and the retained edges.        *)
LEMMA StreamParts ==
  ASSUME NEW s, queue \in Seq(EventSet(Sources)),
         pending \in Seq(EventSet(Sources)), Len(retained[s]) \in Nat
  PROVE  LET q == Len(queue)
             p == Len(pending)
             r == Len(retained[s])
         IN /\ DOMAIN Stream(s) = 1 .. q + p + 2 * r
            /\ Len(Stream(s)) = q + p + 2 * r
            /\ \A i \in 1 .. q : Stream(s)[i] = queue[i]
            /\ \A i \in 1 .. p : Stream(s)[q + i] = pending[i]
            /\ \A i \in 1 .. 2 * r :
                 Stream(s)[q + p + i] = HeldAt(retained[s], s, i)
<1> DEFINE q == Len(queue)
           p == Len(pending)
           r == Len(retained[s])
           h == [i \in 1 .. 2 * r |-> HeldAt(retained[s], s, i)]
           T == EventSet(Sources) \cup {h[i] : i \in 1 .. 2 * r}
<1>1. Stream(s) = (queue \o pending) \o h
  BY Zenon DEF Stream, HeldAt
<1>2. q \in Nat /\ p \in Nat /\ 2 * r \in Nat
  OBVIOUS
<1>3. /\ h \in [1 .. 2 * r -> T]
      /\ \A i \in 1 .. 2 * r : h[i] = HeldAt(retained[s], s, i)
  BY Zenon
<1>4. queue \in Seq(T) /\ pending \in Seq(T)
  OBVIOUS
<1> HIDE DEF h, T
<1>5. h \in Seq(T) /\ Len(h) = 2 * r
  BY <1>2, <1>3, FunctionIsSequence, Zenon
<1>6. /\ queue \o pending \in Seq(T) /\ Len(queue \o pending) = q + p
      /\ \A i \in 1 .. q : (queue \o pending)[i] = queue[i]
      /\ \A i \in 1 .. p : (queue \o pending)[q + i] = pending[i]
  BY <1>2, <1>4
<1>7. /\ Stream(s) \in Seq(T) /\ Len(Stream(s)) = (q + p) + 2 * r
      /\ \A i \in 1 .. q + p : Stream(s)[i] = (queue \o pending)[i]
      /\ \A i \in 1 .. 2 * r : Stream(s)[q + p + i] = h[i]
  <2> DEFINE g == queue \o pending
  <2>1. Stream(s) = g \o h /\ g \in Seq(T) /\ Len(g) = q + p
    BY <1>1, <1>6, Zenon
  <2>2. \A i \in 1 .. q + p : (queue \o pending)[i] = g[i]
    BY Zenon
  <2> DEFINE n == q + p
             m == 2 * r
  <2>3. n \in Nat /\ m \in Nat /\ Len(g) = n /\ Len(h) = m
    BY <1>2, <1>5, <2>1
  <2> HIDE DEF g, n, m
  <2>4. /\ g \o h \in Seq(T) /\ Len(g \o h) = n + m
        /\ \A i \in 1 .. n : (g \o h)[i] = g[i]
        /\ \A i \in 1 .. m : (g \o h)[n + i] = h[i]
    <3>1. g \in Seq(T) /\ h \in Seq(T)
      BY <1>5, <2>1, Zenon
    <3>2. InTwoParts(T, g, h, n, m)
      BY <3>1, <2>3, Concatenation, Zenon
    <3> QED
      BY <3>2, Zenon DEF InTwoParts
  <2> QED
    BY <2>1, <2>2, <2>4, Zenon DEF n, m
<1>8. DOMAIN Stream(s) = 1 .. q + p + 2 * r
  BY <1>7
<1> HIDE DEF q, p, r
<1>9. \A i \in 1 .. q : i \in 1 .. q + p
  BY <1>2
<1>10. \A i \in 1 .. p : q + i \in 1 .. q + p
  BY <1>2
<1> QED
  BY <1>2, <1>3, <1>6, <1>7, <1>8, <1>9, <1>10, Zenon DEF q, p, r

(* The i-th of those places holds an event e of s only where its retained   *)
(* edge k owes it.                                                          *)
Owes(held, s, i, k, e) ==
  /\ k \in DOMAIN held
  /\ \/ /\ i = 2 * k - 1 /\ "edge" \in held[k].owes
        /\ e = EdgeEvent(s, held[k].edge)
     \/ /\ i = 2 * k /\ "action" \in held[k].owes
        /\ e = ActionEvent(s, held[k].edge)

(* A place of the retained part names an edge and what it owes.             *)
LEMMA HeldOwes ==
  ASSUME NEW held \in Seq(EdgeSet), NEW s, s # 0,
         NEW i \in 1 .. 2 * Len(held), HeldAt(held, s, i).src = s
  PROVE  \E k \in DOMAIN held : Owes(held, s, i, k, HeldAt(held, s, i))
<1> DEFINE k == (i + 1) \div 2
           x == held[k]
           e == HeldAt(held, s, i)
<1>1. Len(held) \in Nat /\ DOMAIN held = 1 .. Len(held)
  OBVIOUS
<1>2. k \in 1 .. Len(held)
  BY <1>1
<1>3. (i % 2 = 1 /\ i = 2 * k - 1) \/ (i % 2 = 0 /\ i = 2 * k)
  BY <1>1
<1>4. Nothing.src = 0
  BY Zenon DEF Nothing, Event
<1>5. e = CASE i % 2 = 1 /\ "edge" \in x.owes -> EdgeEvent(s, x.edge)
            [] i % 2 = 0 /\ "action" \in x.owes -> ActionEvent(s, x.edge)
            [] OTHER -> Nothing
  BY Zenon DEF HeldAt
<1> HIDE DEF k, e
<1>6. i % 2 = 1 => i % 2 # 0
  OBVIOUS
<1>7. CASE i % 2 = 1 /\ i = 2 * k - 1
  <2>1. "edge" \in x.owes /\ e = EdgeEvent(s, x.edge)
    <3>1. CASE "edge" \in x.owes
      BY <3>1, <1>5, <1>6, <1>7, Zenon
    <3>2. CASE "edge" \notin x.owes
      <4>1. e = Nothing
        BY <3>2, <1>5, <1>6, <1>7, Zenon
      <4> QED
        BY <4>1, <1>4, Zenon DEF e
    <3> QED
      BY <3>1, <3>2, Zenon
  <2> QED
    BY <2>1, <1>1, <1>2, <1>7, Zenon DEF Owes, e
<1>8. CASE i % 2 = 0 /\ i = 2 * k
  <2>1. "action" \in x.owes /\ e = ActionEvent(s, x.edge)
    <3>1. CASE "action" \in x.owes
      BY <3>1, <1>5, <1>6, <1>8, Zenon
    <3>2. CASE "action" \notin x.owes
      <4>1. e = Nothing
        BY <3>2, <1>5, <1>6, <1>8, Zenon
      <4> QED
        BY <4>1, <1>4, Zenon DEF e
    <3> QED
      BY <3>1, <3>2, Zenon
  <2> QED
    BY <2>1, <1>1, <1>2, <1>8, Zenon DEF Owes, e
<1> QED
  BY <1>3, <1>7, <1>8, Zenon

(* Such an event comes after the events in front of its edge, and after     *)
(* those of the places before.                                              *)
LEMMA OwedAfter ==
  ASSUME NEW A, NEW s, NEW held \in Seq(EdgeSet), Ordered(A, s, held),
         NEW j \in Nat, NEW k, NEW e, Owes(held, s, j, k, e)
  PROVE  /\ e.src = s /\ e.edge = held[k].edge /\ e.edge \in Nat
         /\ \A a \in A : a.src = s => Before(a, e)
         /\ \A i \in Nat : \A m, d :
              i < j /\ Owes(held, s, i, m, d) => Before(d, e)
<1>1. k \in DOMAIN held /\ held[k] \in EdgeSet
  BY DEF Owes
<1>2. /\ e.src = s /\ e.edge = held[k].edge /\ e.edge \in Nat
      /\ e.kind # "action" => "edge" \in held[k].owes
  <2>1. /\ e.src = s /\ e.edge = held[k].edge
        /\ e.kind # "action" => "edge" \in held[k].owes
    <3>1. CASE "edge" \in held[k].owes /\ e = EdgeEvent(s, held[k].edge)
      BY <3>1, Zenon DEF EdgeEvent, Event
    <3>2. CASE e = ActionEvent(s, held[k].edge)
      BY <3>2, Zenon DEF ActionEvent, Event
    <3> QED
      BY <3>1, <3>2, Zenon DEF Owes
  <2> QED
    BY <2>1, <1>1, Zenon DEF EdgeSet
<1>3. ASSUME NEW a \in A, a.src = s
      PROVE  Before(a, e)
  <2>1. BeforeHeld(a, held[k])
    BY <1>1, <1>3, Zenon DEF Ordered
  <2> QED
    BY <2>1, <1>2 DEF BeforeHeld, Before
<1>4. ASSUME NEW i \in Nat, NEW m, NEW d, i < j, Owes(held, s, i, m, d)
      PROVE  Before(d, e)
  <2>1. m \in DOMAIN held /\ held[m] \in EdgeSet
    BY <1>4 DEF Owes
  <2>2. k \in Nat /\ m \in Nat /\ k # 0 /\ m # 0
    BY <1>1, <2>1
  <2>3. d.edge = held[m].edge
    BY <1>4 DEF Owes, EdgeEvent, ActionEvent, Event
  <2>4. (i = 2 * m - 1 \/ i = 2 * m) /\ (j = 2 * k - 1 \/ j = 2 * k)
    BY <1>4, Zenon DEF Owes
  <2>5. m < k \/ (m = k /\ i = 2 * m - 1 /\ j = 2 * k)
    BY <1>4, <2>2, <2>4
  <2>6. CASE m < k
    <3>1. m \in 1 .. k - 1
      BY <2>2, <2>6
    <3>2. held[m].edge < held[k].edge
      BY <3>1, <1>1, Zenon DEF Ordered
    <3> QED
      BY <3>2, <2>3, <1>2, Zenon DEF Before
  <2>7. CASE m = k /\ i = 2 * m - 1 /\ j = 2 * k
    <3>1. i # 2 * m /\ j # 2 * k - 1
      BY <2>7, <2>2
    <3>2. d = EdgeEvent(s, held[k].edge)
      BY <3>1, <2>7, <1>4, Zenon DEF Owes
    <3>3. e = ActionEvent(s, held[k].edge) /\ "action" \in held[k].owes
      BY <3>1, Zenon DEF Owes
    <3>4. ~Pressed(held[k].edge)
      BY <3>3, <1>1, Zenon DEF EdgeSet
    <3>5. d.kind = "up" /\ e.kind = "action" /\ d.edge = e.edge
      BY <3>2, <3>3, <3>4, Zenon DEF EdgeEvent, ActionEvent, Event
    <3> QED
      BY <3>5, Zenon DEF Before
  <2> QED
    BY <2>5, <2>6, <2>7, Zenon
<1> QED
  BY <1>2, <1>3, <1>4, Zenon

(* Where the j-th event of the stream of s is: in the queue, pending, or    *)
(* owed by a retained edge.                                                 *)
InQueue(s, j) == j \in DOMAIN queue /\ Stream(s)[j] = queue[j]
InPending(s, j) ==
  /\ j - Len(queue) \in DOMAIN pending
  /\ Stream(s)[j] = pending[j - Len(queue)]
InHeld(s, j) ==
  /\ j > Len(queue) + Len(pending)
  /\ \E k \in DOMAIN retained[s] :
       Owes(retained[s], s, j - (Len(queue) + Len(pending)), k, Stream(s)[j])

(* The types of the lists, and where an event of the stream can be.         *)
LEMMA StreamPlaces ==
  ASSUME Types, ListsInv, NEW s \in Sources
  PROVE  /\ queue \in Seq(EventSet(Sources)) /\ Len(queue) \in Nat
         /\ pending \in Seq(EventSet(Sources)) /\ Len(pending) \in Nat
         /\ retained[s] \in Seq(EdgeSet)
         /\ DOMAIN Stream(s) \in SUBSET (Nat \ {0})
         /\ DOMAIN Stream(s) = 1 .. Len(Stream(s)) /\ Len(Stream(s)) \in Nat
         /\ \A j \in DOMAIN Stream(s) :
              Stream(s)[j].src = s =>
                InQueue(s, j) \/ InPending(s, j) \/ InHeld(s, j)
<1> DEFINE q == Len(queue)
           p == Len(pending)
           r == Len(retained[s])
<1>1. /\ queue \in Seq(EventSet(Sources)) /\ pending \in Seq(EventSet(Sources))
      /\ retained[s] \in Seq(EdgeSet)
  <2>1. Lists \in ListsSet(Sources)
    BY Zenon DEF ListsInv, Delivers, Sound, Fine
  <2>2. Lists.pending = pending /\ Lists.retained = retained
    BY Zenon DEF Lists
  <2> QED
    BY <2>1, <2>2, Zenon DEF Types, ListsSet
<1>2. /\ q \in Nat /\ p \in Nat /\ r \in Nat
      /\ DOMAIN queue = 1 .. q /\ DOMAIN pending = 1 .. p
  BY <1>1
<1>3. /\ DOMAIN Stream(s) = 1 .. q + p + 2 * r
      /\ Len(Stream(s)) = q + p + 2 * r
      /\ \A i \in 1 .. q : Stream(s)[i] = queue[i]
      /\ \A i \in 1 .. p : Stream(s)[q + i] = pending[i]
      /\ \A i \in 1 .. 2 * r : Stream(s)[q + p + i] = HeldAt(retained[s], s, i)
  BY <1>1, <1>2, StreamParts, Zenon
<1>4. s # 0
  BY BoardFinite DEF Types
<1>5. ASSUME NEW j \in DOMAIN Stream(s), Stream(s)[j].src = s
      PROVE  InQueue(s, j) \/ InPending(s, j) \/ InHeld(s, j)
  <2>0. j \in 1 .. q + p + 2 * r
    BY <1>3, Zenon
  <2>1. \/ j \in 1 .. q
        \/ j - q \in 1 .. p /\ j = q + (j - q)
        \/ j - (q + p) \in 1 .. 2 * r /\ j = q + p + (j - (q + p)) /\ j > q + p
    <3> HIDE DEF q, p, r
    <3> QED
      BY <2>0, <1>2
  <2>2. CASE j \in 1 .. q
    BY <2>2, <1>2, <1>3, Zenon DEF InQueue
  <2>3. CASE j - q \in 1 .. p /\ j = q + (j - q)
    <3>1. Stream(s)[j] = pending[j - q]
      BY <2>3, <1>3, Zenon
    <3> QED
      BY <3>1, <2>3, <1>2, Zenon DEF InPending
  <2>4. CASE /\ j - (q + p) \in 1 .. 2 * r /\ j = q + p + (j - (q + p))
             /\ j > q + p
    <3> DEFINE i == j - (q + p)
    <3>1. /\ Stream(s)[j] = HeldAt(retained[s], s, i)
          /\ i \in 1 .. 2 * Len(retained[s])
      BY <2>4, <1>3, Zenon
    <3>2. \E k \in DOMAIN retained[s] :
            Owes(retained[s], s, i, k, HeldAt(retained[s], s, i))
      <4> HIDE DEF i
      <4> QED
        BY <3>1, <1>1, <1>4, <1>5, HeldOwes, Zenon
    <3> QED
      BY <3>1, <3>2, <2>4, Zenon DEF InHeld
  <2> QED
    BY <2>1, <2>2, <2>3, <2>4, Zenon
<1>6. DOMAIN Stream(s) \in SUBSET (Nat \ {0})
  <2>1. \A j \in 1 .. q + p + 2 * r : j \in Nat \ {0}
    BY <1>2
  <2> QED
    BY <2>1, <1>3, Zenon
<1>7. Len(Stream(s)) \in Nat
  <2>1. q + p + 2 * r \in Nat
    <3> HIDE DEF q, p, r
    <3> QED
      BY <1>2
  <2> QED
    BY <2>1, <1>3, Zenon
<1> QED
  BY <1>1, <1>2, <1>3, <1>5, <1>6, <1>7, Zenon

(* The stream of a source is in order, behind what was received.            *)
LEMMA StreamInOrder ==
  ASSUME Types, ListsInv, NEW s \in Sources, NEW j \in DOMAIN Stream(s),
         Stream(s)[j].src = s
  PROVE  /\ Before(SeenEvent(seen, s), Stream(s)[j])
         /\ \A i \in 1 .. j - 1 : Stream(s)[i].src = s =>
                                    Before(Stream(s)[i], Stream(s)[j])
         /\ Stream(s)[j].edge \in Nat /\ Stream(s)[j].edge <= edges[s]
<1> DEFINE q == Len(queue)
           p == Len(pending)
           way == Stream(s)
<1>1. /\ queue \in Seq(EventSet(Sources)) /\ Len(queue) \in Nat
      /\ pending \in Seq(EventSet(Sources)) /\ Len(pending) \in Nat
      /\ retained[s] \in Seq(EdgeSet)
      /\ DOMAIN way = 1 .. Len(way) /\ Len(way) \in Nat
      /\ j \in Nat \ {0}
  BY StreamPlaces, Zenon
<1>2. \A i \in DOMAIN way :
        way[i].src = s => InQueue(s, i) \/ InPending(s, i) \/ InHeld(s, i)
  BY StreamPlaces, Zenon
<1>3. Lists.pending = pending /\ Lists.retained = retained
  BY Zenon DEF Lists
<1>4. /\ PendingInOrder(Past, Lists) /\ QueueInOrder(queue, seen)
      /\ Ordered(Ahead(Past, Lists), s, retained[s])
      /\ Bound(Past, Lists, s, edges[s])
  <2>1. HeldInOrder(Past, Lists) /\ s \in DOMAIN Lists.retained
    BY Zenon DEF ListsInv, Delivers, Sound, Fine, ListsSet
  <2> QED
    BY <2>1, <1>3, Zenon DEF ListsInv, Delivers, Sound, Fine, HeldInOrder
<1>5. DOMAIN queue = 1 .. q /\ DOMAIN pending = 1 .. p
  BY <1>1
<1> DEFINE S == SeenEvent(seen, s)
<1>6. S \in Past /\ S.src = s
  <2>1. seen \in [Sources -> Nat]
    BY Zenon DEF Types
  <2>2. S.src = s
    BY <2>1, SeenEventType
  <2> QED
    BY <2>2, Zenon DEF Past, Gone
<1> HIDE DEF way, S
<1>7. \A i \in 1 .. j - 1 : i \in DOMAIN way /\ i < j /\ i \in Nat
  BY <1>1 DEF way
<1>8. \A i : InQueue(s, i) => way[i] \in Past /\ way[i] \in Ahead(Past, Lists)
  BY Zenon DEF InQueue, Past, Gone, Ahead, way
<1>9. \A i : InPending(s, i) => way[i] \in Ahead(Past, Lists)
  BY <1>3, Zenon DEF InPending, Ahead, way
<1>10. CASE InQueue(s, j)
  <2>1. /\ j \in DOMAIN queue /\ way[j] = queue[j]
        /\ queue[j] \in EventSet(Sources)
    BY <1>1, <1>10 DEF InQueue, way
  <2>2. Before(S, way[j])
    BY <2>1, <1>4, Zenon DEF QueueInOrder, S, way
  <2>3. ASSUME NEW i \in 1 .. j - 1, way[i].src = s
        PROVE  Before(way[i], way[j])
    <3>1. i \in DOMAIN queue
      BY <2>1, <1>1, <1>5, <1>7
    <3>2. ~InPending(s, i) /\ ~InHeld(s, i)
      BY <3>1, <1>1, <1>5 DEF InPending, InHeld
    <3>3. way[i] = queue[i]
      BY <3>2, <2>3, <1>2, <1>7, Zenon DEF InQueue, way
    <3> QED
      BY <3>3, <2>1, <2>3, <1>4, Zenon DEF QueueInOrder, way
  <2>4. way[j].edge \in Nat /\ way[j].edge <= edges[s]
    BY <2>1, <1>4, <1>8, <1>10, Zenon DEF Bound, EventSet, way
  <2> QED
    BY <2>2, <2>3, <2>4, Zenon DEF way, S
<1>11. CASE InPending(s, j)
  <2> DEFINE l == j - q
  <2>1. /\ l \in DOMAIN pending /\ way[j] = pending[l]
        /\ pending[l] \in EventSet(Sources)
    BY <1>1, <1>11 DEF InPending, way
  <2>2. \A a \in Past : a.src = s => Before(a, way[j])
    BY <2>1, <1>3, <1>4, Zenon DEF PendingInOrder, way
  <2>3. ASSUME NEW i \in 1 .. j - 1, way[i].src = s
        PROVE  Before(way[i], way[j])
    <3>1. CASE InQueue(s, i)
      BY <3>1, <2>2, <2>3, <1>8, Zenon
    <3>2. CASE InPending(s, i)
      <4>1. way[i] = pending[i - q] /\ i - q \in 1 .. l - 1
        BY <3>2, <1>1, <1>5, <1>7 DEF InPending, way
      <4> QED
        BY <4>1, <2>1, <2>3, <1>3, <1>4, Zenon DEF PendingInOrder, way
    <3>3. ~InHeld(s, i)
      BY <2>1, <1>1, <1>5, <1>7 DEF InHeld
    <3> QED
      BY <3>1, <3>2, <3>3, <2>3, <1>2, <1>7, Zenon
  <2>4. way[j].edge \in Nat /\ way[j].edge <= edges[s]
    BY <2>1, <1>4, <1>9, <1>11, Zenon DEF Bound, EventSet, way
  <2> QED
    BY <2>2, <2>3, <2>4, <1>6, Zenon DEF way, S
<1>12. CASE InHeld(s, j)
  <2> DEFINE l == j - (q + p)
  <2>1. PICK k \in DOMAIN retained[s] : Owes(retained[s], s, l, k, way[j])
    BY <1>12, Zenon DEF InHeld, way
  <2>2. l \in Nat
    BY <1>1, <1>12 DEF InHeld
  <2> HIDE DEF l
  <2>3. /\ way[j].edge = retained[s][k].edge /\ way[j].edge \in Nat
        /\ \A a \in Ahead(Past, Lists) : a.src = s => Before(a, way[j])
        /\ \A i \in Nat : \A m, d :
             i < l /\ Owes(retained[s], s, i, m, d) => Before(d, way[j])
    BY <2>1, <2>2, <1>1, <1>4, OwedAfter
  <2>4. Before(S, way[j])
    BY <2>3, <1>6, Zenon DEF Ahead
  <2>5. ASSUME NEW i \in 1 .. j - 1, way[i].src = s
        PROVE  Before(way[i], way[j])
    <3>1. CASE InQueue(s, i) \/ InPending(s, i)
      BY <3>1, <2>3, <2>5, <1>8, <1>9, Zenon
    <3>2. CASE InHeld(s, i)
      <4>1. PICK m \in DOMAIN retained[s] :
              Owes(retained[s], s, i - (q + p), m, way[i])
        BY <3>2, Zenon DEF InHeld, way
      <4>2. i - (q + p) \in Nat /\ i - (q + p) < l
        BY <3>2, <1>1, <1>7 DEF InHeld, l
      <4> QED
        BY <4>1, <4>2, <2>3, Zenon
    <3> QED
      BY <3>1, <3>2, <2>5, <1>2, <1>7, Zenon
  <2>6. way[j].edge <= edges[s]
    BY <2>1, <2>3, <1>3, <1>4, Zenon DEF Bound, Within
  <2> QED
    BY <2>3, <2>4, <2>5, <2>6, Zenon DEF way, S
<1> QED
  BY <1>2, <1>10, <1>11, <1>12, Zenon DEF way

(* The last level of a source is in its stream, or received.                *)
LEMMA StreamCarries ==
  ASSUME Types, ListsInv, NEW s \in Sources,
         Carries(Past, Lists, s, edges[s])
  PROVE  \/ seen[s] = edges[s]
         \/ \E k \in DOMAIN Stream(s) : /\ IsLevel(Stream(s)[k], s)
                                        /\ Stream(s)[k].edge = edges[s]
<1> DEFINE q == Len(queue)
           p == Len(pending)
           r == Len(retained[s])
           n == edges[s]
           way == Stream(s)
<1>1. /\ queue \in Seq(EventSet(Sources)) /\ q \in Nat
      /\ pending \in Seq(EventSet(Sources)) /\ p \in Nat
      /\ retained[s] \in Seq(EdgeSet) /\ r \in Nat
  BY StreamPlaces
<1>2. /\ DOMAIN way = 1 .. q + p + 2 * r
      /\ \A i \in 1 .. q : way[i] = queue[i]
      /\ \A i \in 1 .. p : way[q + i] = pending[i]
      /\ \A i \in 1 .. 2 * r : way[q + p + i] = HeldAt(retained[s], s, i)
  BY <1>1, StreamParts, Zenon
<1>3. Lists.pending = pending /\ Lists.retained = retained
  BY Zenon DEF Lists
<1> HIDE DEF way
<1>4. ASSUME NEW t \in Sources, IsLevel(SeenEvent(seen, t), s),
             SeenEvent(seen, t).edge = n
      PROVE  seen[s] = n
  <2>1. seen \in [Sources -> Nat]
    BY Zenon DEF Types
  <2>2. SeenEvent(seen, t).src = t /\ SeenEvent(seen, t).edge = seen[t]
    BY <2>1, SeenEventType
  <2> QED
    BY <1>4, <2>2, Zenon DEF IsLevel
<1>5. ASSUME NEW i \in DOMAIN queue, IsLevel(queue[i], s), queue[i].edge = n
      PROVE  \E k \in DOMAIN way : IsLevel(way[k], s) /\ way[k].edge = n
  <2>1. i \in 1 .. q /\ i \in DOMAIN way
    <3>1. i \in 1 .. q
      BY <1>1
    <3>2. i \in 1 .. q + p + 2 * r
      <4> HIDE DEF q, p, r
      <4> QED
        BY <3>1, <1>1
    <3> QED
      BY <3>1, <3>2, <1>2, Zenon
  <2> QED
    BY <2>1, <1>2, <1>5, Zenon
<1>6. ASSUME NEW i \in DOMAIN pending, IsLevel(pending[i], s),
             pending[i].edge = n
      PROVE  \E k \in DOMAIN way : IsLevel(way[k], s) /\ way[k].edge = n
  <2>1. i \in 1 .. p /\ q + i \in DOMAIN way
    <3>1. i \in 1 .. p
      BY <1>1
    <3>2. q + i \in 1 .. q + p + 2 * r
      <4> HIDE DEF q, p, r
      <4> QED
        BY <3>1, <1>1
    <3> QED
      BY <3>1, <3>2, <1>2, Zenon
  <2> QED
    BY <2>1, <1>2, <1>6, Zenon
<1>7. ASSUME NEW i \in DOMAIN retained[s], "edge" \in retained[s][i].owes,
             retained[s][i].edge = n
      PROVE  \E k \in DOMAIN way : IsLevel(way[k], s) /\ way[k].edge = n
  <2> DEFINE j == 2 * i - 1
             k == q + p + j
  <2>1. i \in 1 .. r
    BY <1>1
  <2>2. j \in 1 .. 2 * r /\ (j + 1) \div 2 = i /\ j % 2 = 1 /\ j % 2 # 0
    <3> HIDE DEF r
    <3> QED
      BY <2>1, <1>1
  <2>3. k \in DOMAIN way
    <3>1. k \in 1 .. q + p + 2 * r
      <4> HIDE DEF q, p, r, j
      <4> QED
        BY <2>2, <1>1
    <3> QED
      BY <3>1, <1>2, Zenon
  <2>4. HeldAt(retained[s], s, j) = EdgeEvent(s, n)
    <3> HIDE DEF j
    <3> QED
      BY <2>2, <1>7, Zenon DEF HeldAt
  <2>5. way[k] = EdgeEvent(s, n)
    BY <2>2, <2>4, <1>2, Zenon
  <2>6. IsLevel(way[k], s) /\ way[k].edge = n
    BY <2>5 DEF EdgeEvent, Event, IsLevel
  <2> HIDE DEF k
  <2> QED
    BY <2>3, <2>6, Zenon
<1>8. \/ \E a \in Past : IsLevel(a, s) /\ a.edge = n
      \/ \E i \in DOMAIN pending : IsLevel(pending[i], s) /\ pending[i].edge = n
      \/ \E i \in DOMAIN retained[s] : /\ "edge" \in retained[s][i].owes
                                       /\ retained[s][i].edge = n
  BY <1>3, Zenon DEF Carries, HoldsEdge
<1>9. ASSUME NEW a \in Past, IsLevel(a, s), a.edge = n
      PROVE  \/ seen[s] = n
             \/ \E k \in DOMAIN way : IsLevel(way[k], s) /\ way[k].edge = n
  BY <1>4, <1>5, <1>9 DEF Past, Gone
<1> QED
  BY <1>6, <1>7, <1>8, <1>9, Zenon DEF way

------------------------------------------------------------------------------
(* The theorems.                                                            *)

(* Whatever the queue refused and whatever was evicted, the last press or   *)
(* release of every source is received or on its way, and the last of its   *)
(* kind there, until a send fails or a fault gives up                       *)
(* (retain_button_event, spill_source_pending_events).                      *)
THEOREM LevelNotLostAlways == Spec => []LevelNotLost
<1>1. ASSUME WorkerInv
      PROVE  LevelNotLost
  <2>1. Types /\ ListsInv
    BY <1>1, Zenon DEF WorkerInv
  <2> SUFFICES ASSUME lost = 0, ~GaveUp, NEW s \in Sources
               PROVE  LET way == Stream(s)
                          AllFrom(k) == \A i \in k .. Len(way) :
                                          IsLevel(way[i], s) =>
                                            way[i].edge = edges[s]
                      IN \/ seen[s] = edges[s] /\ AllFrom(1)
                         \/ \E k \in DOMAIN way : /\ IsLevel(way[k], s)
                                                  /\ way[k].edge = edges[s]
                                                  /\ AllFrom(k)
    BY Zenon DEF LevelNotLost
  <2> DEFINE way == Stream(s)
             n == edges[s]
  <2>2. n \in Nat /\ seen[s] \in Nat /\ SeenEvent(seen, s).edge = seen[s]
    <3>1. n \in Nat /\ seen[s] \in Nat /\ seen \in [Sources -> Nat]
      BY <2>1, Zenon DEF Types
    <3> QED
      BY <3>1, SeenEventType
  <2>3. DOMAIN way = 1 .. Len(way) /\ Len(way) \in Nat
    BY <2>1, StreamPlaces, Zenon
  <2>4. ASSUME NEW j \in DOMAIN way, IsLevel(way[j], s)
        PROVE  /\ Before(SeenEvent(seen, s), way[j])
               /\ \A i \in 1 .. j - 1 : way[i].src = s => Before(way[i], way[j])
               /\ way[j].edge \in Nat /\ way[j].edge <= n
    BY <2>1, <2>4, StreamInOrder, Zenon DEF IsLevel
  <2> HIDE DEF way
  <2>5. CASE seen[s] = n
    <3>1. ASSUME NEW i \in 1 .. Len(way), IsLevel(way[i], s)
          PROVE  way[i].edge = n
      <4>1. /\ Before(SeenEvent(seen, s), way[i])
            /\ way[i].edge \in Nat /\ way[i].edge <= n
        BY <3>1, <2>3, <2>4, Zenon
      <4> QED
        BY <4>1, <2>2, <2>5 DEF Before
    <3> QED
      BY <3>1, <2>5, Zenon DEF way
  <2>6. ASSUME NEW k \in DOMAIN way, IsLevel(way[k], s), way[k].edge = n
        PROVE  \A i \in k .. Len(way) : IsLevel(way[i], s) => way[i].edge = n
    <3> SUFFICES ASSUME NEW i \in k .. Len(way), IsLevel(way[i], s)
                 PROVE  way[i].edge = n
      BY Zenon
    <3>1. i \in DOMAIN way /\ (i = k \/ k \in 1 .. i - 1) /\ way[k].src = s
      BY <2>3, <2>6 DEF IsLevel
    <3>2. CASE k \in 1 .. i - 1
      <4>1. Before(way[k], way[i]) /\ way[i].edge \in Nat /\ way[i].edge <= n
        BY <3>1, <3>2, <2>4, Zenon
      <4> QED
        BY <4>1, <2>2, <2>6 DEF Before
    <3> QED
      BY <3>1, <3>2, <2>6, Zenon
  <2>7. \/ seen[s] = n
        \/ \E k \in DOMAIN way : IsLevel(way[k], s) /\ way[k].edge = n
    BY <2>1, StreamCarries, Zenon DEF ListsInv, Live, way
  <2> QED
    BY <2>5, <2>6, <2>7, Zenon DEF way
<1> QED
  BY <1>1, WorkerInvariant, PTL

(* Events of one source reach the main loop in the order of their edges, a  *)
(* release before its final action, and no edge twice.                      *)
THEOREM NoOvertakingAlways == Spec => []NoOvertaking
<1>1. ASSUME WorkerInv
      PROVE  NoOvertaking
  <2>1. Types /\ ListsInv
    BY <1>1, Zenon DEF WorkerInv
  <2> SUFFICES ASSUME NEW s \in Sources, NEW j \in DOMAIN Stream(s),
                      Stream(s)[j].src = s
               PROVE  /\ seen[s] <= Stream(s)[j].edge
                      /\ \A i \in 1 .. j - 1 : Stream(s)[i].src = s =>
                           /\ Stream(s)[i].edge <= Stream(s)[j].edge
                           /\ Stream(s)[i].edge = Stream(s)[j].edge
                                /\ Stream(s)[j].retain =>
                                /\ Stream(s)[i].kind = "up"
                                /\ Stream(s)[j].kind = "action"
    BY Zenon DEF NoOvertaking
  <2> DEFINE way == Stream(s)
  <2>2. seen[s] \in Nat /\ SeenEvent(seen, s).edge = seen[s]
    <3>1. seen \in [Sources -> Nat]
      BY <2>1, Zenon DEF Types
    <3> QED
      BY <3>1, SeenEventType
  <2>3. /\ Before(SeenEvent(seen, s), way[j]) /\ way[j].edge \in Nat
        /\ \A i \in 1 .. j - 1 : way[i].src = s => Before(way[i], way[j])
    BY <2>1, StreamInOrder, Zenon
  <2>4. \A i \in 1 .. j - 1 : way[i].src = s => way[i].edge \in Nat
    <3>1. DOMAIN way = 1 .. Len(way) /\ Len(way) \in Nat
      BY <2>1, StreamPlaces, Zenon
    <3>2. \A i \in 1 .. j - 1 : i \in DOMAIN way
      <4> HIDE DEF way
      <4> QED
        BY <3>1 DEF way
    <3> QED
      BY <2>1, <3>2, StreamInOrder, Zenon
  <2>5. seen[s] <= way[j].edge
    BY <2>2, <2>3 DEF Before
  <2>6. ASSUME NEW i \in 1 .. j - 1, way[i].src = s
        PROVE  /\ way[i].edge <= way[j].edge
               /\ way[i].edge = way[j].edge /\ way[j].retain =>
                    way[i].kind = "up" /\ way[j].kind = "action"
    <3>1. Before(way[i], way[j]) /\ way[i].edge \in Nat /\ way[j].edge \in Nat
      BY <2>3, <2>4, <2>6, Zenon
    <3> HIDE DEF way
    <3> QED
      BY <3>1 DEF Before
  <2> QED
    BY <2>5, <2>6, Zenon
<1> QED
  BY <1>1, WorkerInvariant, PTL

(* A source never has pending and retained events at once (the comment of   *)
(* append_input_event).                                                     *)
THEOREM PendingOrRetainedAlways == Spec => []PendingOrRetained
<1>1. ASSUME WorkerInv
      PROVE  PendingOrRetained
  <2>1. Apart(Lists)
    BY <1>1, Zenon DEF WorkerInv, ListsInv, Delivers, Sound
  <2> QED
    BY <2>1, Zenon DEF Apart, Lists, PendingOrRetained
<1> QED
  BY <1>1, WorkerInvariant, PTL

(* Every event is received, in a list that keeps to its capacity, counted   *)
(* as dropped, or was pending when a send failed for another reason than a  *)
(* full queue (enqueue_pending_events).                                     *)
THEOREM AccountedAlways == Spec => []Accounted
<1>1. ASSUME WorkerInv
      PROVE  Accounted
  <2> DEFINE owed == Cardinality(Owing(retained, Sources))
  <2>1. Types /\ Sound(Sources, Past, Lists) /\ Debt(Lists) = Len(queue) + lost
    BY <1>1, Zenon DEF WorkerInv, ListsInv, Delivers, Beyond
  <2>2. /\ Lists.pending = pending /\ Lists.retained = retained
        /\ Lists.outstanding = outstanding
    BY Zenon DEF Lists
  <2>3. /\ outstanding \in Int /\ pending \in Seq(EventSet(Sources))
        /\ retained \in [Sources -> Seq(EdgeSet)]
        /\ Len(pending) \in Nat /\ Len(queue) \in Nat /\ lost \in Nat
    BY <2>1, <2>2 DEF Sound, Fine, ListsSet, Types
  <2>4. owed \in Nat
    BY <2>1, BoardFinite, OwingFinite, Zenon DEF Types
  <2>5. Len(queue) + lost = outstanding - Len(pending) - owed
    BY <2>1, <2>2, <2>3, Zenon DEF Debt
  <2>6. outstanding = Len(queue) + Len(pending) + owed + lost
    <3> HIDE DEF owed
    <3> QED
      BY <2>3, <2>4, <2>5
  <2>7. /\ Len(pending) <= PendingCapacity
        /\ \A s \in Sources : Len(retained[s]) <= RetainedEdgeMax
    BY <2>1, <2>2, Zenon DEF Sound, Fine
  <2> QED
    BY <2>6, <2>7, Zenon DEF Accounted
<1> QED
  BY <1>1, WorkerInvariant, PTL

(* A task that receives an event reads a snapshot at least as new           *)
(* (publish_pending_events publishes before it sends).                      *)
THEOREM SnapshotNotBehindAlways == Spec => []SnapshotNotBehind
BY WorkerInvariant, PTL DEF WorkerInv, ShownInv

(* A terminal fault of the input task that could take the writer mutex      *)
(* leaves every button released and owes nothing                            *)
(* (release_held_buttons_locked).                                           *)
THEOREM FaultReleasesAlways == Spec => []FaultReleases
BY WorkerInvariant, PTL DEF WorkerInv, PhaseInv
==============================================================================
