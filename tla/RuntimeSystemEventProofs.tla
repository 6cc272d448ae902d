----------------------- MODULE RuntimeSystemEventProofs -----------------------
(***************************************************************************)
(* System events for any set of handler threads, any event types and state *)
(* cells, and any queue capacity.                                          *)
(***************************************************************************)
EXTENDS RuntimeSystemEvent, TLAPS

Reporting == {"load", "write", "clear"}

(* The report lock: one reporter at a time, with a total that is newer than *)
(* what was reported.                                                       *)
ReportExclusive ==
  /\ \A r \in Reporters : pc[r] \in Reporting => reportLock
  /\ \A r, q \in Reporters :
       pc[r] \in Reporting /\ pc[q] \in Reporting => r = q
  /\ \A r \in Reporters : pc[r] = "write" => total[r] <= dropped

(* A call in flight belongs to a subscription, or to the one being taken    *)
(* back.                                                                    *)
Subscribed ==
  /\ \A h \in Handlers : pc[h] # "idle" =>
       \/ ev[h].type <= subs
       \/ life = "drain" /\ ev[h].type = subs + 1
  /\ life \in {"release", "released"} => subs = 0
  /\ life = "drain" => subs < TypeCount

(* What is published, queued and received about a cell the event of h       *)
(* reports is not newer than that event.                                    *)
Newest(h) ==
  \A c \in ev[h].cells :
    /\ state[c] <= ev[h].n /\ seen[c] <= ev[h].n
    /\ \A k \in DOMAIN queue : c \in queue[k].cells => queue[k].n <= ev[h].n

(* With one handler at a time of the types that share a cell, a handler     *)
(* that has yet to publish carries the newest event about its cells, and    *)
(* one that has published is not ahead of the state.                        *)
Exclusive ==
  \A h, g \in Handlers :
    pc[h] # "idle" /\ pc[g] # "idle" /\ Conflict(ev[h].type, ev[g].type) => h = g

Handled ==
  \A h \in Handlers :
    /\ pc[h] # "idle" => ev[h].n <= emitted
    /\ pc[h] \in {"check", "publish"} => Newest(h)
    /\ pc[h] = "send" => \A c \in ev[h].cells \ missed : ev[h].n <= state[c]

Counted ==
  /\ \A c \in Cells : state[c] <= emitted /\ seen[c] <= emitted
  /\ \A k \in DOMAIN queue : queue[k].n <= emitted

Ordered == Serial => Exclusive /\ Handled /\ Counted /\ StateNotBehind

IInv == TypeOK /\ ReportExclusive /\ AnnouncedOnce /\ Subscribed /\ Ordered

(* A step that calls no handler: the calls in flight keep their events and  *)
(* none goes back to publishing.                                            *)
CallsGoOn ==
  \A h \in Handlers : pc'[h] # "idle" =>
    /\ pc[h] # "idle" /\ ev'[h] = ev[h]
    /\ pc'[h] \in {"check", "publish"} => pc[h] \in {"check", "publish"}

------------------------------------------------------------------------------
(* What appending an event to the queue does.                               *)
LEMMA QueueAppend ==
  ASSUME NEW q \in Seq(Events), NEW e \in Events
  PROVE  /\ Append(q, e) \in Seq(Events)
         /\ Len(Append(q, e)) = Len(q) + 1
         /\ \A k \in DOMAIN Append(q, e) :
              \/ k \in DOMAIN q /\ Append(q, e)[k] = q[k]
              \/ Append(q, e)[k] = e
  OBVIOUS

(* What taking the first event of the queue does.                           *)
LEMMA QueueTail ==
  ASSUME NEW q \in Seq(Events), q # <<>>
  PROVE  /\ Head(q) \in Events /\ Head(q) = q[1] /\ 1 \in DOMAIN q
         /\ Tail(q) \in Seq(Events)
         /\ Len(Tail(q)) = Len(q) - 1 /\ Len(q) \in Nat
         /\ \A k \in DOMAIN Tail(q) :
              k + 1 \in DOMAIN q /\ Tail(q)[k] = q[k + 1]
  OBVIOUS

(* An event is about cells its type may write.                              *)
LEMMA EventType ==
  ASSUME NEW e \in Events
  PROVE  /\ e.type \in Types /\ e.n \in 1 .. MaxEvents /\ e.n \in Nat
         /\ e.cells \subseteq Cells /\ e.cells \subseteq MayWrite(e.type)
  BY EventsAssumption DEF Events

(* Types of two events about one cell conflict.                             *)
LEMMA CellConflict ==
  ASSUME NEW d \in Events, NEW e \in Events, NEW c \in d.cells, c \in e.cells
  PROVE  Conflict(d.type, e.type)
  BY EventType DEF Conflict

LEMMA NoEventType == NoEvent \in Events
<1>1. 1 \in Types /\ 1 \in 1 .. MaxEvents
  BY TypeAssumption, EventsAssumption DEF Types
<1> QED
  BY <1>1 DEF NoEvent, Events

(* Moving a handler or the tick changes no event of a call in flight.       *)
LEMMA GoStep ==
  ASSUME TypeOK, NEW r \in Reporters, NEW to \in Pcs, Go(r, to)
  PROVE  /\ pc' \in [Reporters -> Pcs] /\ ev' \in [Handlers -> Events]
         /\ pc'[r] = to
         /\ \A q \in Reporters \ {r} : pc'[q] = pc[q]
         /\ \A h \in Handlers : pc'[h] # "idle" => ev'[h] = ev[h]
  BY NoEventType DEF Go, TypeOK, Reporters

(* Calls in flight stay with their subscriptions.                           *)
LEMMA KeepSubscribed ==
  ASSUME Subscribed, CallsGoOn, UNCHANGED <<life, subs>>
  PROVE  Subscribed'
  BY DEF Subscribed, CallsGoOn

(* A step that leaves the state, the queue and the consumer alone, and      *)
(* takes no call to the send, keeps the order.                              *)
LEMMA KeepOrdered ==
  ASSUME Ordered, CallsGoOn, UNCHANGED <<emitted, state, missed, queue, seen>>,
         \A h \in Handlers : pc'[h] = "send" => pc[h] = "send"
  PROVE  Ordered'
<1> SUFFICES ASSUME Serial PROVE (Exclusive /\ Handled /\ Counted /\ StateNotBehind)'
  BY DEF Ordered
<1>1. Exclusive /\ Handled /\ Counted /\ StateNotBehind
  BY DEF Ordered
<1>2. Exclusive'
  BY <1>1 DEF Exclusive, CallsGoOn
<1>3. Handled'
  BY <1>1 DEF Handled, CallsGoOn, Newest
<1>4. (Counted /\ StateNotBehind)'
  BY <1>1 DEF Counted, StateNotBehind
<1> QED
  BY <1>2, <1>3, <1>4

(* The initial state satisfies the invariant.                               *)
LEMMA InitInv == Init => IInv
<1> SUFFICES ASSUME Init PROVE IInv
  OBVIOUS
<1> USE TypeAssumption, QueueAssumption, EventsAssumption DEF Init
<1>1. 0 \in 0 .. TypeCount /\ 0 \in 0 .. MaxEvents
  OBVIOUS
<1>2. <<>> \in Seq(Events) /\ Len(<<>>) = 0
  OBVIOUS
<1>3. TypeOK
  <2>1. pc \in [Reporters -> Pcs] /\ life \in Lives
    BY DEF Lives, Pcs
  <2>2. Len(queue) <= QueueCapacity /\ queue \in Seq(Events)
    BY <1>2
  <2> QED
    BY <1>1, <2>1, <2>2, NoEventType, Zenon DEF TypeOK
<1>4. ReportExclusive /\ AnnouncedOnce /\ Subscribed
  BY DEF ReportExclusive, Reporting, AnnouncedOnce, Subscribed, Reporters
<1>5. Ordered
  BY DEF Ordered, Exclusive, Handled, Counted, StateNotBehind, Reporters
<1> QED
  BY <1>3, <1>4, <1>5 DEF IInv

(* Every step preserves the invariant.                                      *)
LEMMA StepInv == IInv /\ [Next]_vars => IInv'
<1> SUFFICES ASSUME IInv, [Next]_vars PROVE IInv'
  OBVIOUS
<1> USE HandlerAssumption, TypeAssumption, QueueAssumption, EventsAssumption,
        SerialAssumption
<1>0. TypeOK /\ ReportExclusive /\ AnnouncedOnce /\ Subscribed /\ Ordered
  BY DEF IInv
<1>z. /\ \A h \in Handlers : h \in Reporters /\ h # Tick /\ ev[h] \in Events
      /\ Tick \in Reporters
  BY <1>0 DEF TypeOK, Reporters
<1>y. \A h \in Handlers : ev[h].type \in Types /\ ev[h].n \in 1 .. MaxEvents
  BY <1>z, EventType
<1>u. CASE UNCHANGED vars
  <2>1. CallsGoOn
    BY <1>u DEF vars, CallsGoOn
  <2>2. Ordered'
    BY <1>0, <1>u, <2>1, KeepOrdered DEF vars
  <2> QED
    BY <1>0, <1>u, <2>2 DEF IInv, TypeOK, ReportExclusive, AnnouncedOnce,
       Subscribed, vars
<1>1. CASE StartSystemEvents
  <2>1. TypeOK'
    BY Zenon, <1>0, <1>1
    DEF StartSystemEvents, stateVars, reportVars, TypeOK, Lives
  <2>2. ReportExclusive' /\ AnnouncedOnce'
    BY <1>0, <1>1 DEF StartSystemEvents, reportVars, ReportExclusive, AnnouncedOnce
  <2>3. Subscribed'
    BY <1>0, <1>y, <1>1 DEF StartSystemEvents, TypeOK, Subscribed, Types
  <2>4. CallsGoOn
    BY <1>1 DEF StartSystemEvents, CallsGoOn
  <2>5. Ordered'
    BY <1>0, <1>1, <2>4, KeepOrdered DEF StartSystemEvents, stateVars
  <2> QED
    BY <2>1, <2>2, <2>3, <2>5 DEF IInv
<1>2. CASE Subscribe
  <2>1. TypeOK'
    BY <1>0, <1>2
    DEF Subscribe, stateVars, reportVars, TypeOK, Lives
  <2>2. ReportExclusive' /\ AnnouncedOnce'
    BY <1>0, <1>2 DEF Subscribe, reportVars, ReportExclusive, AnnouncedOnce
  <2>3. Subscribed'
    <3>1. subs < TypeCount /\ subs' = subs + 1 /\ life = "subscribe" /\ life' = life
      BY <1>2 DEF Subscribe
    <3>2. pc' = pc /\ ev' = ev
      BY <1>2 DEF Subscribe
    <3>3. /\ subs \in Nat /\ subs <= TypeCount /\ TypeCount \in Nat
          /\ \A h \in Handlers : ev[h].type \in Nat
      BY <1>0, <1>y DEF TypeOK, Types
    <3> QED
      BY <1>0, <3>1, <3>2, <3>3 DEF Subscribed
  <2>4. CallsGoOn
    BY <1>2 DEF Subscribe, CallsGoOn
  <2>5. Ordered'
    BY <1>0, <1>2, <2>4, KeepOrdered DEF Subscribe, stateVars
  <2> QED
    BY <2>1, <2>2, <2>3, <2>5 DEF IInv
<1>3. CASE SubscribeDone
  <2>1. TypeOK'
    BY <1>0, <1>3
    DEF SubscribeDone, stateVars, reportVars, TypeOK, Lives
  <2>2. ReportExclusive' /\ AnnouncedOnce'
    BY <1>0, <1>3 DEF SubscribeDone, reportVars, ReportExclusive, AnnouncedOnce
  <2>3. Subscribed'
    BY <1>0, <1>y, <1>3 DEF SubscribeDone, TypeOK, Subscribed, Types
  <2>4. CallsGoOn
    BY <1>3 DEF SubscribeDone, CallsGoOn
  <2>5. Ordered'
    BY <1>0, <1>3, <2>4, KeepOrdered DEF SubscribeDone, stateVars
  <2> QED
    BY <2>1, <2>2, <2>3, <2>5 DEF IInv
<1>4. CASE Unsubscribe
  <2>1. TypeOK'
    BY <1>0, <1>4
    DEF Unsubscribe, stateVars, reportVars, TypeOK, Lives
  <2>2. ReportExclusive' /\ AnnouncedOnce'
    BY <1>0, <1>4 DEF Unsubscribe, reportVars, ReportExclusive, AnnouncedOnce
  <2>3. Subscribed'
    <3>1. subs > 0 /\ subs' = subs - 1 /\ life = "unsub" /\ life' = "drain"
      BY <1>4 DEF Unsubscribe
    <3>2. pc' = pc /\ ev' = ev
      BY <1>4 DEF Unsubscribe
    <3>3. /\ subs \in Nat /\ subs <= TypeCount /\ TypeCount \in Nat
          /\ \A h \in Handlers : ev[h].type \in Nat
      BY <1>0, <1>y DEF TypeOK, Types
    <3> QED
      BY <1>0, <3>1, <3>2, <3>3 DEF Subscribed
  <2>4. CallsGoOn
    BY <1>4 DEF Unsubscribe, CallsGoOn
  <2>5. Ordered'
    BY <1>0, <1>4, <2>4, KeepOrdered DEF Unsubscribe, stateVars
  <2> QED
    BY <2>1, <2>2, <2>3, <2>5 DEF IInv
<1>5. CASE Drained
  <2>1. TypeOK'
    BY <1>0, <1>5
    DEF Drained, stateVars, reportVars, TypeOK, Lives
  <2>2. ReportExclusive' /\ AnnouncedOnce'
    BY <1>0, <1>5 DEF Drained, reportVars, ReportExclusive, AnnouncedOnce
  <2>3. Subscribed'
    BY <1>0, <1>y, <1>5 DEF Drained, InFlight, TypeOK, Subscribed, Types
  <2>4. CallsGoOn
    BY <1>5 DEF Drained, CallsGoOn
  <2>5. Ordered'
    BY <1>0, <1>5, <2>4, KeepOrdered DEF Drained, stateVars
  <2> QED
    BY <2>1, <2>2, <2>3, <2>5 DEF IInv
<1>6. CASE UnsubscribeDone
  <2>1. TypeOK'
    BY <1>0, <1>6
    DEF UnsubscribeDone, stateVars, reportVars, TypeOK, Lives
  <2>2. ReportExclusive' /\ AnnouncedOnce'
    BY <1>0, <1>6 DEF UnsubscribeDone, reportVars, ReportExclusive, AnnouncedOnce
  <2>3. Subscribed'
    BY <1>0, <1>y, <1>6 DEF UnsubscribeDone, TypeOK, Subscribed, Types
  <2>4. CallsGoOn
    BY <1>6 DEF UnsubscribeDone, CallsGoOn
  <2>5. Ordered'
    BY <1>0, <1>6, <2>4, KeepOrdered DEF UnsubscribeDone, stateVars
  <2> QED
    BY <2>1, <2>2, <2>3, <2>5 DEF IInv
<1>7. CASE Release
  <2>1. TypeOK'
    BY <1>0, <1>7
    DEF Release, stateVars, reportVars, TypeOK, Lives
  <2>2. ReportExclusive' /\ AnnouncedOnce'
    BY <1>0, <1>7 DEF Release, reportVars, ReportExclusive, AnnouncedOnce
  <2>3. Subscribed'
    BY <1>0, <1>y, <1>7 DEF Release, TypeOK, Subscribed, Types
  <2>4. CallsGoOn
    BY <1>7 DEF Release, CallsGoOn
  <2>5. Ordered'
    BY <1>0, <1>7, <2>4, KeepOrdered DEF Release, stateVars
  <2> QED
    BY <2>1, <2>2, <2>3, <2>5 DEF IInv
<1>8. CASE StopSystemEvents
  <2>1. TypeOK'
    BY Zenon, <1>0, <1>8
    DEF StopSystemEvents, stateVars, reportVars, TypeOK, Lives
  <2>2. ReportExclusive' /\ AnnouncedOnce'
    BY <1>0, <1>8 DEF StopSystemEvents, reportVars, ReportExclusive, AnnouncedOnce
  <2>3. Subscribed'
    BY <1>0, <1>y, <1>8 DEF StopSystemEvents, TypeOK, Subscribed, Types
  <2>4. CallsGoOn
    BY <1>8 DEF StopSystemEvents, CallsGoOn
  <2>5. Ordered'
    BY <1>0, <1>8, <2>4, KeepOrdered DEF StopSystemEvents, stateVars
  <2> QED
    BY <2>1, <2>2, <2>3, <2>5 DEF IInv
<1>9. CASE TickReports
  <2>g. PICK to \in Pcs : Go(Tick, to)
    BY <1>0, <1>9 DEF TickReports, Pcs
  <2>0. /\ pc' \in [Reporters -> Pcs] /\ ev' \in [Handlers -> Events]
        /\ \A q \in Reporters \ {Tick} : pc'[q] = pc[q]
        /\ \A h \in Handlers : pc'[h] # "idle" => ev'[h] = ev[h]
    BY <1>0, <1>z, <1>9, <2>g, GoStep
  <2>1. TypeOK'
    BY <1>0, <1>9, <2>0 DEF TickReports, lifeVars, stateVars, reportVars, TypeOK
  <2>2. ReportExclusive' /\ AnnouncedOnce'
    BY <1>0, <1>z, <1>9
    DEF TickReports, Go, reportVars, TypeOK, ReportExclusive, AnnouncedOnce, Reporting
  <2>3. CallsGoOn /\ \A h \in Handlers : pc'[h] = "send" => pc[h] = "send"
    BY <1>0, <1>z, <1>9, <2>0 DEF TickReports, Go, TypeOK, CallsGoOn
  <2>4. Subscribed'
    BY <1>0, <1>9, <2>3, KeepSubscribed DEF TickReports, lifeVars
  <2>5. Ordered'
    BY <1>0, <1>9, <2>3, KeepOrdered DEF TickReports, stateVars
  <2> QED
    BY <2>1, <2>2, <2>4, <2>5 DEF IInv
<1>10. ASSUME NEW h \in Handlers, CheckActive(h) PROVE IInv'
  <2>g. PICK to \in Pcs : Go(h, to)
    BY <1>0, <1>10 DEF CheckActive, Pcs
  <2>0. /\ pc' \in [Reporters -> Pcs] /\ ev' \in [Handlers -> Events]
        /\ \A q \in Reporters \ {h} : pc'[q] = pc[q]
        /\ \A t \in Handlers : pc'[t] # "idle" => ev'[t] = ev[t]
    BY <1>0, <1>z, <1>10, <2>g, GoStep
  <2>1. TypeOK'
    BY <1>0, <1>10, <2>0 DEF CheckActive, lifeVars, stateVars, reportVars, TypeOK
  <2>2. ReportExclusive' /\ AnnouncedOnce'
    BY <1>0, <1>z, <1>10
    DEF CheckActive, Go, reportVars, TypeOK, ReportExclusive, AnnouncedOnce, Reporting
  <2>3. CallsGoOn /\ \A t \in Handlers : pc'[t] = "send" => pc[t] = "send"
    BY <1>0, <1>z, <1>10, <2>0 DEF CheckActive, Go, TypeOK, CallsGoOn
  <2>4. Subscribed'
    BY <1>0, <1>10, <2>3, KeepSubscribed DEF CheckActive, lifeVars
  <2>5. Ordered'
    BY <1>0, <1>10, <2>3, KeepOrdered DEF CheckActive, stateVars
  <2> QED
    BY <2>1, <2>2, <2>4, <2>5 DEF IInv
<1>11. ASSUME NEW h \in Handlers, RejectPayload(h) PROVE IInv'
  <2>g. PICK to \in Pcs : Go(h, to)
    BY <1>0, <1>11 DEF RejectPayload, Pcs
  <2>0. /\ pc' \in [Reporters -> Pcs] /\ ev' \in [Handlers -> Events]
        /\ \A q \in Reporters \ {h} : pc'[q] = pc[q]
        /\ \A t \in Handlers : pc'[t] # "idle" => ev'[t] = ev[t]
    BY <1>0, <1>z, <1>11, <2>g, GoStep
  <2>1. TypeOK'
    BY <1>0, <1>11, <2>0 DEF RejectPayload, lifeVars, stateVars, reportVars, TypeOK
  <2>2. ReportExclusive' /\ AnnouncedOnce'
    BY <1>0, <1>z, <1>11
    DEF RejectPayload, Go, reportVars, TypeOK, ReportExclusive, AnnouncedOnce, Reporting
  <2>3. CallsGoOn /\ \A t \in Handlers : pc'[t] = "send" => pc[t] = "send"
    BY <1>0, <1>z, <1>11, <2>0 DEF RejectPayload, Go, TypeOK, CallsGoOn
  <2>4. Subscribed'
    BY <1>0, <1>11, <2>3, KeepSubscribed DEF RejectPayload, lifeVars
  <2>5. Ordered'
    BY <1>0, <1>11, <2>3, KeepOrdered DEF RejectPayload, stateVars
  <2> QED
    BY <2>1, <2>2, <2>4, <2>5 DEF IInv
<1>12. ASSUME NEW h \in Handlers, SendFull(h) PROVE IInv'
  <2>g. PICK to \in Pcs : Go(h, to)
    BY <1>0, <1>12 DEF SendFull, Pcs
  <2>0. /\ pc' \in [Reporters -> Pcs] /\ ev' \in [Handlers -> Events]
        /\ \A q \in Reporters \ {h} : pc'[q] = pc[q]
        /\ \A t \in Handlers : pc'[t] # "idle" => ev'[t] = ev[t]
    BY <1>0, <1>z, <1>12, <2>g, GoStep
  <2>1. TypeOK'
    BY <1>0, <1>12, <2>0 DEF SendFull, lifeVars, stateVars, reportVars, TypeOK
  <2>2. ReportExclusive' /\ AnnouncedOnce'
    BY <1>0, <1>z, <1>12
    DEF SendFull, Go, reportVars, TypeOK, ReportExclusive, AnnouncedOnce, Reporting
  <2>3. CallsGoOn /\ \A t \in Handlers : pc'[t] = "send" => pc[t] = "send"
    BY <1>0, <1>z, <1>12, <2>0 DEF SendFull, Go, TypeOK, CallsGoOn
  <2>4. Subscribed'
    BY <1>0, <1>12, <2>3, KeepSubscribed DEF SendFull, lifeVars
  <2>5. Ordered'
    BY <1>0, <1>12, <2>3, KeepOrdered DEF SendFull, stateVars
  <2> QED
    BY <2>1, <2>2, <2>4, <2>5 DEF IInv
<1>13. ASSUME NEW h \in Handlers, SendFails(h) PROVE IInv'
  <2>g. PICK to \in Pcs : Go(h, to)
    BY <1>0, <1>13 DEF SendFails, Pcs
  <2>0. /\ pc' \in [Reporters -> Pcs] /\ ev' \in [Handlers -> Events]
        /\ \A q \in Reporters \ {h} : pc'[q] = pc[q]
        /\ \A t \in Handlers : pc'[t] # "idle" => ev'[t] = ev[t]
    BY <1>0, <1>z, <1>13, <2>g, GoStep
  <2>1. TypeOK'
    BY <1>0, <1>13, <2>0 DEF SendFails, lifeVars, stateVars, reportVars, TypeOK
  <2>2. ReportExclusive' /\ AnnouncedOnce'
    BY <1>0, <1>z, <1>13
    DEF SendFails, Go, reportVars, TypeOK, ReportExclusive, AnnouncedOnce, Reporting
  <2>3. CallsGoOn /\ \A t \in Handlers : pc'[t] = "send" => pc[t] = "send"
    BY <1>0, <1>z, <1>13, <2>0 DEF SendFails, Go, TypeOK, CallsGoOn
  <2>4. Subscribed'
    BY <1>0, <1>13, <2>3, KeepSubscribed DEF SendFails, lifeVars
  <2>5. Ordered'
    BY <1>0, <1>13, <2>3, KeepOrdered DEF SendFails, stateVars
  <2> QED
    BY <2>1, <2>2, <2>4, <2>5 DEF IInv
<1>14. ASSUME NEW h \in Handlers, NoteDropped(h) PROVE IInv'
  <2>g. PICK to \in Pcs : Go(h, to)
    BY <1>0, <1>14 DEF NoteDropped, Pcs
  <2>0. /\ pc' \in [Reporters -> Pcs] /\ ev' \in [Handlers -> Events]
        /\ \A q \in Reporters \ {h} : pc'[q] = pc[q]
        /\ \A t \in Handlers : pc'[t] # "idle" => ev'[t] = ev[t]
    BY <1>0, <1>z, <1>14, <2>g, GoStep
  <2>1. TypeOK'
    BY <1>0, <1>14, <2>0 DEF NoteDropped, lifeVars, stateVars, reportVars, TypeOK
  <2>2. ReportExclusive' /\ AnnouncedOnce'
    BY <1>0, <1>z, <1>14
    DEF NoteDropped, Go, reportVars, TypeOK, ReportExclusive, AnnouncedOnce, Reporting
  <2>3. CallsGoOn /\ \A t \in Handlers : pc'[t] = "send" => pc[t] = "send"
    BY <1>0, <1>z, <1>14, <2>0 DEF NoteDropped, Go, TypeOK, CallsGoOn
  <2>4. Subscribed'
    BY <1>0, <1>14, <2>3, KeepSubscribed DEF NoteDropped, lifeVars
  <2>5. Ordered'
    BY <1>0, <1>14, <2>3, KeepOrdered DEF NoteDropped, stateVars
  <2> QED
    BY <2>1, <2>2, <2>4, <2>5 DEF IInv
<1>15. ASSUME NEW r \in Reporters, TryReport(r) PROVE IInv'
  <2>g. PICK to \in Pcs : Go(r, to)
    BY <1>0, <1>15 DEF TryReport, Pcs
  <2>0. /\ pc' \in [Reporters -> Pcs] /\ ev' \in [Handlers -> Events]
        /\ \A q \in Reporters \ {r} : pc'[q] = pc[q]
        /\ \A h \in Handlers : pc'[h] # "idle" => ev'[h] = ev[h]
    BY <1>0, <1>z, <1>15, <2>g, GoStep
  <2>1. TypeOK'
    BY <1>0, <1>15, <2>0 DEF TryReport, lifeVars, stateVars, reportVars, TypeOK
  <2>2. ReportExclusive' /\ AnnouncedOnce'
    BY <1>0, <1>z, <1>15
    DEF TryReport, Go, reportVars, TypeOK, ReportExclusive, AnnouncedOnce, Reporting
  <2>3. CallsGoOn /\ \A h \in Handlers : pc'[h] = "send" => pc[h] = "send"
    BY <1>0, <1>z, <1>15, <2>0 DEF TryReport, Go, TypeOK, CallsGoOn
  <2>4. Subscribed'
    BY <1>0, <1>15, <2>3, KeepSubscribed DEF TryReport, lifeVars
  <2>5. Ordered'
    BY <1>0, <1>15, <2>3, KeepOrdered DEF TryReport, stateVars
  <2> QED
    BY <2>1, <2>2, <2>4, <2>5 DEF IInv
<1>16. ASSUME NEW r \in Reporters, LoadTotal(r) PROVE IInv'
  <2>g. PICK to \in Pcs : Go(r, to)
    BY <1>0, <1>16 DEF LoadTotal, Pcs
  <2>0. /\ pc' \in [Reporters -> Pcs] /\ ev' \in [Handlers -> Events]
        /\ \A q \in Reporters \ {r} : pc'[q] = pc[q]
        /\ \A h \in Handlers : pc'[h] # "idle" => ev'[h] = ev[h]
    BY <1>0, <1>z, <1>16, <2>g, GoStep
  <2>1. TypeOK'
    BY <1>0, <1>16, <2>0 DEF LoadTotal, lifeVars, stateVars, reportVars, TypeOK
  <2>2. ReportExclusive' /\ AnnouncedOnce'
    BY <1>0, <1>z, <1>16
    DEF LoadTotal, Go, reportVars, TypeOK, ReportExclusive, AnnouncedOnce, Reporting
  <2>3. CallsGoOn /\ \A h \in Handlers : pc'[h] = "send" => pc[h] = "send"
    BY <1>0, <1>z, <1>16, <2>0 DEF LoadTotal, Go, TypeOK, CallsGoOn
  <2>4. Subscribed'
    BY <1>0, <1>16, <2>3, KeepSubscribed DEF LoadTotal, lifeVars
  <2>5. Ordered'
    BY <1>0, <1>16, <2>3, KeepOrdered DEF LoadTotal, stateVars
  <2> QED
    BY <2>1, <2>2, <2>4, <2>5 DEF IInv
<1>17. ASSUME NEW r \in Reporters, WriteReport(r) PROVE IInv'
  <2>g. PICK to \in Pcs : Go(r, to)
    BY <1>0, <1>17 DEF WriteReport, Pcs
  <2>0. /\ pc' \in [Reporters -> Pcs] /\ ev' \in [Handlers -> Events]
        /\ \A q \in Reporters \ {r} : pc'[q] = pc[q]
        /\ \A h \in Handlers : pc'[h] # "idle" => ev'[h] = ev[h]
    BY <1>0, <1>z, <1>17, <2>g, GoStep
  <2>1. TypeOK'
    BY <1>0, <1>17, <2>0 DEF WriteReport, lifeVars, stateVars, reportVars, TypeOK
  <2>2. ReportExclusive' /\ AnnouncedOnce'
    BY <1>0, <1>z, <1>17
    DEF WriteReport, Go, reportVars, TypeOK, ReportExclusive, AnnouncedOnce, Reporting
  <2>3. CallsGoOn /\ \A h \in Handlers : pc'[h] = "send" => pc[h] = "send"
    BY <1>0, <1>z, <1>17, <2>0 DEF WriteReport, Go, TypeOK, CallsGoOn
  <2>4. Subscribed'
    BY <1>0, <1>17, <2>3, KeepSubscribed DEF WriteReport, lifeVars
  <2>5. Ordered'
    BY <1>0, <1>17, <2>3, KeepOrdered DEF WriteReport, stateVars
  <2> QED
    BY <2>1, <2>2, <2>4, <2>5 DEF IInv
<1>18. ASSUME NEW r \in Reporters, SkipReport(r) PROVE IInv'
  <2>g. PICK to \in Pcs : Go(r, to)
    BY <1>0, <1>18 DEF SkipReport, Pcs
  <2>0. /\ pc' \in [Reporters -> Pcs] /\ ev' \in [Handlers -> Events]
        /\ \A q \in Reporters \ {r} : pc'[q] = pc[q]
        /\ \A h \in Handlers : pc'[h] # "idle" => ev'[h] = ev[h]
    BY <1>0, <1>z, <1>18, <2>g, GoStep
  <2>1. TypeOK'
    BY <1>0, <1>18, <2>0 DEF SkipReport, lifeVars, stateVars, reportVars, TypeOK
  <2>2. ReportExclusive' /\ AnnouncedOnce'
    BY <1>0, <1>z, <1>18
    DEF SkipReport, Go, reportVars, TypeOK, ReportExclusive, AnnouncedOnce, Reporting
  <2>3. CallsGoOn /\ \A h \in Handlers : pc'[h] = "send" => pc[h] = "send"
    BY <1>0, <1>z, <1>18, <2>0 DEF SkipReport, Go, TypeOK, CallsGoOn
  <2>4. Subscribed'
    BY <1>0, <1>18, <2>3, KeepSubscribed DEF SkipReport, lifeVars
  <2>5. Ordered'
    BY <1>0, <1>18, <2>3, KeepOrdered DEF SkipReport, stateVars
  <2> QED
    BY <2>1, <2>2, <2>4, <2>5 DEF IInv
<1>19. ASSUME NEW r \in Reporters, ClearLock(r) PROVE IInv'
  <2>g. PICK to \in Pcs : Go(r, to)
    BY <1>0, <1>19 DEF ClearLock, Pcs
  <2>0. /\ pc' \in [Reporters -> Pcs] /\ ev' \in [Handlers -> Events]
        /\ \A q \in Reporters \ {r} : pc'[q] = pc[q]
        /\ \A h \in Handlers : pc'[h] # "idle" => ev'[h] = ev[h]
    BY <1>0, <1>z, <1>19, <2>g, GoStep
  <2>1. TypeOK'
    BY <1>0, <1>19, <2>0 DEF ClearLock, lifeVars, stateVars, reportVars, TypeOK
  <2>2. ReportExclusive' /\ AnnouncedOnce'
    BY <1>0, <1>z, <1>19
    DEF ClearLock, Go, reportVars, TypeOK, ReportExclusive, AnnouncedOnce, Reporting
  <2>3. CallsGoOn /\ \A h \in Handlers : pc'[h] = "send" => pc[h] = "send"
    BY <1>0, <1>z, <1>19, <2>0 DEF ClearLock, Go, TypeOK, CallsGoOn
  <2>4. Subscribed'
    BY <1>0, <1>19, <2>3, KeepSubscribed DEF ClearLock, lifeVars
  <2>5. Ordered'
    BY <1>0, <1>19, <2>3, KeepOrdered DEF ClearLock, stateVars
  <2> QED
    BY <2>1, <2>2, <2>4, <2>5 DEF IInv
<1>20. CASE Receive
  <2>q. queue \in Seq(Events) /\ queue # <<>>
    BY <1>0, <1>20 DEF Receive, TypeOK
  <2>h. /\ Head(queue) \in Events /\ Head(queue) = queue[1] /\ 1 \in DOMAIN queue
        /\ Tail(queue) \in Seq(Events) /\ Len(Tail(queue)) = Len(queue) - 1
        /\ Len(queue) \in Nat
        /\ \A k \in DOMAIN Tail(queue) :
             k + 1 \in DOMAIN queue /\ Tail(queue)[k] = queue[k + 1]
    BY <2>q, QueueTail
  <2>n. Head(queue).n \in 0 .. MaxEvents
    BY <2>h, EventType
  <2>1. TypeOK'
    BY <1>0, <1>20, <2>h, <2>n
    DEF Receive, lifeVars, stateVars, reportVars, TypeOK
  <2>2. ReportExclusive' /\ AnnouncedOnce'
    BY <1>0, <1>20 DEF Receive, reportVars, ReportExclusive, AnnouncedOnce
  <2>3. CallsGoOn
    BY <1>20 DEF Receive, CallsGoOn
  <2>4. Subscribed'
    BY <1>0, <1>20, <2>3, KeepSubscribed DEF Receive, lifeVars
  <2>5. Ordered'
    <3> SUFFICES ASSUME Serial
                 PROVE  (Exclusive /\ Handled /\ Counted /\ StateNotBehind)'
      BY DEF Ordered
    <3>1. Exclusive /\ Handled /\ Counted /\ StateNotBehind
      BY <1>0 DEF Ordered
    <3>2. /\ UNCHANGED <<pc, ev, emitted, state, missed>> /\ queue' = Tail(queue)
          /\ \A c \in Cells : \/ seen'[c] = seen[c]
                              \/ /\ c \in queue[1].cells
                                 /\ seen'[c] = queue[1].n
      BY <1>20, <2>h DEF Receive, stateVars
    <3>3. Exclusive'
      BY <3>1, <3>2 DEF Exclusive
    <3>4. \A h \in Handlers : Newest(h) => Newest(h)'
      <4>1. \A h \in Handlers : ev[h].cells \subseteq Cells
        BY <1>z, EventType
      <4> QED
        BY <2>h, <3>2, <4>1 DEF Newest
    <3>5. Handled'
      BY <3>1, <3>2, <3>4 DEF Handled
    <3>6. Counted'
      BY <2>h, <3>1, <3>2 DEF Counted
    <3>7. StateNotBehind'
      BY <2>h, <3>1, <3>2 DEF StateNotBehind
    <3> QED
      BY <3>3, <3>5, <3>6, <3>7
  <2> QED
    BY <2>1, <2>2, <2>4, <2>5 DEF IInv
<1>21. ASSUME NEW h \in Handlers, Publish(h) PROVE IInv'
  <2>0. /\ pc' \in [Reporters -> Pcs] /\ ev' \in [Handlers -> Events]
        /\ \A q \in Reporters \ {h} : pc'[q] = pc[q]
        /\ \A g \in Handlers : pc'[g] # "idle" => ev'[g] = ev[g]
        /\ pc'[h] = "send"
    <3>1. Go(h, "send") /\ "send" \in Pcs
      BY <1>21 DEF Publish, Pcs
    <3> QED
      BY <1>0, <1>z, <3>1, GoStep
  <2>e. /\ ev[h].n \in 0 .. MaxEvents /\ ev[h].n \in Nat
        /\ ev[h].cells \subseteq Cells
    BY <1>z, EventType
  <2>1. TypeOK'
    BY <1>0, <1>21, <2>0, <2>e
    DEF Publish, lifeVars, reportVars, TypeOK
  <2>2. ReportExclusive' /\ AnnouncedOnce'
    BY <1>0, <1>z, <1>21, <2>0
    DEF Publish, reportVars, TypeOK, ReportExclusive, AnnouncedOnce, Reporting
  <2>3. CallsGoOn /\ pc[h] = "publish"
    BY <1>0, <1>z, <1>21, <2>0 DEF Publish, TypeOK, CallsGoOn
  <2>4. Subscribed'
    BY <1>0, <1>21, <2>3, KeepSubscribed DEF Publish, lifeVars
  <2>5. Ordered'
    <3> SUFFICES ASSUME Serial
                 PROVE  (Exclusive /\ Handled /\ Counted /\ StateNotBehind)'
      BY DEF Ordered
    <3>1. Exclusive /\ Handled /\ Counted /\ StateNotBehind
      BY <1>0 DEF Ordered
    <3>2. Exclusive'
      BY <2>3, <3>1 DEF Exclusive, CallsGoOn
    <3>3. \A g \in Handlers \ {h} : pc'[g] = pc[g]
      BY <1>z, <2>0
    <3>4. \A g \in Handlers \ {h} : pc[g] # "idle" =>
            ev'[g] = ev[g] /\ \A c \in ev[g].cells : c \notin ev[h].cells
      <4>1. ASSUME NEW g \in Handlers \ {h}, pc[g] # "idle",
                   NEW c \in ev[g].cells, c \in ev[h].cells
            PROVE  FALSE
        <5>1. Conflict(ev[g].type, ev[h].type)
          BY <1>z, <4>1, CellConflict
        <5> QED
          BY <2>3, <3>1, <4>1, <5>1 DEF Exclusive
      <4> QED
        BY <2>0, <3>3, <4>1
    <3>5. \A g \in Handlers : ev[g].cells \subseteq Cells /\ ev[g].n \in Nat
      BY <1>z, EventType
    <3>6. /\ \A c \in Cells : state[c] \in Nat /\ seen[c] \in Nat
          /\ emitted \in Nat
      BY <1>0 DEF TypeOK
    <3>7. /\ UNCHANGED <<emitted, queue, seen>> /\ missed' = missed \ ev[h].cells
          /\ \A c \in Cells : state'[c] = IF c \in ev[h].cells THEN ev[h].n
                                          ELSE state[c]
      BY <1>21 DEF Publish
    <3>8. Newest(h) /\ ev[h].n <= emitted
      BY <2>3, <3>1 DEF Handled
    <3>9. Handled'
      <4>1. ASSUME NEW g \in Handlers \ {h}, pc[g] \in {"check", "publish"}
            PROVE  Newest(g)'
        BY <3>1, <3>4, <3>5, <3>7, <4>1 DEF Handled, Newest
      <4>2. ASSUME NEW g \in Handlers \ {h}, pc[g] = "send"
            PROVE  \A c \in ev[g].cells \ missed' : ev[g].n <= state'[c]
        BY <3>1, <3>4, <3>5, <3>7, <4>2 DEF Handled
      <4>3. \A c \in ev[h].cells : ev[h].n <= state'[c]
        BY <3>5, <3>7
      <4>4. \A g \in Handlers : pc'[g] # "idle" => ev'[g] = ev[g]
        BY <2>0
      <4>5. \A g \in Handlers \ {h} : pc[g] # "idle" => ev[g].n <= emitted
        BY <3>1 DEF Handled
      <4> QED
        BY <2>0, <3>3, <3>7, <3>8, <4>1, <4>2, <4>3, <4>4, <4>5 DEF Handled
    <3>10. Counted'
      BY <3>1, <3>7, <3>8 DEF Counted
    <3>11. StateNotBehind'
      BY <3>1, <3>7, <3>8 DEF StateNotBehind, Newest
    <3> QED
      BY <3>2, <3>9, <3>10, <3>11
  <2> QED
    BY <2>1, <2>2, <2>4, <2>5 DEF IInv
<1>22. ASSUME NEW h \in Handlers, PublishUnlocked(h) PROVE IInv'
  <2>0. /\ pc' \in [Reporters -> Pcs] /\ ev' \in [Handlers -> Events]
        /\ \A q \in Reporters \ {h} : pc'[q] = pc[q]
        /\ \A g \in Handlers : pc'[g] # "idle" => ev'[g] = ev[g]
        /\ pc'[h] = "send"
    <3>1. Go(h, "send") /\ "send" \in Pcs
      BY <1>22 DEF PublishUnlocked, Pcs
    <3> QED
      BY <1>0, <1>z, <3>1, GoStep
  <2>e. /\ ev[h].n \in 0 .. MaxEvents /\ ev[h].n \in Nat
        /\ ev[h].cells \subseteq Cells
    BY <1>z, EventType
  <2>1. TypeOK'
    BY <1>0, <1>22, <2>0, <2>e
    DEF PublishUnlocked, lifeVars, reportVars, TypeOK
  <2>2. ReportExclusive' /\ AnnouncedOnce'
    BY <1>0, <1>z, <1>22, <2>0
    DEF PublishUnlocked, reportVars, TypeOK, ReportExclusive, AnnouncedOnce, Reporting
  <2>3. CallsGoOn /\ pc[h] = "publish"
    BY <1>0, <1>z, <1>22, <2>0 DEF PublishUnlocked, TypeOK, CallsGoOn
  <2>4. Subscribed'
    BY <1>0, <1>22, <2>3, KeepSubscribed DEF PublishUnlocked, lifeVars
  <2>5. Ordered'
    <3> SUFFICES ASSUME Serial
                 PROVE  (Exclusive /\ Handled /\ Counted /\ StateNotBehind)'
      BY DEF Ordered
    <3>1. Exclusive /\ Handled /\ Counted /\ StateNotBehind
      BY <1>0 DEF Ordered
    <3>2. Exclusive'
      BY <2>3, <3>1 DEF Exclusive, CallsGoOn
    <3>3. \A g \in Handlers \ {h} : pc'[g] = pc[g]
      BY <1>z, <2>0
    <3>4. \A g \in Handlers \ {h} : pc[g] # "idle" =>
            ev'[g] = ev[g] /\ \A c \in ev[g].cells : c \notin ev[h].cells
      <4>1. ASSUME NEW g \in Handlers \ {h}, pc[g] # "idle",
                   NEW c \in ev[g].cells, c \in ev[h].cells
            PROVE  FALSE
        <5>1. Conflict(ev[g].type, ev[h].type)
          BY <1>z, <4>1, CellConflict
        <5> QED
          BY <2>3, <3>1, <4>1, <5>1 DEF Exclusive
      <4> QED
        BY <2>0, <3>3, <4>1
    <3>5. \A g \in Handlers : ev[g].cells \subseteq Cells /\ ev[g].n \in Nat
      BY <1>z, EventType
    <3>6. /\ \A c \in Cells : state[c] \in Nat /\ seen[c] \in Nat
          /\ emitted \in Nat
      BY <1>0 DEF TypeOK
    <3>7. /\ UNCHANGED <<emitted, queue, seen, state>>
          /\ missed' = missed \cup ev[h].cells
      BY <1>22 DEF PublishUnlocked
    <3>8. Handled'
      <4>1. \A g \in Handlers \ {h} : pc[g] \in {"check", "publish"} => Newest(g)'
        BY <3>1, <3>4, <3>7 DEF Handled, Newest
      <4>2. \A c \in ev[h].cells \ missed' : FALSE
        BY <3>7
      <4> QED
        BY <2>0, <2>3, <3>1, <3>3, <3>7, <4>1, <4>2 DEF Handled
    <3>9. (Counted /\ StateNotBehind)'
      BY <3>1, <3>7 DEF Counted, StateNotBehind
    <3> QED
      BY <3>2, <3>8, <3>9
  <2> QED
    BY <2>1, <2>2, <2>4, <2>5 DEF IInv
<1>23. ASSUME NEW h \in Handlers, SendAccepted(h) PROVE IInv'
  <2>0. /\ pc' \in [Reporters -> Pcs] /\ ev' \in [Handlers -> Events]
        /\ \A q \in Reporters \ {h} : pc'[q] = pc[q]
        /\ \A g \in Handlers : pc'[g] # "idle" => ev'[g] = ev[g]
        /\ pc'[h] = "idle"
    <3>1. Go(h, "idle") /\ "idle" \in Pcs
      BY <1>23 DEF SendAccepted, Pcs
    <3> QED
      BY <1>0, <1>z, <3>1, GoStep
  <2>e. /\ ev[h].n \in 0 .. MaxEvents /\ ev[h].n \in Nat
        /\ ev[h].cells \subseteq Cells
    BY <1>z, EventType
  <2>1. TypeOK'
    <3>1. Append(queue, ev[h]) \in Seq(Events)
          /\ Len(Append(queue, ev[h])) = Len(queue) + 1
      BY <1>0, <1>z, QueueAppend DEF TypeOK
    <3>2. Len(queue) \in Nat
      BY <1>0 DEF TypeOK
    <3> QED
      BY <1>0, <1>23, <2>0, <3>1, <3>2
      DEF SendAccepted, lifeVars, stateVars, reportVars, TypeOK
  <2>2. ReportExclusive' /\ AnnouncedOnce'
    BY <1>0, <1>z, <1>23, <2>0
    DEF SendAccepted, reportVars, TypeOK, ReportExclusive, AnnouncedOnce, Reporting
  <2>3. CallsGoOn /\ pc[h] = "send"
    BY <1>0, <1>z, <1>23, <2>0 DEF SendAccepted, TypeOK, CallsGoOn
  <2>4. Subscribed'
    BY <1>0, <1>23, <2>3, KeepSubscribed DEF SendAccepted, lifeVars
  <2>5. Ordered'
    <3> SUFFICES ASSUME Serial
                 PROVE  (Exclusive /\ Handled /\ Counted /\ StateNotBehind)'
      BY DEF Ordered
    <3>1. Exclusive /\ Handled /\ Counted /\ StateNotBehind
      BY <1>0 DEF Ordered
    <3>2. Exclusive'
      BY <2>3, <3>1 DEF Exclusive, CallsGoOn
    <3>3. \A g \in Handlers \ {h} : pc'[g] = pc[g]
      BY <1>z, <2>0
    <3>4. \A g \in Handlers \ {h} : pc[g] # "idle" =>
            ev'[g] = ev[g] /\ \A c \in ev[g].cells : c \notin ev[h].cells
      <4>1. ASSUME NEW g \in Handlers \ {h}, pc[g] # "idle",
                   NEW c \in ev[g].cells, c \in ev[h].cells
            PROVE  FALSE
        <5>1. Conflict(ev[g].type, ev[h].type)
          BY <1>z, <4>1, CellConflict
        <5> QED
          BY <2>3, <3>1, <4>1, <5>1 DEF Exclusive
      <4> QED
        BY <2>0, <3>3, <4>1
    <3>5. \A g \in Handlers : ev[g].cells \subseteq Cells /\ ev[g].n \in Nat
      BY <1>z, EventType
    <3>6. /\ \A c \in Cells : state[c] \in Nat /\ seen[c] \in Nat
          /\ emitted \in Nat
      BY <1>0 DEF TypeOK
    <3>7. UNCHANGED <<emitted, state, missed, seen>>
      BY <1>23 DEF SendAccepted, stateVars
    <3>8. \A k \in DOMAIN queue' : \/ k \in DOMAIN queue /\ queue'[k] = queue[k]
                                   \/ queue'[k] = ev[h]
      BY <1>0, <1>z, <1>23, QueueAppend DEF SendAccepted, TypeOK
    <3>9. /\ ev[h].n <= emitted
          /\ \A c \in ev[h].cells \ missed : ev[h].n <= state[c]
      BY <2>3, <3>1 DEF Handled
    <3>10. Handled'
      <4>1. ASSUME NEW g \in Handlers \ {h}, pc[g] \in {"check", "publish"}
            PROVE  Newest(g)'
        <5>1. Newest(g) /\ ev'[g] = ev[g]
          BY <3>1, <3>4, <4>1 DEF Handled
        <5> QED
          BY <3>4, <3>7, <3>8, <4>1, <5>1 DEF Newest
      <4> QED
        BY <2>0, <3>1, <3>3, <3>4, <3>7, <4>1 DEF Handled
    <3>11. Counted'
      BY <3>1, <3>7, <3>8, <3>9 DEF Counted
    <3>12. StateNotBehind'
      BY <3>1, <3>7, <3>8, <3>9 DEF StateNotBehind
    <3> QED
      BY <3>2, <3>10, <3>11, <3>12
  <2> QED
    BY <2>1, <2>2, <2>4, <2>5 DEF IInv
<1>24. ASSUME NEW h \in Handlers, NEW i \in Types, Dispatch(h, i) PROVE IInv'
  <2>k. PICK known \in SUBSET Optional[i] :
          ev' = [ev EXCEPT ![h] = [type |-> i, n |-> emitted + 1,
                                   cells |-> Own[i] \cup known]]
    BY <1>24 DEF Dispatch
  <2>m. /\ emitted \in Nat /\ emitted + 1 \in 0 .. MaxEvents
        /\ emitted + 1 \in 1 .. MaxEvents /\ emitted' = emitted + 1
    BY <1>0, <1>24 DEF Dispatch, TypeOK
  <2>e. [type |-> i, n |-> emitted + 1, cells |-> Own[i] \cup known] \in Events
    BY <2>m, CellAssumption DEF Events, MayWrite
  <2>h. /\ ev' \in [Handlers -> Events] /\ ev'[h].type = i
        /\ ev'[h].n = emitted + 1 /\ ev'[h] \in Events
        /\ \A g \in Handlers \ {h} : ev'[g] = ev[g]
    BY <1>0, <2>k, <2>e DEF TypeOK
  <2>p. /\ pc' \in [Reporters -> Pcs] /\ pc'[h] = "check"
        /\ \A q \in Reporters \ {h} : pc'[q] = pc[q]
    BY <1>0, <1>z, <1>24 DEF Dispatch, TypeOK, Pcs
  <2>1. TypeOK'
    BY <1>0, <1>24, <2>m, <2>h, <2>p
    DEF Dispatch, lifeVars, stateVars, reportVars, TypeOK
  <2>2. ReportExclusive' /\ AnnouncedOnce'
    BY <1>0, <1>z, <1>24, <2>p
    DEF Dispatch, reportVars, ReportExclusive, AnnouncedOnce, Reporting
  <2>3. Subscribed'
    BY <1>0, <1>z, <1>24, <2>h, <2>p DEF Dispatch, lifeVars, Subscribed
  <2>4. Ordered'
    <3> SUFFICES ASSUME Serial
                 PROVE  (Exclusive /\ Handled /\ Counted /\ StateNotBehind)'
      BY DEF Ordered
    <3>1. Exclusive /\ Handled /\ Counted /\ StateNotBehind
      BY <1>0 DEF Ordered
    <3>2. \A g \in Handlers :
            pc[g] # "idle" => ~Conflict(i, ev[g].type) /\ ~Conflict(ev[g].type, i)
      <4>1. \A g \in Handlers : pc[g] # "idle" => ~Conflict(i, ev[g].type)
        BY <1>y, <1>24 DEF Dispatch, InFlight
      <4> QED
        BY <4>1 DEF Conflict
    <3>3. UNCHANGED <<state, missed, queue, seen>>
      BY <1>24 DEF Dispatch, stateVars
    <3>4. \A g \in Handlers \ {h} : pc'[g] = pc[g]
      BY <1>z, <2>p
    <3>5. Exclusive'
      BY <2>h, <2>p, <3>1, <3>2, <3>4 DEF Exclusive
    <3>6. /\ \A c \in Cells : state[c] \in Nat /\ seen[c] \in Nat
          /\ \A k \in DOMAIN queue : queue[k].n \in Nat
      <4>1. \A k \in DOMAIN queue : queue[k] \in Events
        BY <1>0 DEF TypeOK
      <4> QED
        BY <1>0, <4>1, EventType DEF TypeOK
    <3>7. Newest(h)'
      <4>1. ev'[h].cells \subseteq Cells
        BY <2>h, EventType
      <4> QED
        BY <2>h, <2>m, <3>1, <3>3, <3>6, <4>1 DEF Newest, Counted
    <3>8. \A g \in Handlers \ {h} : Newest(g) => Newest(g)'
      BY <2>h, <3>3 DEF Newest
    <3>n. \A g \in Handlers : ev[g].n \in Nat
      BY <1>z, EventType
    <3>9. Handled'
      BY <2>h, <2>m, <2>p, <3>1, <3>3, <3>4, <3>7, <3>8, <3>n DEF Handled
    <3>10. Counted'
      BY <2>m, <3>1, <3>3, <3>6 DEF Counted
    <3>11. StateNotBehind'
      BY <3>1, <3>3 DEF StateNotBehind
    <3> QED
      BY <3>5, <3>9, <3>10, <3>11
  <2> QED
    BY <2>1, <2>2, <2>3, <2>4 DEF IInv
<1> QED
  BY <1>u, <1>1, <1>2, <1>3, <1>4, <1>5, <1>6, <1>7, <1>8, <1>9, <1>10,
     <1>11, <1>12, <1>13, <1>14, <1>15, <1>16, <1>17, <1>18, <1>19, <1>20,
     <1>21, <1>22, <1>23, <1>24
  DEF Next, Lifecycle, Handler, Report, Finished

------------------------------------------------------------------------------
(* IInv is an invariant.                                                    *)
THEOREM Invariance == Spec => []IInv
<1>1. Init => IInv
  BY InitInv
<1>2. IInv /\ [Next]_vars => IInv'
  BY StepInv
<1> QED
  BY <1>1, <1>2, PTL DEF Spec

(* The state of the system events is always well typed; the queue keeps to  *)
(* its capacity.                                                            *)
THEOREM TypeCorrect == Spec => []TypeOK
<1>1. IInv => TypeOK
  BY DEF IInv
<1> QED
  BY <1>1, Invariance, PTL

(* publish_system_state before the enqueue: if handlers of types that write *)
(* a part of the state in common do not run at the same time, a consumer    *)
(* never reads a part older than the event it received, unless the last     *)
(* publication of that part could not take the lock.                        *)
THEOREM StateKeepsUp ==
  ASSUME Serial
  PROVE  Spec => []StateNotBehind
<1>1. IInv => StateNotBehind
  BY DEF IInv, Ordered
<1> QED
  BY <1>1, Invariance, PTL

(* h2_runtime_stop_system_events leaves no handler running, whenever it is  *)
(* called, so h2_runtime_system_state_release may destroy the lock.         *)
THEOREM IngestStopped == Spec => []NoHandlerAfterRelease
<1>1. IInv => NoHandlerAfterRelease
  <2> SUFFICES ASSUME IInv, life \in {"release", "released"},
                      NEW h \in Handlers, pc[h] # "idle"
               PROVE  FALSE
    BY DEF IInv, Subscribed, NoHandlerAfterRelease
  <2>1. ev[h].type \in Types
    BY EventType DEF IInv, TypeOK
  <2>2. ev[h].type <= 0
    BY DEF IInv, Subscribed
  <2> QED
    BY <2>1, <2>2, TypeAssumption DEF Types
<1> QED
  BY <1>1, Invariance, PTL

(* h2_runtime_report_dropped_events never announces a drop twice.           *)
THEOREM ReportsExact == Spec => []AnnouncedOnce
<1>1. IInv => AnnouncedOnce
  BY DEF IInv
<1> QED
  BY <1>1, Invariance, PTL
=============================================================================
