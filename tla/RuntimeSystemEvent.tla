-------------------------- MODULE RuntimeSystemEvent --------------------------
(***************************************************************************)
(* Platform events on their way into the Runtime: the handler of           *)
(* h2_runtime_system_event.c publishes the system state, then queues the   *)
(* event; a full queue drops it, counts the drop and tries to report it    *)
(* (h2_runtime_event.c).  Subscriptions are made by init and taken back by *)
(* deinit before the lock of the system state is destroyed.                *)
(*                                                                         *)
(* The published state is a set of cells: the station, and the fields of   *)
(* the modem.  Every station type writes the one station cell; a modem     *)
(* type writes its own field, and the radio technology (rat), which four   *)
(* types share, when the event knows it; other types write nothing.  The   *)
(* n-th event dispatched carries the number n, so that a cell with a       *)
(* larger number is newer.  The System Event PAL calls handlers on the     *)
(* posting threads; Serial says whether it runs the handlers of types that *)
(* write a cell in common one after the other, as a platform does that     *)
(* posts from one event loop, or from one thread per driver.               *)
(***************************************************************************)
EXTENDS Naturals, Sequences

CONSTANTS Handlers,       \* threads the PAL may dispatch on
          TypeCount,      \* entries of s_system_event_types
          Cells,          \* parts of the published system state
          Own,            \* per type: the cells its events always report
          Optional,       \* per type: the cells its events may report
          QueueCapacity,  \* items of the event queue
          Serial,         \* one handler at a time of the types that share a cell
          MaxEvents       \* bound on the events dispatched

Types == 1 .. TypeCount
MayWrite(i) == Own[i] \cup Optional[i]
Conflict(i, j) == MayWrite(i) \cap MayWrite(j) # {}
Tick == "tick"
Reporters == Handlers \cup {Tick}

ASSUME HandlerAssumption == Tick \notin Handlers
ASSUME TypeAssumption == TypeCount \in Nat \ {0}
ASSUME CellAssumption ==
  Own \in [Types -> SUBSET Cells] /\ Optional \in [Types -> SUBSET Cells]
ASSUME QueueAssumption == QueueCapacity \in Nat \ {0}
ASSUME EventsAssumption == MaxEvents \in Nat \ {0}
ASSUME SerialAssumption == Serial \in BOOLEAN

VARIABLES
  life,       \* where init and deinit are
  active,     \* system_event_active
  subs,       \* system_event_subscription_count
  pc,         \* per handler, and for the input tick
  ev,         \* per handler: the event it was called with
  emitted,    \* events dispatched so far
  state,      \* per cell: the event it was published from
  missed,     \* history: cells whose last publication found no lock
  queue,      \* event_queue
  seen,       \* per cell: the event the main loop received last about it
  dropped,    \* dropped_event_count
  reportLock, \* drop_report_lock
  total,      \* per reporter: its local total
  reported    \* drop_reported_count

vars == <<life, active, subs, pc, ev, emitted, state, missed, queue, seen,
          dropped, reportLock, total, reported>>

Events ==
  {e \in [type : Types, n : 1 .. MaxEvents, cells : SUBSET Cells] :
     e.cells \subseteq MayWrite(e.type)}
Lives == {"init", "subscribe", "running", "unsub", "drain", "release",
          "released"}
Pcs == {"idle", "check", "publish", "send", "drop", "report", "load", "write",
        "clear"}

reportVars == <<reportLock, total, reported>>
lifeVars == <<life, active, subs>>
stateVars == <<state, missed>>

(* A handler that is not called has no event.                               *)
NoEvent == [type |-> 1, n |-> 1, cells |-> {}]

(* The next place of a handler or of the tick; its locals end with the call. *)
Go(r, to) ==
  /\ pc' = [pc EXCEPT ![r] = to]
  /\ ev' = [h \in Handlers |->
             IF h = r /\ to = "idle" THEN NoEvent ELSE ev[h]]

Init ==
  /\ life = "init" /\ active = FALSE /\ subs = 0
  /\ pc = [r \in Reporters |-> "idle"]
  /\ ev = [h \in Handlers |-> NoEvent]
  /\ emitted = 0
  /\ state = [c \in Cells |-> 0] /\ missed = {}
  /\ queue = <<>>
  /\ seen = [c \in Cells |-> 0]
  /\ dropped = 0 /\ reportLock = FALSE
  /\ total = [r \in Reporters |-> 0]
  /\ reported = 0

------------------------------------------------------------------------------
(* h2_runtime_start_system_events: without a provider there is nothing to   *)
(* subscribe to.                                                            *)
StartSystemEvents ==
  /\ life = "init"
  /\ \/ active' = TRUE /\ life' = "subscribe"
     \/ active' = FALSE /\ life' = "running"
  /\ UNCHANGED <<subs, pc, ev, emitted, stateVars, queue, seen, dropped,
                 reportVars>>

Subscribe ==
  /\ life = "subscribe" /\ subs < TypeCount
  /\ subs' = subs + 1
  /\ UNCHANGED <<life, active, pc, ev, emitted, stateVars, queue, seen, dropped,
                 reportVars>>

SubscribeDone ==
  /\ life = "subscribe" /\ subs = TypeCount
  /\ life' = "running"
  /\ UNCHANGED <<active, subs, pc, ev, emitted, stateVars, queue, seen, dropped,
                 reportVars>>

(* h2_runtime_stop_system_events, from deinit or after a failed subscribe.  *)
StopSystemEvents ==
  /\ \/ life = "running"
     \/ life = "subscribe" /\ subs < TypeCount
  /\ pc[Tick] = "idle"    \* the input worker was joined before
  /\ active' = FALSE
  /\ life' = "unsub"
  /\ UNCHANGED <<subs, pc, ev, emitted, stateVars, queue, seen, dropped,
                 reportVars>>

(* h2_pal_system_event_unsubscribe of the last subscription: no new calls,  *)
(* then wait for those in flight.                                           *)
Unsubscribe ==
  /\ life = "unsub" /\ subs > 0
  /\ subs' = subs - 1
  /\ life' = "drain"
  /\ UNCHANGED <<active, pc, ev, emitted, stateVars, queue, seen, dropped,
                 reportVars>>

InFlight(i) == \E h \in Handlers : pc[h] # "idle" /\ ev[h].type = i

Drained ==
  /\ life = "drain"
  /\ ~InFlight(subs + 1)
  /\ life' = "unsub"
  /\ UNCHANGED <<active, subs, pc, ev, emitted, stateVars, queue, seen, dropped,
                 reportVars>>

(* Mutant: the loop over the subscriptions stops before the first one.      *)
MutantKeepFirst ==
  /\ life = "unsub" /\ subs <= 1
  /\ life' = "release"
  /\ UNCHANGED <<active, subs, pc, ev, emitted, stateVars, queue, seen, dropped,
                 reportVars>>

UnsubscribeDone ==
  /\ life = "unsub" /\ subs = 0
  /\ life' = "release"
  /\ UNCHANGED <<active, subs, pc, ev, emitted, stateVars, queue, seen, dropped,
                 reportVars>>

(* h2_runtime_system_state_release destroys the lock.                       *)
Release ==
  /\ life = "release"
  /\ life' = "released"
  /\ UNCHANGED <<active, subs, pc, ev, emitted, stateVars, queue, seen, dropped,
                 reportVars>>

------------------------------------------------------------------------------
(* The PAL calls h2_runtime_system_event_handler on thread h for an event   *)
(* that reports its type's own cells and some of the optional ones.         *)
Dispatch(h, i) ==
  /\ pc[h] = "idle"
  /\ i <= subs
  /\ emitted < MaxEvents
  /\ Serial => \A j \in Types : Conflict(i, j) => ~InFlight(j)
  /\ emitted' = emitted + 1
  /\ \E known \in SUBSET Optional[i] :
       ev' = [ev EXCEPT ![h] = [type |-> i, n |-> emitted + 1,
                                cells |-> Own[i] \cup known]]
  /\ pc' = [pc EXCEPT ![h] = "check"]
  /\ UNCHANGED <<lifeVars, stateVars, queue, seen, dropped, reportVars>>

(* Mutant: the event is queued without its state.                           *)
MutantSkipPublish(h) ==
  /\ pc[h] = "check"
  /\ Go(h, IF active THEN "send" ELSE "idle")
  /\ UNCHANGED <<lifeVars, emitted, stateVars, queue, seen, dropped,
                 reportVars>>

CheckActive(h) ==
  /\ pc[h] = "check"
  /\ Go(h, IF active THEN "publish" ELSE "idle")
  /\ UNCHANGED <<lifeVars, emitted, stateVars, queue, seen, dropped,
                 reportVars>>

(* publish_system_state under the lock.                                     *)
Publish(h) ==
  /\ pc[h] = "publish"
  /\ state' = [c \in Cells |-> IF c \in ev[h].cells THEN ev[h].n ELSE state[c]]
  /\ missed' = missed \ ev[h].cells
  /\ Go(h, "send")
  /\ UNCHANGED <<lifeVars, emitted, queue, seen, dropped, reportVars>>

(* Without the lock, because there is none or it cannot be taken, nothing   *)
(* is written; the event is queued all the same.                            *)
PublishUnlocked(h) ==
  /\ pc[h] = "publish"
  /\ missed' = missed \cup ev[h].cells
  /\ Go(h, "send")
  /\ UNCHANGED <<lifeVars, emitted, state, queue, seen, dropped, reportVars>>

(* A payload that cannot be mapped ends the call before.                    *)
RejectPayload(h) ==
  /\ pc[h] = "publish"
  /\ Go(h, "idle")
  /\ UNCHANGED <<lifeVars, emitted, stateVars, queue, seen, dropped,
                 reportVars>>

(* h2_runtime_enqueue_event_deferred_report; the wake token it sends is the *)
(* subject of RuntimeEvent.                                                 *)
SendAccepted(h) ==
  /\ pc[h] = "send"
  /\ Len(queue) < QueueCapacity
  /\ queue' = Append(queue, ev[h])
  /\ Go(h, "idle")
  /\ UNCHANGED <<lifeVars, emitted, stateVars, seen, dropped, reportVars>>

SendFull(h) ==
  /\ pc[h] = "send"
  /\ Len(queue) = QueueCapacity
  /\ Go(h, "drop")
  /\ UNCHANGED <<lifeVars, emitted, stateVars, queue, seen, dropped,
                 reportVars>>

(* Any other error of the queue, closed or failing, is returned to the PAL; *)
(* the drop is not counted.                                                 *)
SendFails(h) ==
  /\ pc[h] = "send"
  /\ Go(h, "idle")
  /\ UNCHANGED <<lifeVars, emitted, stateVars, queue, seen, dropped,
                 reportVars>>

NoteDropped(h) ==
  /\ pc[h] = "drop"
  /\ dropped' = dropped + 1
  /\ Go(h, "report")
  /\ UNCHANGED <<lifeVars, emitted, stateVars, queue, seen, reportVars>>

------------------------------------------------------------------------------
(* h2_runtime_report_dropped_events.                                        *)

(* The input poll reports too.                                              *)
TickReports ==
  /\ pc[Tick] = "idle" /\ life = "running"
  /\ Go(Tick, "report")
  /\ UNCHANGED <<lifeVars, emitted, stateVars, queue, seen, dropped,
                 reportVars>>

(* Mutant: the report lock is not tested.                                   *)
MutantReportAnyway(r) ==
  /\ pc[r] = "report"
  /\ Go(r, "load")
  /\ reportLock' = TRUE
  /\ UNCHANGED <<lifeVars, emitted, stateVars, queue, seen, dropped, total,
                 reported>>

TryReport(r) ==
  /\ pc[r] = "report"
  /\ Go(r, IF reportLock THEN "idle" ELSE "load")
  /\ reportLock' = TRUE
  /\ UNCHANGED <<lifeVars, emitted, stateVars, queue, seen, dropped, total,
                 reported>>

LoadTotal(r) ==
  /\ pc[r] = "load"
  /\ total' = [total EXCEPT ![r] = dropped]
  /\ Go(r, IF dropped = reported THEN "clear" ELSE "write")
  /\ UNCHANGED <<lifeVars, emitted, stateVars, queue, seen, dropped,
                 reportLock, reported>>

(* The WARN line; not without a clock, nor too soon after the last one.     *)
WriteReport(r) ==
  /\ pc[r] = "write"
  /\ reported' = total[r]
  /\ Go(r, "clear")
  /\ UNCHANGED <<lifeVars, emitted, stateVars, queue, seen, dropped,
                 reportLock, total>>

(* Mutant: an early return keeps the report lock.                           *)
MutantKeepLock(r) ==
  /\ pc[r] = "write"
  /\ Go(r, "idle")
  /\ UNCHANGED <<lifeVars, emitted, stateVars, queue, seen, dropped,
                 reportVars>>

SkipReport(r) ==
  /\ pc[r] = "write"
  /\ Go(r, "clear")
  /\ UNCHANGED <<lifeVars, emitted, stateVars, queue, seen, dropped,
                 reportVars>>

ClearLock(r) ==
  /\ pc[r] = "clear"
  /\ reportLock' = FALSE
  /\ total' = [total EXCEPT ![r] = 0]
  /\ Go(r, "idle")
  /\ UNCHANGED <<lifeVars, emitted, stateVars, queue, seen, dropped, reported>>

------------------------------------------------------------------------------
(* h2_runtime_poll_event.                                                   *)
Receive ==
  /\ queue # <<>>
  /\ seen' = [c \in Cells |->
               IF c \in Head(queue).cells THEN Head(queue).n ELSE seen[c]]
  /\ queue' = Tail(queue)
  /\ UNCHANGED <<lifeVars, pc, ev, emitted, stateVars, dropped, reportVars>>

Lifecycle ==
  \/ StartSystemEvents \/ Subscribe \/ SubscribeDone
  \/ Unsubscribe \/ Drained \/ UnsubscribeDone \/ Release

Handler(h) ==
  \/ CheckActive(h) \/ Publish(h) \/ PublishUnlocked(h) \/ RejectPayload(h)
  \/ SendAccepted(h) \/ SendFull(h) \/ SendFails(h) \/ NoteDropped(h)

Report(r) ==
  \/ TryReport(r) \/ LoadTotal(r) \/ WriteReport(r) \/ SkipReport(r)
  \/ ClearLock(r)

(* After deinit nothing need happen.                                        *)
Finished == life = "released" /\ UNCHANGED vars

Next ==
  \/ Lifecycle \/ StopSystemEvents
  \/ \E h \in Handlers : Handler(h) \/ \E i \in Types : Dispatch(h, i)
  \/ TickReports \/ \E r \in Reporters : Report(r)
  \/ Receive \/ Finished

Spec == Init /\ [][Next]_vars

(* Every thread is scheduled, the input worker ticks, the clock advances    *)
(* and does not fail forever, and a tick finds the report lock free now and *)
(* then.                                                                    *)
FairSpec ==
  /\ Spec
  /\ WF_vars(Lifecycle)
  /\ \A h \in Handlers : WF_vars(Handler(h))
  /\ WF_vars(TickReports)
  /\ \A r \in Reporters : WF_vars(Report(r)) /\ SF_vars(WriteReport(r))
  /\ SF_vars(TryReport(Tick) /\ ~reportLock)

------------------------------------------------------------------------------
(* Type invariant.                                                          *)
TypeOK ==
  /\ life \in Lives /\ active \in BOOLEAN /\ subs \in 0 .. TypeCount
  /\ pc \in [Reporters -> Pcs]
  /\ ev \in [Handlers -> Events]
  /\ emitted \in 0 .. MaxEvents
  /\ state \in [Cells -> 0 .. MaxEvents] /\ missed \subseteq Cells
  /\ queue \in Seq(Events) /\ Len(queue) <= QueueCapacity
  /\ seen \in [Cells -> 0 .. MaxEvents]
  /\ dropped \in Nat /\ reportLock \in BOOLEAN
  /\ total \in [Reporters -> Nat]
  /\ reported \in Nat

(* "a consumer woken by the event must not be able to read a snapshot older *)
(* than the event that woke it": no cell is older than an event that        *)
(* reports it and that the main loop can receive, or has received.  Only a  *)
(* cell whose last publication did not get the lock may be, until the next  *)
(* one that does.                                                           *)
StateNotBehind ==
  \A c \in Cells \ missed :
    /\ seen[c] <= state[c]
    /\ \A k \in DOMAIN queue : c \in queue[k].cells => queue[k].n <= state[c]

(* "After the ingest stops, so no publication can outlive the lock": when   *)
(* the lock of the system state is destroyed no handler is running, and     *)
(* none can be called.                                                      *)
NoHandlerAfterRelease ==
  life \in {"release", "released"} =>
    subs = 0 /\ \A h \in Handlers : pc[h] = "idle"

(* A WARN line announces total - drop_reported_count, an unsigned number:   *)
(* producers that race for the report neither announce a drop twice nor     *)
(* make the difference wrap.                                                *)
AnnouncedOnce ==
  /\ reported <= dropped
  /\ \A r \in Reporters : pc[r] = "write" => reported < total[r]

(* "the winner (or the next input tick) reports the newer total": a counted *)
(* drop is reported while the Runtime runs.                                 *)
DropsReported ==
  (reported < dropped) ~> (reported = dropped \/ life # "running")
=============================================================================
