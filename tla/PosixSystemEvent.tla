--------------------------- MODULE PosixSystemEvent ---------------------------
(***************************************************************************)
(* The System Event provider of the POSIX hosts,                           *)
(* h2_posix_system_event.c: a table of subscriptions under one mutex, and  *)
(* posts that call the handlers outside it.  A post takes a snapshot of    *)
(* the matching subscriptions and admits each one just before its call; an *)
(* unsubscribe waits on a condition variable for the calls in flight,      *)
(* except for those of its own thread.  Handlers may post, subscribe and   *)
(* unsubscribe themselves and others.                                      *)
(*                                                                         *)
(* One action is one critical section.  A post of thread t at depth d is   *)
(* the place <<t, d>>; its frame is the slot it is calling.  init and      *)
(* deinit are called by the board, one after the other.                    *)
(***************************************************************************)
EXTENDS Naturals, FiniteSets

CONSTANTS Threads,
          SlotCount,        \* H2_POSIX_SYSTEM_EVENT_MAX_SUBSCRIPTIONS
          Types,            \* event types
          MaxDepth,         \* bound on nested posts
          MaxSubs           \* bound on s_next_generation

Slots == 1 .. SlotCount
Depths == 1 .. MaxDepth
Places == Threads \X Depths
Gens == 1 .. MaxSubs

ASSUME ThreadsAssumption == IsFiniteSet(Threads)
ASSUME SlotAssumption == SlotCount \in Nat
ASSUME DepthAssumption == MaxDepth \in Nat
ASSUME SubsAssumption == MaxSubs \in Nat

(* A subscription as its slot and generation; NoSub is none.                *)
Handles == [slot : Slots, gen : Gens]
NoSub == [slot |-> 0, gen |-> 0]
NoType == "none"

VARIABLES
  initialized,    \* s_initialized
  nextGeneration, \* s_next_generation
  active, inFlight, waiters, generation, type,  \* s_subscriptions
  depth,          \* per thread: nested posts
  todo,           \* per place: the rest of the post's snapshot
  frame,          \* per place: the subscription being called, or NoSub
  since,          \* per place: s_next_generation when the post was made
  wait,           \* per thread: the subscription its unsubscribe waits for
  asleep,         \* threads inside pthread_cond_wait
  board,          \* "off", "on", or inside deinit: "sleep", "awake"
  scan,           \* the slot deinit is at
  held,           \* subscriptions whose owner has not unsubscribed
  done            \* generations whose external unsubscribe returned

table == <<active, inFlight, waiters, generation, type>>
posts == <<depth, todo, frame, since>>
vars == <<initialized, nextGeneration, table, posts, wait, asleep, board, scan,
          held, done>>

Init ==
  /\ initialized = FALSE /\ nextGeneration = 0
  /\ active = [s \in Slots |-> FALSE]
  /\ inFlight = [s \in Slots |-> 0]
  /\ waiters = [s \in Slots |-> 0]
  /\ generation = [s \in Slots |-> 0]
  /\ type = [s \in Slots |-> NoType]
  /\ depth = [t \in Threads |-> 0]
  /\ todo = [p \in Places |-> {}]
  /\ frame = [p \in Places |-> NoSub]
  /\ since = [p \in Places |-> 0]
  /\ wait = [t \in Threads |-> NoSub]
  /\ asleep = {}
  /\ board = "off" /\ scan = 1
  /\ held = {} /\ done = {}

(* Thread t is in its own code: in no call of the provider, or in a handler.*)
InHandler(t) == depth[t] > 0
Running(t) ==
  /\ wait[t] = NoSub
  /\ InHandler(t) => frame[<<t, depth[t]>>] # NoSub
Top(t) == <<t, depth[t]>>

(* Mutant: only the innermost call of the thread is looked at.              *)
MutantInnermost(t, s) == depth[t] > 0 /\ frame[Top(t)].slot = s

(* h2_posix_system_event_is_self: some frame of the thread calls slot s.    *)
IsSelf(t, s) == \E d \in 1 .. depth[t] : frame[<<t, d>>].slot = s

(* Mutant: the memset does not look at the waiters.                         *)
MutantReclaimWaiters(s, act, inf, wai) ==
  LET unused == ~act /\ inf = 0
  IN  /\ active' = [active EXCEPT ![s] = act]
      /\ inFlight' = [inFlight EXCEPT ![s] = inf]
      /\ waiters' = [waiters EXCEPT ![s] = IF unused THEN 0 ELSE wai]
      /\ generation' = [generation EXCEPT ![s] = IF unused THEN 0 ELSE @]
      /\ type' = [type EXCEPT ![s] = IF unused THEN NoType ELSE @]

(* The fields of slot s become act, inf and wai, and                        *)
(* h2_posix_system_event_reclaim clears the slot if that leaves it unused.  *)
Reclaim(s, act, inf, wai) ==
  LET unused == ~act /\ inf = 0 /\ wai = 0
  IN  /\ active' = [active EXCEPT ![s] = act]
      /\ inFlight' = [inFlight EXCEPT ![s] = inf]
      /\ waiters' = [waiters EXCEPT ![s] = wai]
      /\ generation' = [generation EXCEPT ![s] = IF unused THEN 0 ELSE @]
      /\ type' = [type EXCEPT ![s] = IF unused THEN NoType ELSE @]

(* pthread_cond_broadcast(&s_idle).                                         *)
Broadcast ==
  /\ asleep' = {}
  /\ board' = IF board = "sleep" THEN "awake" ELSE board

------------------------------------------------------------------------------
PalInit ==
  /\ board \in {"off", "on"}
  /\ initialized' = TRUE /\ board' = "on"
  /\ UNCHANGED <<nextGeneration, table, posts, wait, asleep, scan, held, done>>

Busy(s) == inFlight[s] # 0 \/ waiters[s] # 0

(* The loop of deinit from slot i on: it waits at the first busy slot...    *)
ScanWaits(i) ==
  /\ \E s \in i .. SlotCount :
       /\ Busy(s) /\ \A r \in i .. s - 1 : ~Busy(r)
       /\ scan' = s
  /\ board' = "sleep"
  /\ UNCHANGED <<nextGeneration, table, posts, wait, asleep, held, done>>

(* ... or clears the table; owners that are still subscribed lose their     *)
(* handle.                                                                  *)
ScanClears(i) ==
  /\ \A s \in i .. SlotCount : ~Busy(s)
  /\ board' = "off"
  /\ active' = [s \in Slots |-> FALSE]
  /\ inFlight' = [s \in Slots |-> 0]
  /\ waiters' = [s \in Slots |-> 0]
  /\ generation' = [s \in Slots |-> 0]
  /\ type' = [s \in Slots |-> NoType]
  /\ held' = {} /\ scan' = 1
  /\ UNCHANGED <<nextGeneration, posts, wait, asleep, done>>

Deinit ==
  /\ board = "on"
  /\ initialized' = FALSE
  /\ ScanWaits(1) \/ ScanClears(1)

DeinitResume ==
  /\ board = "awake"
  /\ UNCHANGED initialized
  /\ ScanWaits(scan) \/ ScanClears(scan)

------------------------------------------------------------------------------
(* h2_posix_system_event_post: the snapshot.                                *)
Post(t, y) ==
  /\ Running(t) /\ depth[t] < MaxDepth
  /\ initialized
  /\ LET p == <<t, depth[t] + 1>>
     IN  /\ todo' = [todo EXCEPT ![p] =
              {h \in Handles : /\ active[h.slot] /\ type[h.slot] = y
                               /\ generation[h.slot] = h.gen}]
         /\ since' = [since EXCEPT ![p] = nextGeneration]
  /\ depth' = [depth EXCEPT ![t] = @ + 1]
  /\ UNCHANGED <<initialized, nextGeneration, table, frame, wait, asleep, board,
                 scan, held, done>>

(* The next entry of the snapshot of the post at place p.                   *)
IsNext(p, h) == h \in todo[p] /\ \A g \in todo[p] : h.slot <= g.slot
Posting(t) == depth[t] > 0 /\ frame[Top(t)] = NoSub

(* Mutant: a subscription that was stopped is still admitted.               *)
MutantAdmitStopped(t, h) ==
  /\ Posting(t) /\ IsNext(Top(t), h)
  /\ initialized /\ generation[h.slot] = h.gen
  /\ inFlight' = [inFlight EXCEPT ![h.slot] = @ + 1]
  /\ frame' = [frame EXCEPT ![Top(t)] = h]
  /\ todo' = [todo EXCEPT ![Top(t)] = @ \ {h}]
  /\ UNCHANGED <<initialized, nextGeneration, active, waiters, generation, type,
                 depth, since, wait, asleep, board, scan, held, done>>

(* Mutant: the slot is admitted, whoever owns it now.                       *)
MutantAdmitOwner(t, h) ==
  /\ Posting(t) /\ IsNext(Top(t), h)
  /\ initialized /\ active[h.slot]
  /\ inFlight' = [inFlight EXCEPT ![h.slot] = @ + 1]
  /\ frame' = [frame EXCEPT ![Top(t)].slot = h.slot,
                            ![Top(t)].gen = generation[h.slot]]
  /\ todo' = [todo EXCEPT ![Top(t)] = @ \ {h}]
  /\ UNCHANGED <<initialized, nextGeneration, active, waiters, generation, type,
                 depth, since, wait, asleep, board, scan, held, done>>

(* "Admit immediately before invocation."                                   *)
Admit(t, h) ==
  /\ Posting(t) /\ IsNext(Top(t), h)
  /\ initialized /\ active[h.slot] /\ generation[h.slot] = h.gen
  /\ inFlight' = [inFlight EXCEPT ![h.slot] = @ + 1]
  /\ frame' = [frame EXCEPT ![Top(t)] = h]
  /\ todo' = [todo EXCEPT ![Top(t)] = @ \ {h}]
  /\ UNCHANGED <<initialized, nextGeneration, active, waiters, generation, type,
                 depth, since, wait, asleep, board, scan, held, done>>

Skip(t, h) ==
  /\ Posting(t) /\ IsNext(Top(t), h)
  /\ ~(initialized /\ active[h.slot] /\ generation[h.slot] = h.gen)
  /\ todo' = [todo EXCEPT ![Top(t)] = @ \ {h}]
  /\ UNCHANGED <<initialized, nextGeneration, table, depth, frame, since, wait,
                 asleep, board, scan, held, done>>

(* Mutant: the end of a call is not broadcast.                              *)
MutantSilentReturn(t) ==
  /\ Running(t) /\ depth[t] > 0
  /\ LET s == frame[Top(t)].slot
     IN  Reclaim(s, active[s], inFlight[s] - 1, waiters[s])
  /\ frame' = [frame EXCEPT ![Top(t)] = NoSub]
  /\ UNCHANGED <<initialized, nextGeneration, depth, todo, since, wait, asleep,
                 board, scan, held, done>>

(* The handler returns.                                                     *)
HandlerReturns(t) ==
  /\ Running(t) /\ depth[t] > 0
  /\ LET s == frame[Top(t)].slot
     IN  Reclaim(s, active[s], inFlight[s] - 1, waiters[s])
  /\ Broadcast
  /\ frame' = [frame EXCEPT ![Top(t)] = NoSub]
  /\ UNCHANGED <<initialized, nextGeneration, depth, todo, since, wait, scan,
                 held, done>>

PostReturns(t) ==
  /\ Posting(t) /\ todo[Top(t)] = {}
  /\ depth' = [depth EXCEPT ![t] = @ - 1]
  /\ since' = [since EXCEPT ![Top(t)] = 0]
  /\ UNCHANGED <<initialized, nextGeneration, table, todo, frame, wait, asleep,
                 board, scan, held, done>>

------------------------------------------------------------------------------
(* Mutant: a slot whose unsubscribe still waits is taken.                   *)
MutantFreeEarly(s) == ~active[s] /\ inFlight[s] = 0

(* h2_posix_system_event_subscribe takes the first free slot.               *)
Free(s) == ~active[s] /\ inFlight[s] = 0 /\ waiters[s] = 0

Subscribe(t, y) ==
  /\ Running(t) /\ initialized /\ nextGeneration < MaxSubs
  /\ \E s \in Slots :
       /\ Free(s) /\ \A r \in 1 .. s - 1 : ~Free(r)
       /\ active' = [active EXCEPT ![s] = TRUE]
       /\ generation' = [generation EXCEPT ![s] = nextGeneration + 1]
       /\ type' = [type EXCEPT ![s] = y]
       /\ held' = held \cup {[slot |-> s, gen |-> nextGeneration + 1]}
  /\ nextGeneration' = nextGeneration + 1
  /\ UNCHANGED <<initialized, inFlight, waiters, posts, wait, asleep, board,
                 scan, done>>

(* h2_posix_system_event_unsubscribe; a handle is used once.                *)
MayUnsubscribe(t, h) == Running(t) /\ h \in held

UnsubscribeSelf(t, h) ==
  /\ MayUnsubscribe(t, h) /\ IsSelf(t, h.slot)
  /\ active' = [active EXCEPT ![h.slot] = FALSE]
  /\ held' = held \ {h}
  /\ UNCHANGED <<initialized, nextGeneration, inFlight, waiters, generation,
                 type, posts, wait, asleep, board, scan, done>>

(* An external unsubscribe without calls in flight runs through.            *)
UnsubscribeIdle(t, h) ==
  /\ MayUnsubscribe(t, h) /\ ~IsSelf(t, h.slot)
  /\ inFlight[h.slot] = 0
  /\ Reclaim(h.slot, FALSE, 0, waiters[h.slot])
  /\ Broadcast
  /\ held' = held \ {h}
  /\ done' = done \cup {h.gen}
  /\ UNCHANGED <<initialized, nextGeneration, posts, wait, scan>>

UnsubscribeWait(t, h) ==
  /\ MayUnsubscribe(t, h) /\ ~IsSelf(t, h.slot)
  /\ inFlight[h.slot] # 0
  /\ active' = [active EXCEPT ![h.slot] = FALSE]
  /\ waiters' = [waiters EXCEPT ![h.slot] = @ + 1]
  /\ wait' = [wait EXCEPT ![t] = h]
  /\ asleep' = asleep \cup {t}
  /\ held' = held \ {h}
  /\ UNCHANGED <<initialized, nextGeneration, inFlight, generation, type, posts,
                 board, scan, done>>

WaitAgain(t) ==
  /\ wait[t] # NoSub /\ t \notin asleep
  /\ inFlight[wait[t].slot] # 0
  /\ asleep' = asleep \cup {t}
  /\ UNCHANGED <<initialized, nextGeneration, table, posts, wait, board, scan,
                 held, done>>

(* Mutant: the end of the wait is not broadcast.                            *)
MutantSilentWaiter(t) ==
  /\ wait[t] # NoSub /\ t \notin asleep
  /\ LET s == wait[t].slot
     IN  inFlight[s] = 0 /\ Reclaim(s, active[s], 0, waiters[s] - 1)
  /\ wait' = [wait EXCEPT ![t] = NoSub]
  /\ done' = done \cup {wait[t].gen}
  /\ UNCHANGED <<initialized, nextGeneration, posts, asleep, board, scan, held>>

UnsubscribeReturns(t) ==
  /\ wait[t] # NoSub /\ t \notin asleep
  /\ LET s == wait[t].slot
     IN  inFlight[s] = 0 /\ Reclaim(s, active[s], 0, waiters[s] - 1)
  /\ Broadcast
  /\ wait' = [wait EXCEPT ![t] = NoSub]
  /\ done' = done \cup {wait[t].gen}
  /\ UNCHANGED <<initialized, nextGeneration, posts, scan, held>>

(* A condition wait may also end without a broadcast.                       *)
Spurious ==
  /\ \/ \E t \in asleep : asleep' = asleep \ {t} /\ UNCHANGED board
     \/ board = "sleep" /\ board' = "awake" /\ UNCHANGED asleep
  /\ UNCHANGED <<initialized, nextGeneration, table, posts, wait, scan, held,
                 done>>
------------------------------------------------------------------------------
Call(t) ==
  \/ \E h \in Handles : Admit(t, h) \/ Skip(t, h)
  \/ HandlerReturns(t) \/ PostReturns(t)

Unsubscribe(t, h) ==
  UnsubscribeSelf(t, h) \/ UnsubscribeIdle(t, h) \/ UnsubscribeWait(t, h)

Waiter(t) == WaitAgain(t) \/ UnsubscribeReturns(t)

Next ==
  \/ PalInit \/ Deinit \/ DeinitResume \/ Spurious
  \/ \E t \in Threads :
       \/ Call(t) \/ Waiter(t)
       \/ \E y \in Types : Post(t, y) \/ Subscribe(t, y)
       \/ \E h \in Handles : Unsubscribe(t, h)

Spec == Init /\ [][Next]_vars

(* Threads are scheduled, and every call of a handler ends, however often   *)
(* it posts before.                                                         *)
FairSpec ==
  /\ Spec
  /\ WF_vars(DeinitResume)
  /\ \A t \in Threads :
       /\ WF_vars(\E h \in Handles : Admit(t, h) \/ Skip(t, h))
       /\ WF_vars(PostReturns(t))
       /\ WF_vars(Waiter(t))
       /\ \A d \in Depths : SF_vars(depth[t] = d /\ HandlerReturns(t))

------------------------------------------------------------------------------
(* Type invariant.                                                          *)
TypeOK ==
  /\ initialized \in BOOLEAN /\ nextGeneration \in 0 .. MaxSubs
  /\ active \in [Slots -> BOOLEAN]
  /\ inFlight \in [Slots -> Nat] /\ waiters \in [Slots -> Nat]
  /\ generation \in [Slots -> 0 .. MaxSubs]
  /\ type \in [Slots -> Types \cup {NoType}]
  /\ depth \in [Threads -> 0 .. MaxDepth]
  /\ todo \in [Places -> SUBSET Handles]
  /\ frame \in [Places -> Handles \cup {NoSub}]
  /\ since \in [Places -> 0 .. MaxSubs]
  /\ wait \in [Threads -> Handles \cup {NoSub}]
  /\ asleep \subseteq Threads
  /\ board \in {"off", "on", "sleep", "awake"} /\ scan \in Nat
  /\ held \subseteq Handles /\ done \subseteq Gens

Calls(s) == {p \in Places : frame[p].slot = s}
Waiting(s) == {t \in Threads : wait[t].slot = s}

(* in_flight and unsubscribe_waiters count the calls and the waiting        *)
(* unsubscribes of a slot, through nested posts, self-unsubscribe and the   *)
(* memsets of reclaim and deinit: no decrement finds a zero.                *)
Counted ==
  \A s \in Slots : /\ inFlight[s] = Cardinality(Calls(s))
                   /\ waiters[s] = Cardinality(Waiting(s))

(* "External waiters still own their slot until they wake and finish": the  *)
(* slot of an owner, of a running call and of a waiting unsubscribe is not  *)
(* given to another subscription, and an owner who has not unsubscribed is  *)
(* still subscribed.                                                        *)
SlotOwned ==
  /\ \A h \in held : active[h.slot] /\ generation[h.slot] = h.gen
  /\ \A p \in Places : frame[p] # NoSub =>
       generation[frame[p].slot] = frame[p].gen
  /\ \A t \in Threads : wait[t] # NoSub =>
       ~active[wait[t].slot] /\ generation[wait[t].slot] = wait[t].gen

(* "Slot reuse cannot admit a new owner to a post made before it            *)
(* subscribed."                                                             *)
NoEarlierPost == \A p \in Places : frame[p].gen <= since[p]

(* "without waiting for work that cannot start until it returns": an        *)
(* unsubscribe waits for calls on other threads only.                       *)
WaitsForOthers ==
  \A t \in Threads :
    wait[t] # NoSub => \A d \in Depths : frame[<<t, d>>].slot # wait[t].slot

(* The provider implements the contract of h2_pal_system_event.h.           *)
Contract == INSTANCE SystemEventContract WITH
  Callers <- Places,
  made <- nextGeneration,
  live <- {h.gen : h \in held},
  call <- [p \in Places |-> frame[p].gen]

ContractSpec == Contract!CSpec

(* No call of a subscription runs, or can start, after its external         *)
(* unsubscribe returned.                                                    *)
NoCallAfterUnsubscribe == Contract!NoCallAfterDone

(* Handlers that unsubscribe another subscription do not find it in a call: *)
(* two that wait for each other would wait forever.                         *)
NoHandlerWaits == \A t \in Threads : wait[t] # NoSub => depth[t] = 0

(* An external unsubscribe returns: every call in flight ends, none is      *)
(* admitted any more, and the end of the last one is not missed.            *)
UnsubscribeTerminates ==
  []NoHandlerWaits =>
    \A t \in Threads : wait[t] # NoSub ~> wait[t] = NoSub

(* deinit returns.                                                          *)
DeinitTerminates ==
  []NoHandlerWaits => (board \in {"sleep", "awake"} ~> board = "off")
=============================================================================
