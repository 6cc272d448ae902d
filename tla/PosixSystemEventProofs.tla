------------------------ MODULE PosixSystemEventProofs ------------------------
(***************************************************************************)
(* The POSIX System Event provider for any finite set of threads, any      *)
(* number of slots, any nesting of posts and any number of subscriptions,  *)
(* and whatever handlers unsubscribe: the inductive invariant, what its    *)
(* conjuncts give the steps, the proof that every step preserves it, and   *)
(* what follows from it.                                                   *)
(***************************************************************************)
EXTENDS PosixSystemEvent, FiniteSetTheorems, TLAPS

(* A post that has returned calls nothing.                                  *)
FramesNested ==
  \A t \in Threads, d \in Depths : d > depth[t] => frame[<<t, d>>] = NoSub

(* An active slot has its owner; generations are given out once.            *)
Owners ==
  /\ SlotOwned
  /\ \A s \in Slots : active[s] => \E h \in held : h.slot = s
  /\ \A s \in Slots : generation[s] <= nextGeneration
  /\ \A r, s \in Slots :
       generation[r] = generation[s] /\ generation[r] # 0 => r = s

(* deinit has stopped admission, and nothing is left in the slots behind it.*)
DeinitPassed ==
  board \in {"sleep", "awake"} =>
    /\ ~initialized
    /\ \A s \in Slots : s < scan => inFlight[s] = 0 /\ waiters[s] = 0

(* A snapshot holds subscriptions made before the post.                     *)
Snapshots ==
  /\ NoEarlierPost
  /\ \A p \in Places : \A h \in todo[p] : h.gen <= since[p]
  /\ \A p \in Places : since[p] <= nextGeneration

(* A finished subscription was made, is not held and is not called.         *)
Finished ==
  /\ \A g \in done : g <= nextGeneration
  /\ \A h \in held : h.gen \notin done
  /\ \A p \in Places : frame[p].gen \notin done

IInv ==
  /\ TypeOK /\ Counted /\ FramesNested /\ Owners /\ DeinitPassed /\ Snapshots
  /\ Finished /\ WaitsForOthers

------------------------------------------------------------------------------
(* The calls, and the waiting unsubscribes, of a slot are finite sets.      *)
LEMMA CallsFinite ==
  ASSUME NEW s
  PROVE  /\ IsFiniteSet(Calls(s)) /\ Cardinality(Calls(s)) \in Nat
         /\ IsFiniteSet(Waiting(s)) /\ Cardinality(Waiting(s)) \in Nat
<1>1. IsFiniteSet(Depths)
  BY DepthAssumption, FS_Interval DEF Depths
<1>2. IsFiniteSet(Places)
  BY <1>1, ThreadsAssumption, FS_Product, Zenon DEF Places
<1>3. Calls(s) \in SUBSET Places /\ Waiting(s) \in SUBSET Threads
  BY Zenon DEF Calls, Waiting
<1>4. IsFiniteSet(Calls(s)) /\ IsFiniteSet(Waiting(s))
  BY <1>2, <1>3, ThreadsAssumption, FS_Subset, Zenon
<1> QED
  BY <1>4, FS_CardinalityType, Zenon

(* A call in flight is counted, so is a waiting unsubscribe.                *)
LEMMA CountedNonzero ==
  ASSUME Counted, NEW s \in Slots
  PROVE  /\ inFlight[s] = 0 => \A p \in Places : frame[p].slot # s
         /\ waiters[s] = 0 => \A t \in Threads : wait[t].slot # s
         /\ inFlight[s] \in Nat /\ waiters[s] \in Nat
<1>1. /\ inFlight[s] = Cardinality(Calls(s))
      /\ waiters[s] = Cardinality(Waiting(s))
  BY Zenon DEF Counted
<1>2. inFlight[s] = 0 => Calls(s) = {}
  BY <1>1, CallsFinite, FS_EmptySet, Zenon
<1>3. waiters[s] = 0 => Waiting(s) = {}
  BY <1>1, CallsFinite, FS_EmptySet, Zenon
<1> QED
  BY <1>1, <1>2, <1>3, CallsFinite, Zenon DEF Calls, Waiting

(* The count after a place starts a call.                                   *)
LEMMA CallStarts ==
  ASSUME NEW p \in Places, NEW h \in Handles,
         frame \in [Places -> Handles \cup {NoSub}],
         frame[p] = NoSub, frame' = [frame EXCEPT ![p] = h], NEW s \in Slots
  PROVE  Cardinality(Calls(s)') =
           IF s = h.slot THEN Cardinality(Calls(s)) + 1 ELSE Cardinality(Calls(s))
<1>0. 0 \notin Slots /\ h.slot \in Slots
  BY SlotAssumption DEF Slots, Handles
<1>1. p \notin Calls(s)
  BY <1>0 DEF Calls, NoSub
<1>2. CASE s = h.slot
  <2>1. Calls(s)' = Calls(s) \cup {p}
    BY <1>2, Zenon DEF Calls
  <2> QED
    BY <1>1, <1>2, <2>1, CallsFinite, FS_AddElement, Zenon
<1>3. CASE s # h.slot
  <2>1. Calls(s)' = Calls(s)
    BY <1>1, <1>3, Zenon DEF Calls
  <2> QED
    BY <1>3, <2>1, Zenon
<1> QED
  BY <1>2, <1>3, Zenon

(* The count after a place ends a call.                                     *)
LEMMA CallEnds ==
  ASSUME NEW p \in Places, frame \in [Places -> Handles \cup {NoSub}],
         frame[p] # NoSub, frame' = [frame EXCEPT ![p] = NoSub], NEW s \in Slots
  PROVE  Cardinality(Calls(s)') =
           IF s = frame[p].slot THEN Cardinality(Calls(s)) - 1
           ELSE Cardinality(Calls(s))
<1>0. 0 \notin Slots
  BY SlotAssumption DEF Slots
<1>2. CASE s = frame[p].slot
  <2>1. Calls(s)' = Calls(s) \ {p} /\ p \in Calls(s)
    BY <1>0, <1>2, Zenon DEF Calls, NoSub
  <2>2. IsFiniteSet(Calls(s))
    BY CallsFinite, Zenon
  <2>3. Cardinality(Calls(s) \ {p}) = Cardinality(Calls(s)) - 1
    BY <2>1, <2>2, FS_RemoveElement, Zenon
  <2> QED
    BY <1>2, <2>1, <2>3, Zenon
<1>3. CASE s # frame[p].slot
  <2>1. Calls(s)' = Calls(s)
    BY <1>0, <1>3, Zenon DEF Calls, NoSub
  <2> QED
    BY <1>3, <2>1, Zenon
<1> QED
  BY <1>2, <1>3, Zenon

(* The count after a thread starts waiting.                                 *)
LEMMA WaitStarts ==
  ASSUME NEW t \in Threads, NEW h \in Handles,
         wait \in [Threads -> Handles \cup {NoSub}],
         wait[t] = NoSub, wait' = [wait EXCEPT ![t] = h], NEW s \in Slots
  PROVE  Cardinality(Waiting(s)') =
           IF s = h.slot THEN Cardinality(Waiting(s)) + 1
           ELSE Cardinality(Waiting(s))
<1>0. 0 \notin Slots /\ h.slot \in Slots
  BY SlotAssumption DEF Slots, Handles
<1>1. t \notin Waiting(s)
  BY <1>0 DEF Waiting, NoSub
<1>2. CASE s = h.slot
  <2>1. Waiting(s)' = Waiting(s) \cup {t}
    BY <1>2, Zenon DEF Waiting
  <2> QED
    BY <1>1, <1>2, <2>1, CallsFinite, FS_AddElement, Zenon
<1>3. CASE s # h.slot
  <2>1. Waiting(s)' = Waiting(s)
    BY <1>1, <1>3, Zenon DEF Waiting
  <2> QED
    BY <1>3, <2>1, Zenon
<1> QED
  BY <1>2, <1>3, Zenon

(* The count after a thread ends waiting.                                   *)
LEMMA WaitEnds ==
  ASSUME NEW t \in Threads, wait \in [Threads -> Handles \cup {NoSub}],
         wait[t] # NoSub, wait' = [wait EXCEPT ![t] = NoSub], NEW s \in Slots
  PROVE  Cardinality(Waiting(s)') =
           IF s = wait[t].slot THEN Cardinality(Waiting(s)) - 1
           ELSE Cardinality(Waiting(s))
<1>0. 0 \notin Slots
  BY SlotAssumption DEF Slots
<1>2. CASE s = wait[t].slot
  <2>1. Waiting(s)' = Waiting(s) \ {t} /\ t \in Waiting(s)
    BY <1>0, <1>2, Zenon DEF Waiting, NoSub
  <2>2. IsFiniteSet(Waiting(s))
    BY CallsFinite, Zenon
  <2>3. Cardinality(Waiting(s) \ {t}) = Cardinality(Waiting(s)) - 1
    BY <2>1, <2>2, FS_RemoveElement, Zenon
  <2> QED
    BY <1>2, <2>1, <2>3, Zenon
<1>3. CASE s # wait[t].slot
  <2>1. Waiting(s)' = Waiting(s)
    BY <1>0, <1>3, Zenon DEF Waiting, NoSub
  <2> QED
    BY <1>3, <2>1, Zenon
<1> QED
  BY <1>2, <1>3, Zenon

------------------------------------------------------------------------------
(* The initial state satisfies the invariant.                               *)
LEMMA InitInv == Init => IInv
<1> SUFFICES ASSUME Init PROVE IInv
  BY Zenon
<1>1. 0 \in 0 .. MaxSubs /\ 0 \in 0 .. MaxDepth /\ 0 \notin Slots
  BY SubsAssumption, DepthAssumption, SlotAssumption DEF Slots
<1>2. TypeOK
  BY <1>1, Zenon DEF Init, TypeOK
<1>3. Counted
  <2> SUFFICES ASSUME NEW s \in Slots
               PROVE  /\ inFlight[s] = Cardinality(Calls(s))
                      /\ waiters[s] = Cardinality(Waiting(s))
    BY Zenon DEF Counted
  <2>1. Calls(s) = {} /\ Waiting(s) = {}
    BY <1>1, Zenon DEF Init, Calls, Waiting, NoSub
  <2> QED
    BY <2>1, FS_EmptySet, Zenon DEF Init
<1>4. FramesNested /\ DeinitPassed /\ WaitsForOthers
  BY Zenon DEF Init, FramesNested, DeinitPassed, WaitsForOthers, Places
<1>5. Owners
  BY DEF Init, Owners, SlotOwned
<1>6. Snapshots /\ Finished
  BY DEF Init, Snapshots, NoEarlierPost, Finished, NoSub
<1> QED
  BY <1>2, <1>3, <1>4, <1>5, <1>6, Zenon DEF IInv

(* The parts of the invariant, and the types the steps below need.          *)
LEMMA Facts ==
  ASSUME IInv
  PROVE  /\ TypeOK /\ Counted /\ FramesNested /\ Owners /\ DeinitPassed
         /\ Snapshots /\ Finished /\ WaitsForOthers
         /\ \A p \in Places : frame[p] \in Handles \cup {NoSub}
         /\ \A t \in Threads : wait[t] \in Handles \cup {NoSub}
         /\ \A h \in Handles : h.slot \in Slots /\ h.gen \in Gens
         /\ NoSub.slot = 0 /\ NoSub.gen = 0 /\ 0 \notin Slots /\ 0 \notin Gens
         /\ \A t \in Threads, d \in Depths : <<t, d>> \in Places
         /\ \A t \in Threads : depth[t] > 0 => depth[t] \in Depths
<1>1. \A t \in Threads : depth[t] > 0 => depth[t] \in Depths
  BY DepthAssumption DEF IInv, TypeOK, Depths
<1>2. 0 \notin Slots /\ 0 \notin Gens
  BY SlotAssumption, SubsAssumption DEF Slots, Gens
<1>3. /\ \A p \in Places : frame[p] \in Handles \cup {NoSub}
      /\ \A t \in Threads : wait[t] \in Handles \cup {NoSub}
  BY Zenon DEF IInv, TypeOK
<1> QED
  BY <1>1, <1>2, <1>3, Zenon DEF IInv, Handles, NoSub, Places

(* What Owners says of the owners, the calls, the waiting unsubscribes and  *)
(* the slots, with the types it needs.                                      *)
LEMMA HeldFacts ==
  ASSUME IInv
  PROVE  \A h \in held : /\ h \in Handles /\ h.slot \in Slots /\ active[h.slot]
                         /\ generation[h.slot] = h.gen
<1>1. \A h \in held : h \in Handles /\ h.slot \in Slots
  BY Zenon DEF IInv, TypeOK, Handles
<1> QED
  BY <1>1, Zenon DEF IInv, Owners, SlotOwned

LEMMA FrameFacts ==
  ASSUME IInv
  PROVE  \A p \in Places : frame[p] # NoSub =>
           /\ frame[p].slot \in Slots
           /\ generation[frame[p].slot] = frame[p].gen
<1>1. \A p \in Places : frame[p] # NoSub => frame[p].slot \in Slots
  BY Zenon DEF IInv, TypeOK, Handles
<1> QED
  BY <1>1, Zenon DEF IInv, Owners, SlotOwned

LEMMA WaitFacts ==
  ASSUME IInv
  PROVE  \A t \in Threads : wait[t] # NoSub =>
           /\ wait[t].slot \in Slots /\ ~active[wait[t].slot]
           /\ generation[wait[t].slot] = wait[t].gen
<1>1. \A t \in Threads : wait[t] # NoSub => wait[t].slot \in Slots
  BY Zenon DEF IInv, TypeOK, Handles
<1> QED
  BY <1>1, Zenon DEF IInv, Owners, SlotOwned

LEMMA SlotFacts ==
  ASSUME IInv
  PROVE  /\ \A s \in Slots : active[s] => \E h \in held : h.slot = s
         /\ nextGeneration \in Nat
         /\ \A s \in Slots : generation[s] \in Nat /\ generation[s] <= nextGeneration
         /\ \A r, s \in Slots :
              generation[r] = generation[s] /\ generation[r] # 0 => r = s
<1>1. nextGeneration \in Nat /\ \A s \in Slots : generation[s] \in Nat
  BY SubsAssumption DEF IInv, TypeOK
<1> QED
  BY <1>1, Zenon DEF IInv, Owners

(* A step that changes one slot and subscribes nobody preserves Owners if   *)
(* it leaves the owner of an active slot alone and clears the generation    *)
(* only when the slot has no owner, no call and no waiter.                  *)
LEMMA OwnersOneSlot ==
  ASSUME IInv, NEW s \in Slots, nextGeneration' = nextGeneration,
         \A r \in Slots : r # s =>
           active'[r] = active[r] /\ generation'[r] = generation[r],
         active'[s] => active[s],
         generation'[s] = generation[s] \/ generation'[s] = 0,
         \A h \in held' : h \in held,
         \A h \in held : h.slot # s \/ active'[s] => h \in held',
         \A h \in held' : h.slot = s =>
           active'[s] /\ generation'[s] = generation[s],
         \A p \in Places : frame'[p] # NoSub => frame'[p] = frame[p],
         \A p \in Places : frame'[p].slot = s => generation'[s] = generation[s],
         \A t \in Threads : wait'[t] # NoSub =>
           \/ wait'[t] = wait[t]
           \/ wait'[t].slot = s /\ ~active'[s] /\ wait'[t].gen = generation[s],
         \A t \in Threads : wait'[t].slot = s => generation'[s] = generation[s]
  PROVE  Owners'
<1>1. \A h \in held' : active'[h.slot] /\ generation'[h.slot] = h.gen
  <2> SUFFICES ASSUME NEW h \in held'
               PROVE  active'[h.slot] /\ generation'[h.slot] = h.gen
    BY Zenon
  <2>1. /\ h.slot \in Slots /\ active[h.slot] /\ generation[h.slot] = h.gen
    BY HeldFacts, Zenon
  <2> QED
    BY <2>1, Zenon
<1>2. \A p \in Places : frame'[p] # NoSub =>
        generation'[frame'[p].slot] = frame'[p].gen
  <2> SUFFICES ASSUME NEW p \in Places, frame'[p] # NoSub
               PROVE  generation'[frame'[p].slot] = frame'[p].gen
    BY Zenon
  <2>1. /\ frame'[p] = frame[p] /\ frame[p].slot \in Slots
        /\ generation[frame[p].slot] = frame[p].gen
    BY FrameFacts, Zenon
  <2> QED
    BY <2>1
<1>3. \A t \in Threads : wait'[t] # NoSub =>
        ~active'[wait'[t].slot] /\ generation'[wait'[t].slot] = wait'[t].gen
  <2> SUFFICES ASSUME NEW t \in Threads, wait'[t] # NoSub
               PROVE  /\ ~active'[wait'[t].slot]
                      /\ generation'[wait'[t].slot] = wait'[t].gen
    BY Zenon
  <2>1. CASE wait'[t] = wait[t]
    <3>1. /\ wait[t].slot \in Slots /\ ~active[wait[t].slot]
          /\ generation[wait[t].slot] = wait[t].gen
      BY <2>1, WaitFacts, Zenon
    <3> QED
      BY <2>1, <3>1
  <2>2. CASE wait'[t].slot = s /\ ~active'[s] /\ wait'[t].gen = generation[s]
    BY <2>2, Zenon
  <2> QED
    BY <2>1, <2>2, Zenon
<1>4. \A r \in Slots : active'[r] => \E h \in held' : h.slot = r
  <2> SUFFICES ASSUME NEW r \in Slots, active'[r]
               PROVE  \E h \in held' : h.slot = r
    BY Zenon
  <2>1. PICK h \in held : h.slot = r
    BY SlotFacts, Zenon
  <2> QED
    BY <2>1, Zenon
<1>5. \A r \in Slots : generation'[r] <= nextGeneration'
  BY SlotFacts
<1>6. \A q, r \in Slots :
        generation'[q] = generation'[r] /\ generation'[q] # 0 => q = r
  <2> SUFFICES ASSUME NEW q \in Slots, NEW r \in Slots,
                      generation'[q] = generation'[r], generation'[q] # 0
               PROVE  q = r
    BY Zenon
  <2>1. generation'[q] = generation[q] /\ generation'[r] = generation[r]
    BY Zenon
  <2>2. generation[q] = generation[r] /\ generation[q] # 0 => q = r
    BY SlotFacts, Zenon
  <2> QED
    BY <2>1, <2>2, Zenon
<1> QED
  BY <1>1, <1>2, <1>3, <1>4, <1>5, <1>6, Zenon DEF Owners, SlotOwned

(* The fields of the table after Reclaim.                                   *)
LEMMA ReclaimFields ==
  ASSUME TypeOK, NEW s \in Slots, NEW act \in BOOLEAN, NEW inf \in Nat,
         NEW wai \in Nat, Reclaim(s, act, inf, wai)
  PROVE  /\ active' \in [Slots -> BOOLEAN] /\ inFlight' \in [Slots -> Nat]
         /\ waiters' \in [Slots -> Nat]
         /\ generation' \in [Slots -> 0 .. MaxSubs]
         /\ type' \in [Slots -> Types \cup {NoType}]
         /\ active'[s] = act /\ inFlight'[s] = inf /\ waiters'[s] = wai
         /\ \/ generation'[s] = generation[s]
            \/ ~act /\ inf = 0 /\ wai = 0 /\ generation'[s] = 0
         /\ \A r \in Slots : r # s =>
              /\ active'[r] = active[r] /\ inFlight'[r] = inFlight[r]
              /\ waiters'[r] = waiters[r] /\ generation'[r] = generation[r]
<1> DEFINE unused == ~act /\ inf = 0 /\ wai = 0
<1>1. /\ active \in [Slots -> BOOLEAN] /\ inFlight \in [Slots -> Nat]
      /\ waiters \in [Slots -> Nat] /\ generation \in [Slots -> 0 .. MaxSubs]
      /\ type \in [Slots -> Types \cup {NoType}]
  BY Zenon DEF TypeOK
<1>2. /\ active' = [active EXCEPT ![s] = act]
      /\ inFlight' = [inFlight EXCEPT ![s] = inf]
      /\ waiters' = [waiters EXCEPT ![s] = wai]
      /\ generation' = [generation EXCEPT ![s] = IF unused THEN 0 ELSE @]
      /\ type' = [type EXCEPT ![s] = IF unused THEN NoType ELSE @]
  BY Zenon DEF Reclaim
<1>3. 0 \in 0 .. MaxSubs
  BY SubsAssumption
<1>4. /\ active' \in [Slots -> BOOLEAN] /\ active'[s] = act
      /\ \A r \in Slots : r # s => active'[r] = active[r]
  BY <1>1, <1>2, Zenon
<1>5. /\ inFlight' \in [Slots -> Nat] /\ inFlight'[s] = inf
      /\ \A r \in Slots : r # s => inFlight'[r] = inFlight[r]
  BY <1>1, <1>2, Zenon
<1>6. /\ waiters' \in [Slots -> Nat] /\ waiters'[s] = wai
      /\ \A r \in Slots : r # s => waiters'[r] = waiters[r]
  BY <1>1, <1>2, Zenon
<1>7. type' \in [Slots -> Types \cup {NoType}]
  BY <1>1, <1>2, Zenon
<1>8. /\ generation' \in [Slots -> 0 .. MaxSubs]
      /\ generation'[s] = IF unused THEN 0 ELSE generation[s]
      /\ \A r \in Slots : r # s => generation'[r] = generation[r]
  <2> HIDE DEF unused
  <2> QED
    BY <1>1, <1>2, <1>3, Zenon
<1> QED
  BY <1>4, <1>5, <1>6, <1>7, <1>8, Zenon

(* A generation is of one slot: a call or a waiting unsubscribe of the same *)
(* generation as an owner is of the same slot.                              *)
LEMMA SameGeneration ==
  ASSUME IInv, NEW s \in Slots, generation[s] # 0
  PROVE  /\ \A h \in held : h.gen = generation[s] => h.slot = s
         /\ \A p \in Places : frame[p].gen = generation[s] => frame[p].slot = s
         /\ generation[s] \notin done \/
              \A h \in held : h.slot # s
<1> USE Facts
<1>1. \A h \in held : h \in Handles /\ h.slot \in Slots /\ generation[h.slot] = h.gen
  BY Zenon DEF Owners, SlotOwned, TypeOK
<1>2. \A p \in Places : frame[p].gen = generation[s] => frame[p] # NoSub
  BY Zenon
<1>3. \A p \in Places : frame[p].gen = generation[s] => frame[p].slot = s
  BY <1>2 DEF Owners, SlotOwned
<1>4. \A h \in held : h.gen = generation[s] => h.slot = s
  BY <1>1 DEF Owners
<1>5. \A h \in held : h.slot = s => h.gen = generation[s]
  BY <1>1, Zenon
<1> QED
  BY <1>3, <1>4, <1>5, Zenon DEF Finished

(* PalInit, Spurious and WaitAgain preserve the invariant.                  *)
LEMMA StepQuiet ==
  ASSUME IInv, \/ PalInit \/ Spurious \/ \E t \in Threads : WaitAgain(t)
  PROVE  IInv'
<1> USE Facts DEF table, posts
<1>1. TypeOK'
  BY Zenon DEF PalInit, Spurious, WaitAgain, TypeOK
<1>2. UNCHANGED <<nextGeneration, table, posts, wait, scan, held, done>>
  BY Zenon DEF PalInit, Spurious, WaitAgain
<1>3. DeinitPassed'
  BY DEF PalInit, Spurious, WaitAgain, DeinitPassed
<1>4. Counted'
  BY <1>2, Zenon DEF Counted, Calls, Waiting
<1>5. Owners'
  BY <1>2, Zenon DEF Owners, SlotOwned
<1>6. FramesNested' /\ Snapshots' /\ Finished' /\ WaitsForOthers'
  BY <1>2, Zenon DEF FramesNested, Snapshots, NoEarlierPost, Finished, WaitsForOthers
<1> QED
  BY <1>1, <1>3, <1>4, <1>5, <1>6, Zenon DEF IInv

(* deinit at slot i, with nothing left in the slots before it.              *)
LEMMA StepScan ==
  ASSUME IInv, NEW i \in Nat, initialized' = FALSE,
         \A s \in Slots : s < i => ~Busy(s),
         ScanWaits(i) \/ ScanClears(i)
  PROVE  IInv'
<1> USE Facts DEF table, posts
<1>0. /\ UNCHANGED <<nextGeneration, posts, wait, done>>
      /\ held' \subseteq held
  BY Zenon DEF ScanWaits, ScanClears
<1>1. CASE ScanWaits(i)
  <2>1. PICK s \in i .. SlotCount :
          Busy(s) /\ (\A r \in i .. s - 1 : ~Busy(r)) /\ scan' = s
    BY <1>1, Zenon DEF ScanWaits
  <2>2. s \in Nat /\ \A r \in Slots : r < s => ~Busy(r)
    BY <2>1, SlotAssumption DEF Slots
  <2>3. UNCHANGED <<table, asleep, held>> /\ board' = "sleep"
    BY <1>1, Zenon DEF ScanWaits
  <2>4. TypeOK'
    BY <1>0, <2>1, <2>2, <2>3, Zenon DEF TypeOK
  <2>5. Counted'
    BY <1>0, <2>3, Zenon DEF Counted, Calls, Waiting
  <2>8. Owners'
    BY <1>0, <2>3, Zenon DEF Owners, SlotOwned
  <2>6. DeinitPassed'
    BY <2>1, <2>2, <2>3, Zenon DEF DeinitPassed, Busy
  <2>7. FramesNested' /\ Snapshots' /\ Finished' /\ WaitsForOthers'
    BY <1>0, <2>3, Zenon DEF FramesNested, Snapshots, NoEarlierPost, Finished,
       WaitsForOthers
  <2> QED
    BY <2>4, <2>5, <2>6, <2>7, <2>8, Zenon DEF IInv
<1>2. CASE ScanClears(i)
  <2>1. \A s \in Slots : ~Busy(s)
    BY <1>2, SlotAssumption DEF ScanClears, Slots
  <2>2. \A p \in Places : frame[p] = NoSub
    BY <2>1, CountedNonzero, Zenon DEF Busy
  <2>3. \A t \in Threads : wait[t] = NoSub
    BY <2>1, CountedNonzero, Zenon DEF Busy
  <2>z. 0 \in 0 .. MaxSubs
    BY SubsAssumption
  <2>4. TypeOK'
    BY <1>0, <1>2, <2>z, Zenon DEF ScanClears, TypeOK
  <2>5. Counted'
    <3> SUFFICES ASSUME NEW s \in Slots
                 PROVE  /\ Cardinality(Calls(s)') = 0
                        /\ Cardinality(Waiting(s)') = 0
      BY <1>2, Zenon DEF ScanClears, Counted
    <3>1. Calls(s)' = {} /\ Waiting(s)' = {}
      BY <1>0, <2>2, <2>3, Zenon DEF Calls, Waiting
    <3> QED
      BY <3>1, FS_EmptySet, Zenon
  <2>6. Owners'
    <3>1. /\ \A s \in Slots : ~active'[s] /\ generation'[s] = 0
          /\ held' = {} /\ nextGeneration' = nextGeneration
      BY <1>2, Zenon DEF ScanClears
    <3>2. \A p \in Places : frame'[p] = NoSub
      BY <1>0, <2>2, Zenon
    <3>3. \A t \in Threads : wait'[t] = NoSub
      BY <1>0, <2>3, Zenon
    <3>4. nextGeneration \in Nat
      BY SubsAssumption DEF TypeOK
    <3> HIDE Facts
    <3> QED
      BY <3>1, <3>2, <3>3, <3>4 DEF Owners, SlotOwned
  <2>7. DeinitPassed'
    BY <1>2, Zenon DEF ScanClears, DeinitPassed
  <2>8. FramesNested' /\ Snapshots' /\ WaitsForOthers'
    BY <1>0, Zenon DEF FramesNested, Snapshots, NoEarlierPost, WaitsForOthers
  <2>9. Finished'
    BY <1>0, Zenon DEF Finished
  <2> QED
    BY <2>4, <2>5, <2>6, <2>7, <2>8, <2>9, Zenon DEF IInv
<1> QED
  BY <1>1, <1>2, Zenon

(* Deinit and DeinitResume preserve the invariant.                          *)
LEMMA StepDeinit ==
  ASSUME IInv, Deinit \/ DeinitResume
  PROVE  IInv'
<1>1. CASE Deinit
  <2>1. initialized' = FALSE /\ (ScanWaits(1) \/ ScanClears(1))
    BY <1>1, Zenon DEF Deinit
  <2>2. 1 \in Nat /\ \A s \in Slots : s < 1 => ~Busy(s)
    BY DEF Slots
  <2> QED
    BY <2>1, <2>2, StepScan, Zenon
<1>2. CASE DeinitResume
  <2>1. scan \in Nat /\ initialized' = FALSE /\ \A s \in Slots : s < scan => ~Busy(s)
    BY <1>2, Facts, Zenon DEF DeinitResume, DeinitPassed, TypeOK, Busy
  <2> QED
    BY <1>2, <2>1, StepScan, Zenon DEF DeinitResume
<1> QED
  BY <1>1, <1>2, Zenon

(* Post preserves the invariant.                                            *)
LEMMA StepPost ==
  ASSUME IInv, NEW t \in Threads, NEW y \in Types, Post(t, y)
  PROVE  IInv'
<1> USE Facts DEF table, posts
<1> DEFINE p == <<t, depth[t] + 1>>
           S == {h \in Handles : /\ active[h.slot] /\ type[h.slot] = y
                                 /\ generation[h.slot] = h.gen}
<1>1. /\ depth[t] \in Nat /\ depth[t] + 1 \in 0 .. MaxDepth /\ p \in Places
      /\ depth[t] + 1 \in Depths
  BY DepthAssumption DEF Post, TypeOK, Places, Depths
<1>2. S \in SUBSET Handles /\ \A h \in S : h.gen <= nextGeneration
  BY Zenon DEF Owners
<1>3. /\ todo' = [todo EXCEPT ![p] = S]
      /\ since' = [since EXCEPT ![p] = nextGeneration]
      /\ depth' = [depth EXCEPT ![t] = depth[t] + 1]
      /\ UNCHANGED <<initialized, nextGeneration, table, frame, wait, asleep,
                     board, scan, held, done>>
  BY Zenon DEF Post
<1>4. frame[p] = NoSub
  BY <1>1 DEF FramesNested
<1> HIDE DEF p, S
<1>5. TypeOK'
  BY <1>1, <1>2, <1>3, Zenon DEF TypeOK
<1>6. Counted'
  BY <1>3, Zenon DEF Counted, Calls, Waiting
<1>7. Owners'
  BY <1>3, Zenon DEF Owners, SlotOwned
<1>8. DeinitPassed' /\ Finished' /\ WaitsForOthers'
  BY <1>3, Zenon DEF DeinitPassed, Finished, WaitsForOthers
<1>9. FramesNested'
  <2> SUFFICES ASSUME NEW u \in Threads, NEW d \in Depths, d > depth'[u]
               PROVE  frame[<<u, d>>] = NoSub
    BY <1>3, Zenon DEF FramesNested
  <2>1. d > depth[u]
    BY <1>1, <1>3 DEF TypeOK, Depths
  <2> QED
    BY <2>1, Zenon DEF FramesNested
<1>10. Snapshots'
  <2> SUFFICES ASSUME NEW q \in Places
               PROVE  /\ frame[q].gen <= since'[q] /\ since'[q] <= nextGeneration
                      /\ \A h \in todo'[q] : h.gen <= since'[q]
    BY <1>3, Zenon DEF Snapshots, NoEarlierPost
  <2>1. CASE q = p
    <3>1. since'[q] = nextGeneration /\ todo'[q] = S /\ nextGeneration \in Nat
      BY <1>1, <1>3, <2>1, SubsAssumption DEF TypeOK
    <3> QED
      BY <1>2, <1>4, <2>1, <3>1
  <2>2. CASE q # p
    <3>1. since'[q] = since[q] /\ todo'[q] = todo[q]
      BY <1>3, <2>2, Zenon DEF TypeOK
    <3> QED
      BY <3>1, Zenon DEF Snapshots, NoEarlierPost
  <2> QED
    BY <2>1, <2>2, Zenon
<1> QED
  BY <1>5, <1>6, <1>7, <1>8, <1>9, <1>10, Zenon DEF IInv

(* Admit preserves the invariant: the slot is active, so nobody waits for   *)
(* it and its owner holds it.                                               *)
LEMMA StepAdmit ==
  ASSUME IInv, NEW t \in Threads, NEW h \in Handles, Admit(t, h)
  PROVE  IInv'
<1> USE Facts DEF table, posts
<1> DEFINE p == Top(t)
<1>1. p \in Places /\ frame[p] = NoSub /\ h \in todo[p] /\ depth[t] \in Depths
  BY Zenon DEF Admit, Posting, IsNext, Top, TypeOK
<1>2. /\ initialized /\ active[h.slot] /\ generation[h.slot] = h.gen
      /\ inFlight' = [inFlight EXCEPT ![h.slot] = inFlight[h.slot] + 1]
      /\ frame' = [frame EXCEPT ![p] = h]
      /\ todo' = [todo EXCEPT ![p] = todo[p] \ {h}]
      /\ UNCHANGED <<initialized, nextGeneration, active, waiters, generation,
                     type, depth, since, wait, asleep, board, scan, held, done>>
  BY Zenon DEF Admit
<1>3. \A u \in Threads, d \in Depths : <<u, d>> = p => d = depth[u]
  BY Zenon DEF Top
<1> HIDE DEF p
<1>4. \A q \in Places : frame'[q] = IF q = p THEN h ELSE frame[q]
  BY <1>2, Zenon DEF TypeOK
<1>5. TypeOK'
  <2>1. inFlight' \in [Slots -> Nat]
    BY <1>2 DEF TypeOK
  <2>2. frame' \in [Places -> Handles \cup {NoSub}]
    BY <1>2, Zenon DEF TypeOK
  <2>3. todo' \in [Places -> SUBSET Handles]
    BY <1>1, <1>2, Zenon DEF TypeOK
  <2> QED
    BY <1>2, <2>1, <2>2, <2>3, Zenon DEF TypeOK
<1>6. Counted'
  <2> SUFFICES ASSUME NEW s \in Slots
               PROVE  /\ inFlight'[s] = Cardinality(Calls(s)')
                      /\ waiters'[s] = Cardinality(Waiting(s)')
    BY Zenon DEF Counted
  <2>1. Cardinality(Calls(s)') =
          IF s = h.slot THEN Cardinality(Calls(s)) + 1 ELSE Cardinality(Calls(s))
    <3> HIDE Facts
    <3>1. frame \in [Places -> Handles \cup {NoSub}]
      BY Zenon DEF IInv, TypeOK
    <3> QED
      BY <1>1, <1>2, <3>1, CallStarts, Zenon
  <2>2. Waiting(s)' = Waiting(s)
    BY <1>2, Zenon DEF Waiting
  <2>3. inFlight'[s] = IF s = h.slot THEN inFlight[s] + 1 ELSE inFlight[s]
    BY <1>2, Zenon DEF TypeOK
  <2> QED
    BY <1>2, <2>1, <2>2, <2>3, Zenon DEF Counted
<1>7. FramesNested'
  <2> SUFFICES ASSUME NEW u \in Threads, NEW d \in Depths, d > depth[u]
               PROVE  frame'[<<u, d>>] = NoSub
    BY <1>2, Zenon DEF FramesNested
  <2>1. <<u, d>> \in Places /\ frame[<<u, d>>] = NoSub
    BY Zenon DEF FramesNested
  <2>2. depth[u] \in Nat /\ d \in Nat
    BY DEF TypeOK, Depths
  <2> HIDE Facts
  <2>3. <<u, d>> # p
    BY <1>3, <2>2
  <2> QED
    BY <1>4, <2>1, <2>3, Zenon
<1>8. Owners'
  <2> HIDE Facts
  <2>1. \A q \in Places : frame'[q] # NoSub =>
          generation[frame'[q].slot] = frame'[q].gen
    BY <1>2, <1>4, FrameFacts
  <2> QED
    BY <1>2, <2>1, Zenon DEF IInv, Owners, SlotOwned
<1>9. DeinitPassed'
  BY <1>2, Zenon DEF DeinitPassed
<1>10. Snapshots'
  <2> SUFFICES ASSUME NEW q \in Places
               PROVE  /\ frame'[q].gen <= since[q]
                      /\ \A g \in todo'[q] : g.gen <= since[q]
    BY <1>2, Zenon DEF Snapshots, NoEarlierPost
  <2>1. todo'[q] \subseteq todo[q]
    BY <1>2, Zenon DEF TypeOK
  <2> QED
    BY <1>1, <1>4, <2>1, Zenon DEF Snapshots, NoEarlierPost
<1>11. Finished'
  <2>1. PICK g \in held : g.slot = h.slot
    BY <1>2, Zenon DEF Owners
  <2>2. h.gen \notin done
    BY <1>2, <2>1 DEF Owners, SlotOwned, Finished
  <2> QED
    BY <1>2, <1>4, <2>2 DEF Finished
<1>12. WaitsForOthers'
  <2>1. \A u \in Threads : wait[u] # NoSub => wait[u].slot # h.slot
    BY <1>2, Zenon DEF Owners, SlotOwned
  <2> QED
    BY <1>2, <1>4, <2>1 DEF WaitsForOthers
<1> QED
  BY <1>5, <1>6, <1>7, <1>8, <1>9, <1>10, <1>11, <1>12, Zenon DEF IInv

(* Skip and PostReturns preserve the invariant.                             *)
LEMMA StepSkip ==
  ASSUME IInv, NEW t \in Threads,
         PostReturns(t) \/ \E h \in Handles : Skip(t, h)
  PROVE  IInv'
<1> USE Facts DEF table, posts
<1>1. Top(t) \in Places /\ frame[Top(t)] = NoSub /\ depth[t] \in Depths
  BY Zenon DEF Skip, PostReturns, Posting, Top, TypeOK
<1>2. UNCHANGED <<initialized, nextGeneration, table, frame, wait, asleep, board,
                  scan, held, done>>
  BY Zenon DEF Skip, PostReturns
<1>3. ASSUME NEW h \in Handles, Skip(t, h)
      PROVE  TypeOK' /\ FramesNested' /\ Snapshots'
  <2>1. /\ UNCHANGED <<depth, since>> /\ todo' \in [Places -> SUBSET Handles]
        /\ \A p \in Places : todo'[p] \subseteq todo[p]
    BY <1>3, Zenon DEF Skip, TypeOK
  <2>2. TypeOK' /\ FramesNested'
    BY <1>2, <2>1, Zenon DEF TypeOK, FramesNested
  <2>3. Snapshots'
    BY <1>2, <2>1, Zenon DEF Snapshots, NoEarlierPost
  <2> QED
    BY <2>2, <2>3, Zenon
<1>4. ASSUME PostReturns(t)
      PROVE  TypeOK' /\ FramesNested' /\ Snapshots'
  <2>z. depth[t] - 1 \in 0 .. MaxDepth /\ 0 \in 0 .. MaxSubs
    BY <1>1, DepthAssumption, SubsAssumption DEF Depths
  <2>1. /\ depth' = [depth EXCEPT ![t] = depth[t] - 1]
        /\ since' = [since EXCEPT ![Top(t)] = 0]
        /\ todo[Top(t)] = {} /\ todo' = todo
    BY <1>4, Zenon DEF PostReturns
  <2>2. TypeOK'
    BY <1>1, <1>2, <2>1, <2>z, Zenon DEF TypeOK
  <2>3. FramesNested'
    <3> SUFFICES ASSUME NEW u \in Threads, NEW d \in Depths, d > depth'[u]
                 PROVE  frame[<<u, d>>] = NoSub
      BY <1>2, Zenon DEF FramesNested
    <3>1. d > depth[u] \/ (u = t /\ d = depth[t])
      <4>1. d \in Nat /\ depth[t] \in Nat /\ depth[u] \in Nat
        BY DepthAssumption DEF TypeOK, Depths
      <4>2. CASE u = t
        <5>1. depth'[u] = depth[t] - 1
          BY <2>1, <4>2, Zenon DEF TypeOK
        <5> QED
          BY <4>1, <4>2, <5>1
      <4>3. CASE u # t
        <5>1. depth'[u] = depth[u]
          BY <2>1, <4>3, Zenon DEF TypeOK
        <5> QED
          BY <5>1, Zenon
      <4> QED
        BY <4>2, <4>3, Zenon
    <3> QED
      BY <1>1, <3>1, Zenon DEF FramesNested, Top
  <2>4. Snapshots'
    <3>1. \A q \in Places : since'[q] = IF q = Top(t) THEN 0 ELSE since[q]
      BY <2>1, Zenon DEF TypeOK
    <3>2. /\ todo' = todo /\ frame' = frame /\ nextGeneration' = nextGeneration
          /\ todo[Top(t)] = {} /\ frame[Top(t)] = NoSub
      BY <1>1, <1>2, <2>1, Zenon
    <3>3. nextGeneration \in Nat /\ Snapshots
      BY SubsAssumption DEF TypeOK
    <3> HIDE Facts
    <3> QED
      BY <3>1, <3>2, <3>3 DEF Snapshots, NoEarlierPost, NoSub
  <2> QED
    BY <2>2, <2>3, <2>4, Zenon
<1>5. Counted'
  BY <1>2, Zenon DEF Counted, Calls, Waiting
<1>6. Owners'
  BY <1>2, Zenon DEF Owners, SlotOwned
<1>7. DeinitPassed' /\ Finished' /\ WaitsForOthers'
  BY <1>2, Zenon DEF DeinitPassed, Finished, WaitsForOthers
<1> QED
  BY <1>3, <1>4, <1>5, <1>6, <1>7, Zenon DEF IInv

(* The converse of CountedNonzero after a step.                             *)
LEMMA CountedZeroNext ==
  ASSUME Counted', NEW s \in Slots
  PROVE  /\ inFlight'[s] = 0 => \A p \in Places : frame'[p].slot # s
         /\ waiters'[s] = 0 => \A t \in Threads : wait'[t].slot # s
<1>1. IsFiniteSet(Depths)
  BY DepthAssumption, FS_Interval DEF Depths
<1>2. IsFiniteSet(Places)
  BY <1>1, ThreadsAssumption, FS_Product, Zenon DEF Places
<1>3. Calls(s)' \in SUBSET Places /\ Waiting(s)' \in SUBSET Threads
  BY Zenon DEF Calls, Waiting
<1>4. IsFiniteSet(Calls(s)') /\ IsFiniteSet(Waiting(s)')
  BY <1>2, <1>3, ThreadsAssumption, FS_Subset, Zenon
<1>5. /\ inFlight'[s] = Cardinality(Calls(s)')
      /\ waiters'[s] = Cardinality(Waiting(s)')
  BY Zenon DEF Counted
<1>6. /\ inFlight'[s] = 0 => Calls(s)' = {}
      /\ waiters'[s] = 0 => Waiting(s)' = {}
  BY <1>4, <1>5, FS_EmptySet, Zenon
<1> QED
  BY <1>6, Zenon DEF Calls, Waiting

(* HandlerReturns preserves the invariant: the call was counted.            *)
LEMMA StepReturn ==
  ASSUME IInv, NEW t \in Threads, HandlerReturns(t)
  PROVE  IInv'
<1> USE Facts DEF table, posts
<1> DEFINE p == Top(t)
<1>0. /\ p \in Places /\ frame[p] # NoSub /\ frame[p] \in Handles
      /\ depth[t] \in Depths
  BY Zenon DEF HandlerReturns, Running, InHandler, Top, TypeOK
<1>1. PICK s \in Slots : s = frame[p].slot
  BY <1>0, Zenon
<1>2. /\ Reclaim(s, active[s], inFlight[s] - 1, waiters[s]) /\ Broadcast
      /\ frame' = [frame EXCEPT ![p] = NoSub]
      /\ UNCHANGED <<initialized, nextGeneration, depth, todo, since, wait, scan,
                     held, done>>
  BY <1>1, Zenon DEF HandlerReturns
<1> HIDE DEF p
<1>3. inFlight[s] - 1 \in Nat /\ waiters[s] \in Nat /\ active[s] \in BOOLEAN
  BY <1>0, <1>1, CountedNonzero DEF TypeOK
<1>4. /\ active' \in [Slots -> BOOLEAN]
      /\ inFlight' \in [Slots -> Nat] /\ waiters' \in [Slots -> Nat]
      /\ generation' \in [Slots -> 0 .. MaxSubs]
      /\ type' \in [Slots -> Types \cup {NoType}]
      /\ active'[s] = active[s] /\ inFlight'[s] = inFlight[s] - 1
      /\ waiters'[s] = waiters[s]
      /\ \/ generation'[s] = generation[s]
         \/ ~active[s] /\ inFlight[s] - 1 = 0 /\ waiters[s] = 0
            /\ generation'[s] = 0
      /\ \A r \in Slots : r # s =>
           /\ active'[r] = active[r] /\ inFlight'[r] = inFlight[r]
           /\ waiters'[r] = waiters[r] /\ generation'[r] = generation[r]
  <2> HIDE Facts
  <2>1. TypeOK
    BY Zenon DEF IInv
  <2> QED
    BY <1>2, <1>3, <2>1, ReclaimFields, Zenon
<1>5. \A q \in Places : frame'[q] = IF q = p THEN NoSub ELSE frame[q]
  BY <1>2, Zenon DEF TypeOK
<1>6. TypeOK'
  BY <1>2, <1>4, Zenon DEF TypeOK, Broadcast
<1>7. Counted'
  <2> SUFFICES ASSUME NEW r \in Slots
               PROVE  /\ inFlight'[r] = Cardinality(Calls(r)')
                      /\ waiters'[r] = Cardinality(Waiting(r)')
    BY Zenon DEF Counted
  <2>1. Cardinality(Calls(r)') =
          IF r = s THEN Cardinality(Calls(r)) - 1 ELSE Cardinality(Calls(r))
    BY <1>0, <1>1, <1>2, CallEnds, Zenon DEF TypeOK
  <2>2. Waiting(r)' = Waiting(r)
    BY <1>2, Zenon DEF Waiting
  <2> QED
    BY <1>4, <2>1, <2>2 DEF Counted
<1>8. FramesNested'
  BY <1>2, <1>5, Zenon DEF FramesNested
<1>9. Owners'
  <2>1. \/ generation'[s] = generation[s]
        \/ /\ \A q \in Places : frame'[q].slot # s
           /\ \A u \in Threads : wait'[u].slot # s
    BY <1>4, <1>7, CountedZeroNext, Zenon
  <2>2. \A h \in held : h.slot = s => active[s]
    BY HeldFacts, Zenon
  <2> HIDE Facts
  <2>3. /\ \A q \in Places : frame'[q].slot = s => generation'[s] = generation[s]
        /\ \A u \in Threads : wait'[u].slot = s => generation'[s] = generation[s]
    BY <2>1, Zenon
  <2>4. \A h \in held' : h.slot = s => active'[s] /\ generation'[s] = generation[s]
    BY <1>2, <1>4, <2>2, Zenon
  <2>5. \A q \in Places : frame'[q] # NoSub => frame'[q] = frame[q]
    BY <1>5, Zenon
  <2>6. held' = held /\ wait' = wait /\ nextGeneration' = nextGeneration
    BY <1>2, Zenon
  <2>7. /\ \A r \in Slots : r # s =>
             active'[r] = active[r] /\ generation'[r] = generation[r]
        /\ active'[s] => active[s]
        /\ generation'[s] = generation[s] \/ generation'[s] = 0
    BY <1>4, Zenon
  <2> QED
    BY <2>3, <2>4, <2>5, <2>6, <2>7, OwnersOneSlot, Zenon
<1>10. DeinitPassed'
  <2>1. \A r \in Slots : inFlight[r] = 0 => r # s
    BY <1>3
  <2> QED
    BY <1>2, <1>4, <2>1, Zenon DEF DeinitPassed, Broadcast
<1>11. Snapshots'
  <2>1. \A q \in Places : frame'[q].gen <= since[q]
    <3> SUFFICES ASSUME NEW q \in Places PROVE frame'[q].gen <= since[q]
      BY Zenon
    <3>1. NoEarlierPost /\ TypeOK
      BY Zenon DEF Snapshots
    <3> HIDE Facts
    <3>2. since[q] \in 0 .. MaxSubs
      BY <3>1, Zenon DEF TypeOK
    <3>3. since[q] \in Nat /\ 0 <= since[q]
      BY <3>2, SubsAssumption
    <3>4. frame[q].gen <= since[q]
      BY <3>1, Zenon DEF NoEarlierPost
    <3> QED
      BY <1>5, <3>3, <3>4 DEF NoSub
  <2> QED
    BY <1>2, <2>1, Zenon DEF Snapshots, NoEarlierPost
<1>12. Finished'
  <2>1. /\ Finished /\ held' = held /\ done' = done
        /\ nextGeneration' = nextGeneration /\ 0 \notin done
    BY <1>2, Zenon DEF TypeOK
  <2> HIDE Facts
  <2> QED
    BY <1>5, <2>1 DEF Finished, NoSub
<1>13. WaitsForOthers'
  <2>1. WaitsForOthers /\ wait' = wait
    BY <1>2, Zenon
  <2>2. \A u \in Threads : wait[u] # NoSub => wait[u].slot # NoSub.slot
    BY Zenon
  <2>3. \A u \in Threads, d \in Depths : <<u, d>> \in Places
    BY Zenon
  <2> HIDE Facts
  <2> QED
    BY <1>5, <2>1, <2>2, <2>3, Zenon DEF WaitsForOthers
<1> QED
  BY <1>6, <1>7, <1>8, <1>9, <1>10, <1>11, <1>12, <1>13, Zenon DEF IInv

------------------------------------------------------------------------------

(* Subscribe preserves the invariant: a free slot has no call and no        *)
(* waiter, and the generation is new.                                       *)
LEMMA StepSubscribe ==
  ASSUME IInv, NEW t \in Threads, NEW y \in Types, Subscribe(t, y)
  PROVE  IInv'
<1> USE Facts DEF table, posts
<1>1. PICK s \in Slots :
        /\ Free(s)
        /\ active' = [active EXCEPT ![s] = TRUE]
        /\ generation' = [generation EXCEPT ![s] = nextGeneration + 1]
        /\ type' = [type EXCEPT ![s] = y]
        /\ held' = held \cup {[slot |-> s, gen |-> nextGeneration + 1]}
  BY Zenon DEF Subscribe
<1>2. /\ initialized /\ nextGeneration' = nextGeneration + 1
      /\ UNCHANGED <<initialized, inFlight, waiters, posts, wait, asleep, board,
                     scan, done>>
  BY Zenon DEF Subscribe
<1>3. /\ nextGeneration \in Nat /\ nextGeneration + 1 \in 0 .. MaxSubs
      /\ nextGeneration + 1 \in Gens
  BY SubsAssumption DEF Subscribe, TypeOK, Gens
<1> DEFINE n == [slot |-> s, gen |-> nextGeneration + 1]
<1>4. n \in Handles /\ n.slot = s /\ n.gen = nextGeneration + 1
  BY <1>3, Zenon DEF Handles
<1>5. held' = held \cup {n}
  BY <1>1, Zenon
<1> HIDE DEF n
<1>6. /\ \A p \in Places : frame[p].slot # s
      /\ \A u \in Threads : wait[u].slot # s
      /\ \A h \in held : h.slot # s
  BY <1>1, CountedNonzero DEF Free, Owners, SlotOwned
<1>7. TypeOK'
  BY <1>1, <1>2, <1>3, <1>4, <1>5, Zenon DEF TypeOK
<1>8. Counted'
  BY <1>2, Zenon DEF Counted, Calls, Waiting
<1>9. FramesNested' /\ WaitsForOthers' /\ DeinitPassed'
  BY <1>2, Zenon DEF FramesNested, WaitsForOthers, DeinitPassed
<1>10. Owners'
  <2>1. /\ active'[s] /\ generation'[s] = nextGeneration + 1
        /\ \A r \in Slots : r # s =>
             active'[r] = active[r] /\ generation'[r] = generation[r]
    BY <1>1, Zenon DEF TypeOK
  <2> HIDE Facts
  <2>2. \A g \in held' : active'[g.slot] /\ generation'[g.slot] = g.gen
    <3> SUFFICES ASSUME NEW g \in held'
                 PROVE  active'[g.slot] /\ generation'[g.slot] = g.gen
      BY Zenon
    <3>1. CASE g = n
      BY <1>4, <2>1, <3>1, Zenon
    <3>2. CASE g \in held
      BY <1>6, <2>1, <3>2, HeldFacts, Zenon
    <3> QED
      BY <1>5, <3>1, <3>2, Zenon
  <2>3. \A p \in Places : frame'[p] # NoSub =>
          generation'[frame'[p].slot] = frame'[p].gen
    <3>1. frame' = frame
      BY <1>2, Zenon
    <3> QED
      BY <1>6, <2>1, <3>1, FrameFacts, Zenon
  <2>4. \A u \in Threads : wait'[u] # NoSub =>
          /\ ~active'[wait'[u].slot]
          /\ generation'[wait'[u].slot] = wait'[u].gen
    <3>1. wait' = wait
      BY <1>2, Zenon
    <3> QED
      BY <1>6, <2>1, <3>1, WaitFacts, Zenon
  <2>5. \A r \in Slots : active'[r] => \E g \in held' : g.slot = r
    <3> SUFFICES ASSUME NEW r \in Slots, active'[r]
                 PROVE  \E g \in held' : g.slot = r
      BY Zenon
    <3>1. CASE r = s
      BY <1>4, <1>5, <3>1, Zenon
    <3>2. CASE r # s
      <4>1. PICK g \in held : g.slot = r
        BY <2>1, <3>2, SlotFacts, Zenon
      <4> QED
        BY <1>5, <4>1, Zenon
    <3> QED
      BY <3>1, <3>2, Zenon
  <2>6. \A r \in Slots : generation'[r] <= nextGeneration'
    BY <1>2, <2>1, SlotFacts
  <2>7. \A q, r \in Slots :
          generation'[q] = generation'[r] /\ generation'[q] # 0 => q = r
    <3> SUFFICES ASSUME NEW q \in Slots, NEW r \in Slots, q # r,
                        generation'[q] = generation'[r], generation'[q] # 0
                 PROVE  FALSE
      BY Zenon
    <3>1. nextGeneration + 1 > generation[q] /\ nextGeneration + 1 > generation[r]
      BY SlotFacts
    <3>2. generation[q] # generation[r] \/ generation[q] = 0
      BY SlotFacts, Zenon
    <3> QED
      BY <2>1, <3>1, <3>2, SlotFacts
  <2> QED
    BY <2>2, <2>3, <2>4, <2>5, <2>6, <2>7, Zenon DEF Owners, SlotOwned
<1>11. Snapshots'
  BY <1>2, <1>3 DEF Snapshots, NoEarlierPost, TypeOK
<1>12. Finished'
  <2>1. \A g \in done : g \in Nat /\ g <= nextGeneration
    BY DEF Finished, TypeOK, Gens
  <2> QED
    BY <1>2, <1>3, <1>4, <1>5, <2>1 DEF Finished
<1> QED
  BY <1>7, <1>8, <1>9, <1>10, <1>11, <1>12, Zenon DEF IInv

(* A slot has one owner.                                                    *)
LEMMA OneOwner ==
  ASSUME IInv, NEW h \in held
  PROVE  /\ h \in Handles /\ h.slot \in Slots /\ generation[h.slot] = h.gen
         /\ generation[h.slot] # 0 /\ active[h.slot]
         /\ \A g \in held \ {h} : g \in Handles /\ g.slot # h.slot
<1> USE Facts
<1>1. \A g \in held : /\ g \in Handles /\ g.gen = generation[g.slot]
                      /\ active[g.slot]
  BY Zenon DEF Owners, SlotOwned, TypeOK
<1>2. \A g \in held : g.slot = h.slot => g = h
  BY <1>1 DEF Handles
<1> QED
  BY <1>1, <1>2

(* A self-unsubscribe preserves the invariant.                              *)
LEMMA StepUnsubscribeSelf ==
  ASSUME IInv, NEW t \in Threads, NEW h \in Handles, UnsubscribeSelf(t, h)
  PROVE  IInv'
<1> USE Facts DEF table, posts
<1>1. /\ h \in held /\ h.slot \in Slots
      /\ active' = [active EXCEPT ![h.slot] = FALSE]
      /\ held' = held \ {h}
      /\ UNCHANGED <<initialized, nextGeneration, inFlight, waiters, generation,
                     type, posts, wait, asleep, board, scan, done>>
  BY Zenon DEF UnsubscribeSelf, MayUnsubscribe
<1>2. \A g \in held \ {h} : g \in Handles /\ g.slot # h.slot
  BY <1>1, OneOwner, Zenon
<1>3. /\ ~active'[h.slot] /\ active' \in [Slots -> BOOLEAN]
      /\ \A r \in Slots : r # h.slot => active'[r] = active[r]
  BY <1>1, Zenon DEF TypeOK
<1>4. TypeOK'
  BY <1>1, <1>3, Zenon DEF TypeOK
<1>5. Counted'
  BY <1>1, Zenon DEF Counted, Calls, Waiting
<1>6. FramesNested' /\ WaitsForOthers' /\ DeinitPassed' /\ Snapshots'
  BY <1>1, Zenon DEF FramesNested, WaitsForOthers, DeinitPassed, Snapshots, NoEarlierPost
<1>7. Finished'
  BY <1>1, Zenon DEF Finished
<1>8. Owners'
  <2> HIDE Facts
  <2>1. \A g \in held : g # h => g.slot # h.slot
    BY <1>2, Zenon
  <2>2. /\ \A g \in held' : g \in held /\ g.slot # h.slot
        /\ \A g \in held : g.slot # h.slot => g \in held'
    BY <1>1, <2>1, Zenon
  <2>3. /\ generation' = generation /\ frame' = frame /\ wait' = wait
        /\ nextGeneration' = nextGeneration
    BY <1>1, Zenon
  <2> QED
    BY <1>1, <1>3, <2>2, <2>3, OwnersOneSlot, Zenon
<1> QED
  BY <1>4, <1>5, <1>6, <1>7, <1>8, Zenon DEF IInv

(* An external unsubscribe without calls in flight preserves the invariant. *)
LEMMA StepUnsubscribeIdle ==
  ASSUME IInv, NEW t \in Threads, NEW h \in Handles, UnsubscribeIdle(t, h)
  PROVE  IInv'
<1> USE Facts DEF table, posts
<1> DEFINE s == h.slot
<1>1. /\ h \in held /\ s \in Slots /\ inFlight[s] = 0
      /\ Reclaim(s, FALSE, 0, waiters[s]) /\ Broadcast
      /\ held' = held \ {h} /\ done' = done \cup {h.gen}
      /\ UNCHANGED <<initialized, nextGeneration, posts, wait, scan>>
  BY Zenon DEF UnsubscribeIdle, MayUnsubscribe
<1> HIDE DEF s
<1>2. /\ h.gen = generation[s] /\ generation[s] # 0 /\ active[s]
      /\ \A g \in held \ {h} : g \in Handles /\ g.slot # s
  BY <1>1, OneOwner, Zenon DEF s
<1>3. /\ active' \in [Slots -> BOOLEAN]
      /\ inFlight' = inFlight /\ waiters' = waiters
      /\ generation' \in [Slots -> 0 .. MaxSubs]
      /\ type' \in [Slots -> Types \cup {NoType}]
      /\ ~active'[s]
      /\ \A r \in Slots : r # s =>
           active'[r] = active[r] /\ generation'[r] = generation[r]
      /\ generation'[s] = generation[s] \/ (waiters[s] = 0 /\ generation'[s] = 0)
  <2> HIDE Facts
  <2>1. TypeOK
    BY Zenon DEF IInv
  <2>2. waiters[s] \in Nat
    BY <1>1, <2>1, Zenon DEF TypeOK
  <2>3. /\ inFlight \in [Slots -> Nat] /\ inFlight' = [inFlight EXCEPT ![s] = 0]
        /\ waiters \in [Slots -> Nat]
        /\ waiters' = [waiters EXCEPT ![s] = waiters[s]]
    BY <1>1, <2>1, Zenon DEF Reclaim, TypeOK
  <2>4. inFlight' = inFlight
    BY <1>1, <2>3, Zenon
  <2>5. waiters' = waiters
    BY <1>1, <2>3, Zenon
  <2>6. Reclaim(s, FALSE, 0, waiters[s]) /\ FALSE \in BOOLEAN /\ 0 \in Nat /\ s \in Slots
    BY <1>1, Zenon
  <2>7. /\ active' \in [Slots -> BOOLEAN]
        /\ generation' \in [Slots -> 0 .. MaxSubs]
        /\ type' \in [Slots -> Types \cup {NoType}]
        /\ active'[s] = FALSE
        /\ generation'[s] = generation[s] \/ (waiters[s] = 0 /\ generation'[s] = 0)
        /\ \A r \in Slots : r # s =>
             active'[r] = active[r] /\ generation'[r] = generation[r]
    BY <2>1, <2>2, <2>6, ReclaimFields, Zenon
  <2> QED
    BY <2>4, <2>5, <2>7, Zenon
<1>4. /\ \A p \in Places : frame[p].slot # s
      /\ \A u \in Threads : wait[u].slot # s
  <2>1. \A u \in Threads : wait[u].slot = s => wait[u] # NoSub
    BY <1>1, Zenon
  <2>2. \A u \in Threads : wait[u].slot # s
    BY <1>2, <2>1 DEF Owners, SlotOwned
  <2> QED
    BY <1>1, <2>2, CountedNonzero, Zenon
<1>5. TypeOK'
  BY <1>1, <1>3, Zenon DEF TypeOK, Broadcast
<1>6. Counted'
  <2>1. /\ Counted /\ inFlight' = inFlight /\ waiters' = waiters
        /\ frame' = frame /\ wait' = wait
    BY <1>1, <1>3, Zenon
  <2> HIDE Facts
  <2> QED
    BY <2>1, Zenon DEF Counted, Calls, Waiting
<1>7. FramesNested' /\ WaitsForOthers' /\ Snapshots'
  BY <1>1, Zenon DEF FramesNested, WaitsForOthers, Snapshots, NoEarlierPost
<1>8. DeinitPassed'
  BY <1>1, <1>3, Zenon DEF DeinitPassed, Broadcast
<1>9. Finished'
  <2>1. \A p \in Places : frame[p].gen # h.gen
    BY <1>1, <1>2, <1>4, SameGeneration
  <2>2. \A g \in held \ {h} : g.gen # h.gen
    BY <1>1, <1>2, SameGeneration
  <2>3. h.gen <= nextGeneration
    BY <1>1, <1>2, Zenon DEF Owners
  <2> QED
    BY <1>1, <2>1, <2>2, <2>3, Zenon DEF Finished
<1>10. Owners'
  <2> HIDE Facts
  <2>1. \A g \in held : g # h => g.slot # s
    BY <1>2, Zenon
  <2>2. /\ \A g \in held' : g \in held /\ g.slot # s
        /\ \A g \in held : g.slot # s => g \in held'
    BY <1>1, <2>1, Zenon DEF s
  <2>3. frame' = frame /\ wait' = wait /\ nextGeneration' = nextGeneration
    BY <1>1, Zenon
  <2>4. generation'[s] = generation[s] \/ generation'[s] = 0
    BY <1>3, Zenon
  <2> QED
    BY <1>1, <1>3, <1>4, <2>2, <2>3, <2>4, OwnersOneSlot
<1> QED
  BY <1>5, <1>6, <1>7, <1>8, <1>9, <1>10, Zenon DEF IInv

(* An external unsubscribe that has to wait preserves the invariant.        *)
LEMMA StepUnsubscribeWait ==
  ASSUME IInv, NEW t \in Threads, NEW h \in Handles, UnsubscribeWait(t, h)
  PROVE  IInv'
<1> USE Facts DEF table, posts
<1>1. /\ h \in held /\ h.slot \in Slots /\ inFlight[h.slot] # 0
      /\ wait[t] = NoSub /\ ~IsSelf(t, h.slot)
      /\ active' = [active EXCEPT ![h.slot] = FALSE]
      /\ waiters' = [waiters EXCEPT ![h.slot] = waiters[h.slot] + 1]
      /\ wait' = [wait EXCEPT ![t] = h]
      /\ asleep' = asleep \cup {t} /\ held' = held \ {h}
      /\ UNCHANGED <<initialized, nextGeneration, inFlight, generation, type,
                     posts, board, scan, done>>
  BY Zenon DEF UnsubscribeWait, MayUnsubscribe, Running
<1>2. /\ h.gen = generation[h.slot] /\ generation[h.slot] # 0 /\ active[h.slot]
      /\ \A g \in held \ {h} : g \in Handles /\ g.slot # h.slot
  BY <1>1, OneOwner, Zenon
<1>3. /\ ~active'[h.slot] /\ active' \in [Slots -> BOOLEAN]
      /\ \A r \in Slots : r # h.slot => active'[r] = active[r]
      /\ \A u \in Threads : wait'[u] = IF u = t THEN h ELSE wait[u]
  BY <1>1, Zenon DEF TypeOK
<1>4. TypeOK'
  <2>1. waiters' \in [Slots -> Nat]
    BY <1>1 DEF TypeOK
  <2>2. wait' \in [Threads -> Handles \cup {NoSub}]
    BY <1>1, Zenon DEF TypeOK
  <2> QED
    BY <1>1, <1>3, <2>1, <2>2, Zenon DEF TypeOK
<1>5. Counted'
  <2> SUFFICES ASSUME NEW r \in Slots
               PROVE  /\ inFlight'[r] = Cardinality(Calls(r)')
                      /\ waiters'[r] = Cardinality(Waiting(r)')
    BY Zenon DEF Counted
  <2>1. Cardinality(Waiting(r)') =
          IF r = h.slot THEN Cardinality(Waiting(r)) + 1
          ELSE Cardinality(Waiting(r))
    <3>1. wait \in [Threads -> Handles \cup {NoSub}]
      BY Zenon DEF TypeOK
    <3> QED
      BY <1>1, <3>1, WaitStarts, Zenon
  <2>2. Calls(r)' = Calls(r)
    BY <1>1, Zenon DEF Calls
  <2>3. waiters'[r] = IF r = h.slot THEN waiters[r] + 1 ELSE waiters[r]
    BY <1>1, Zenon DEF TypeOK
  <2> QED
    BY <1>1, <2>1, <2>2, <2>3, Zenon DEF Counted
<1>6. FramesNested' /\ Snapshots' /\ Finished'
  BY <1>1, Zenon DEF FramesNested, Snapshots, NoEarlierPost, Finished
<1>7. DeinitPassed'
  BY <1>1, Zenon DEF DeinitPassed, TypeOK
<1>8. WaitsForOthers'
  <2>1. \A d \in Depths : frame[<<t, d>>].slot # h.slot
    <3> SUFFICES ASSUME NEW d \in Depths, frame[<<t, d>>].slot = h.slot
                 PROVE  FALSE
      BY Zenon
    <3>1. CASE d > depth[t]
      <4>1. frame[<<t, d>>] = NoSub
        BY <3>1, Zenon DEF FramesNested
      <4> QED
        BY <1>1, <4>1, Zenon
    <3>2. CASE ~(d > depth[t])
      <4>1. d \in 1 .. depth[t]
        BY <3>2, DepthAssumption DEF Depths, TypeOK
      <4> QED
        BY <1>1, <4>1, Zenon DEF IsSelf
    <3> QED
      BY <3>1, <3>2, Zenon
  <2>2. WaitsForOthers /\ frame' = frame
    BY <1>1, Zenon
  <2> HIDE Facts
  <2> QED
    BY <1>3, <2>1, <2>2, Zenon DEF WaitsForOthers
<1>9. Owners'
  <2> HIDE Facts
  <2>1. \A g \in held : g # h => g.slot # h.slot
    BY <1>2, Zenon
  <2>2. /\ \A g \in held' : g \in held /\ g.slot # h.slot
        /\ \A g \in held : g.slot # h.slot => g \in held'
    BY <1>1, <2>1, Zenon
  <2>3. generation' = generation /\ frame' = frame /\ nextGeneration' = nextGeneration
    BY <1>1, Zenon
  <2>4. \A u \in Threads : wait'[u] # NoSub =>
          \/ wait'[u] = wait[u]
          \/ /\ wait'[u].slot = h.slot /\ ~active'[h.slot]
             /\ wait'[u].gen = generation[h.slot]
    BY <1>2, <1>3, Zenon
  <2> QED
    BY <1>1, <1>3, <2>2, <2>3, <2>4, OwnersOneSlot, Zenon
<1> QED
  BY <1>4, <1>5, <1>6, <1>7, <1>8, <1>9, Zenon DEF IInv

(* The end of a waiting unsubscribe preserves the invariant.                *)
LEMMA StepUnsubscribed ==
  ASSUME IInv, NEW t \in Threads, UnsubscribeReturns(t)
  PROVE  IInv'
<1> USE Facts DEF table, posts
<1>0. wait[t] # NoSub /\ wait[t] \in Handles
  BY Zenon DEF UnsubscribeReturns
<1>1. PICK s \in Slots : s = wait[t].slot
  BY <1>0, Zenon
<1>2. /\ inFlight[s] = 0 /\ Reclaim(s, active[s], 0, waiters[s] - 1)
      /\ Broadcast /\ wait' = [wait EXCEPT ![t] = NoSub]
      /\ done' = done \cup {wait[t].gen}
      /\ UNCHANGED <<initialized, nextGeneration, posts, scan, held>>
  BY <1>1, Zenon DEF UnsubscribeReturns
<1>3. /\ ~active[s] /\ generation[s] = wait[t].gen /\ generation[s] # 0
      /\ waiters[s] - 1 \in Nat /\ \A h \in held : h.slot # s
  <2>1. ~active[s] /\ generation[s] = wait[t].gen
    <3> HIDE Facts
    <3> QED
      BY <1>0, <1>1, WaitFacts, Zenon
  <2>2. waiters[s] - 1 \in Nat
    <3>1. TypeOK /\ Counted
      BY Zenon
    <3> HIDE Facts
    <3>2. waiters[s] \in Nat /\ waiters[s] # 0
      BY <1>1, <3>1, CountedNonzero, Zenon DEF TypeOK
    <3> QED
      BY <3>2
  <2>3. generation[s] # 0
    BY <1>0, <2>1, Zenon
  <2> HIDE Facts
  <2>4. \A h \in held : h.slot # s
    BY <2>1, HeldFacts, Zenon
  <2> QED
    BY <2>1, <2>2, <2>3, <2>4, Zenon
<1>4. /\ active' \in [Slots -> BOOLEAN] /\ active' = active
      /\ inFlight' = inFlight /\ waiters' \in [Slots -> Nat]
      /\ generation' \in [Slots -> 0 .. MaxSubs]
      /\ type' \in [Slots -> Types \cup {NoType}]
      /\ waiters'[s] = waiters[s] - 1
      /\ generation'[s] = generation[s] \/ (waiters'[s] = 0 /\ generation'[s] = 0)
      /\ \A r \in Slots : r # s =>
           waiters'[r] = waiters[r] /\ generation'[r] = generation[r]
  <2> HIDE Facts
  <2>1. TypeOK
    BY Zenon DEF IInv
  <2>2. active[s] \in BOOLEAN
    BY <2>1, Zenon DEF TypeOK
  <2>3. /\ inFlight \in [Slots -> Nat] /\ inFlight' = [inFlight EXCEPT ![s] = 0]
        /\ active \in [Slots -> BOOLEAN]
        /\ active' = [active EXCEPT ![s] = active[s]]
    BY <1>2, <2>1, Zenon DEF Reclaim, TypeOK
  <2>4. inFlight' = inFlight
    BY <1>2, <2>3, Zenon
  <2>5. active' = active
    BY <2>3, Zenon
  <2> QED
    <3>1. /\ Reclaim(s, active[s], 0, waiters[s] - 1)
          /\ waiters[s] - 1 \in Nat /\ 0 \in Nat
      BY <1>2, <1>3, Zenon
    <3>2. /\ active' \in [Slots -> BOOLEAN] /\ waiters' \in [Slots -> Nat]
          /\ generation' \in [Slots -> 0 .. MaxSubs]
          /\ type' \in [Slots -> Types \cup {NoType}]
          /\ waiters'[s] = waiters[s] - 1
          /\ \/ generation'[s] = generation[s]
             \/ waiters[s] - 1 = 0 /\ generation'[s] = 0
          /\ \A r \in Slots : r # s =>
               waiters'[r] = waiters[r] /\ generation'[r] = generation[r]
      BY <2>1, <2>2, <3>1, ReclaimFields, Zenon
    <3> QED
      BY <2>4, <2>5, <3>2, Zenon
<1>5. \A u \in Threads : wait'[u] = IF u = t THEN NoSub ELSE wait[u]
  BY <1>2, Zenon DEF TypeOK
<1>6. TypeOK'
  <2>1. done' \subseteq Gens
    BY <1>0, <1>2, Zenon DEF TypeOK
  <2> QED
    BY <1>2, <1>4, <2>1, Zenon DEF TypeOK, Broadcast
<1>7. Counted'
  <2> SUFFICES ASSUME NEW r \in Slots
               PROVE  /\ inFlight'[r] = Cardinality(Calls(r)')
                      /\ waiters'[r] = Cardinality(Waiting(r)')
    BY Zenon DEF Counted
  <2>1. Cardinality(Waiting(r)') =
          IF r = s THEN Cardinality(Waiting(r)) - 1 ELSE Cardinality(Waiting(r))
    <3>1. wait \in [Threads -> Handles \cup {NoSub}]
      BY Zenon DEF TypeOK
    <3> HIDE Facts
    <3> QED
      BY <1>0, <1>1, <1>2, <3>1, WaitEnds, Zenon
  <2>2. Calls(r)' = Calls(r)
    BY <1>2, Zenon DEF Calls
  <2>3. /\ inFlight[r] = Cardinality(Calls(r))
        /\ waiters[r] = Cardinality(Waiting(r))
    BY Zenon DEF Counted
  <2> HIDE Facts
  <2> QED
    BY <1>4, <2>1, <2>2, <2>3, Zenon
<1>8. FramesNested' /\ Snapshots'
  BY <1>2, Zenon DEF FramesNested, Snapshots, NoEarlierPost
<1>9. WaitsForOthers'
  BY <1>2, <1>5 DEF WaitsForOthers
<1>10. DeinitPassed'
  <2>1. \A r \in Slots : waiters[r] = 0 => r # s
    BY <1>3
  <2> QED
    BY <1>2, <1>4, <2>1, Zenon DEF DeinitPassed, Broadcast
<1>11. Finished'
  <2>1. \A p \in Places : frame[p].slot # s
    BY <1>2, CountedNonzero, Zenon
  <2>2. \A p \in Places : frame[p].gen # generation[s]
    BY <1>3, <2>1, SameGeneration, Zenon
  <2>3. \A h \in held : h.gen # generation[s]
    BY <1>3, SameGeneration, Zenon
  <2>4. generation[s] <= nextGeneration
    BY Zenon DEF Owners
  <2> QED
    BY <1>2, <1>3, <2>2, <2>3, <2>4, Zenon DEF Finished
<1>12. Owners'
  <2>1. \A p \in Places : frame[p].slot # s
    BY <1>2, CountedNonzero, Zenon
  <2>2. generation'[s] # generation[s] => \A u \in Threads : wait'[u].slot # s
    BY <1>4, <1>7, CountedZeroNext, Zenon
  <2> HIDE Facts
  <2>3. /\ held' = held /\ frame' = frame /\ nextGeneration' = nextGeneration
        /\ active' = active
    BY <1>2, <1>4, Zenon
  <2>4. /\ generation'[s] = generation[s] \/ generation'[s] = 0
        /\ \A r \in Slots : r # s => generation'[r] = generation[r]
    BY <1>4, Zenon
  <2>5. \A u \in Threads : wait'[u] # NoSub => wait'[u] = wait[u]
    BY <1>5, Zenon
  <2> QED
    BY <1>3, <2>1, <2>2, <2>3, <2>4, <2>5, OwnersOneSlot, Zenon
<1> QED
  BY <1>6, <1>7, <1>8, <1>9, <1>10, <1>11, <1>12, Zenon DEF IInv

(* Every step preserves the invariant.                                      *)
LEMMA StepInv == IInv /\ [Next]_vars => IInv'
<1> SUFFICES ASSUME IInv, [Next]_vars PROVE IInv'
  BY Zenon
<1>1. CASE UNCHANGED vars
  <2> USE Facts DEF vars, table, posts
  <2>1. TypeOK'
    BY <1>1, Zenon DEF TypeOK
  <2>2. Counted'
    BY <1>1, Zenon DEF Counted, Calls, Waiting
  <2>3. Owners'
    BY <1>1, Zenon DEF Owners, SlotOwned
  <2>4. /\ FramesNested' /\ DeinitPassed' /\ Snapshots' /\ Finished'
        /\ WaitsForOthers'
    BY <1>1, Zenon DEF FramesNested, DeinitPassed, Snapshots, NoEarlierPost, Finished,
       WaitsForOthers
  <2> QED
    BY <2>1, <2>2, <2>3, <2>4, Zenon DEF IInv
<1>2. CASE PalInit \/ Deinit \/ DeinitResume \/ Spurious
  BY <1>2, StepQuiet, StepDeinit, Zenon
<1>3. ASSUME NEW t \in Threads, Call(t) \/ Waiter(t)
      PROVE  IInv'
  BY <1>3, StepAdmit, StepSkip, StepReturn, StepQuiet, StepUnsubscribed, Zenon
  DEF Call, Waiter
<1>4. ASSUME NEW t \in Threads, NEW y \in Types, Post(t, y) \/ Subscribe(t, y)
      PROVE  IInv'
  BY <1>4, StepPost, StepSubscribe, Zenon
<1>5. ASSUME NEW t \in Threads, NEW h \in Handles, Unsubscribe(t, h)
      PROVE  IInv'
  BY <1>5, StepUnsubscribeSelf, StepUnsubscribeIdle, StepUnsubscribeWait, Zenon
  DEF Unsubscribe
<1> QED
  BY <1>1, <1>2, <1>3, <1>4, <1>5, Zenon DEF Next

------------------------------------------------------------------------------
(* IInv is an invariant.                                                    *)
THEOREM Invariance == Spec => []IInv
<1> QED
  BY InitInv, StepInv, PTL DEF Spec

(* No counter of the table underflows, and all of it is well typed.         *)
THEOREM TypeCorrect == Spec => []TypeOK
<1>1. IInv => TypeOK
  BY Zenon DEF IInv
<1> QED
  BY <1>1, Invariance, PTL

(* in_flight and unsubscribe_waiters are the numbers of calls and waiters.  *)
THEOREM CountsExact == Spec => []Counted
<1>1. IInv => Counted
  BY Zenon DEF IInv
<1> QED
  BY <1>1, Invariance, PTL

(* h2_posix_system_event_reclaim and subscribe never hand a slot to a new   *)
(* subscription under an owner, a call or a waiting unsubscribe.            *)
THEOREM SlotsOwned == Spec => []SlotOwned
<1>1. IInv => SlotOwned
  BY Zenon DEF IInv, Owners
<1> QED
  BY <1>1, Invariance, PTL

(* h2_posix_system_event_post calls no subscription made after it.          *)
THEOREM PostsReachEarlierOwners == Spec => []NoEarlierPost
<1>1. IInv => NoEarlierPost
  BY Zenon DEF IInv, Snapshots
<1> QED
  BY <1>1, Invariance, PTL

(* h2_posix_system_event_unsubscribe never waits for its own thread.        *)
THEOREM NoSelfWait == Spec => []WaitsForOthers
<1>1. IInv => WaitsForOthers
  BY Zenon DEF IInv
<1> QED
  BY <1>1, Invariance, PTL

(* "so handler_user can then be freed": after an external unsubscribe has   *)
(* returned its handler is not running and will not be called.              *)
THEOREM FreeAfterUnsubscribe == Spec => []NoCallAfterUnsubscribe
<1>1. IInv => NoCallAfterUnsubscribe
  BY Zenon DEF IInv, Finished, NoCallAfterUnsubscribe, Contract!NoCallAfterDone
<1> QED
  BY <1>1, Invariance, PTL

------------------------------------------------------------------------------
(* Refinement.                                                              *)

Live == {h.gen : h \in held}
Called == [p \in Places |-> frame[p].gen]

(* What an unsubscribe of h is for the contract.                            *)
LEMMA StopStep ==
  ASSUME IInv, NEW h \in held, held' = held \ {h}
  PROVE  h.gen \in Live /\ h.gen \in Gens /\ Live' = Live \ {h.gen}
<1>1. \A g \in held \ {h} : g.gen # h.gen
  BY OneOwner, SameGeneration
<1> QED
  BY <1>1, OneOwner, Facts DEF Live

(* The provider implements the contract of h2_pal_system_event.h: Admit is  *)
(* the call, HandlerReturns its return, and an unsubscribe stops admission  *)
(* when it clears active and is finished when it returns.                   *)
THEOREM Refinement == Spec => ContractSpec
<1> USE DEF Contract!cvars, Contract!CNext, Contract!Subs, Contract!Quiet
<1>1. Init => Contract!CInit
  BY DEF Init, Contract!CInit, NoSub
<1>2. ASSUME IInv, [Next]_vars
      PROVE  [Contract!CNext]_Contract!cvars
  <2> USE <1>2, Facts DEF table, posts
  <2>1. CASE \/ UNCHANGED vars \/ PalInit \/ Spurious
             \/ \E t \in Threads :
                  \/ WaitAgain(t) \/ PostReturns(t)
                  \/ \E h \in Handles : Skip(t, h)
                  \/ \E y \in Types : Post(t, y)
    <3>1. UNCHANGED <<nextGeneration, held, done, frame>>
      BY <2>1, Zenon DEF vars, PalInit, Spurious, WaitAgain, PostReturns, Skip, Post
    <3> QED
      BY <3>1, Zenon
  <2>2. CASE Deinit \/ DeinitResume
    <3>1. PICK i \in Nat : /\ ScanWaits(i) \/ ScanClears(i)
                           /\ \A s \in Slots : s < i => ~Busy(s)
      <4>1. CASE Deinit
        BY <4>1 DEF Deinit, Slots
      <4>2. CASE DeinitResume
        BY <4>2, Zenon DEF DeinitResume, DeinitPassed, Busy, TypeOK
      <4> QED
        BY <2>2, <4>1, <4>2, Zenon
    <3>2. CASE ScanWaits(i)
      <4>1. UNCHANGED <<nextGeneration, held, done, frame>>
        BY <3>2, Zenon DEF ScanWaits
      <4> QED
        BY <4>1, Zenon
    <3>3. CASE ScanClears(i)
      <4>1. \A s \in Slots : inFlight[s] = 0
        BY <3>1, <3>3, SlotAssumption DEF ScanClears, Slots, Busy
      <4>2. \A p \in Places : frame[p] = NoSub
        BY <4>1, CountedNonzero, Zenon
      <4>3. \A g \in Live : \A p \in Places : Called[p] # g
        BY <4>2, OneOwner DEF Live, Called
      <4>4. Live' = {} /\ UNCHANGED <<nextGeneration, done, Called>>
        BY <3>3, Zenon DEF ScanClears, Live, Called
      <4> QED
        BY <4>3, <4>4, Zenon DEF Contract!CDeinit, Live, Called
    <3> QED
      BY <3>1, <3>2, <3>3, Zenon
  <2>3. ASSUME NEW t \in Threads, NEW h \in Handles, Admit(t, h)
        PROVE  Contract!CNext
    <3>1. /\ Top(t) \in Places /\ frame[Top(t)] = NoSub
          /\ active[h.slot] /\ generation[h.slot] = h.gen
          /\ frame' = [frame EXCEPT ![Top(t)] = h]
          /\ UNCHANGED <<nextGeneration, held, done>>
      BY <2>3, Zenon DEF Admit, Posting, Top
    <3>2. PICK g \in held : g.slot = h.slot
      BY <3>1, Zenon DEF Owners
    <3>3. h.gen \in Live
      BY <3>1, <3>2, OneOwner DEF Live
    <3>4. Called' = [Called EXCEPT ![Top(t)] = h.gen] /\ Called[Top(t)] = 0
      BY <3>1, Zenon DEF Called, TypeOK
    <3>5. Live' = Live
      BY <3>1, Zenon DEF Live
    <3> QED
      BY <3>1, <3>3, <3>4, <3>5, Zenon DEF Contract!CCall, Live, Called
  <2>4. ASSUME NEW t \in Threads, HandlerReturns(t)
        PROVE  Contract!CNext
    <3>1. /\ Top(t) \in Places /\ frame[Top(t)] # NoSub
          /\ frame' = [frame EXCEPT ![Top(t)] = NoSub]
          /\ UNCHANGED <<nextGeneration, held, done>>
      BY <2>4, Zenon DEF HandlerReturns, Running, InHandler, Top
    <3>2. Called[Top(t)] # 0
      BY <3>1, Zenon DEF Called
    <3>3. \A p \in Places : frame'[p] = IF p = Top(t) THEN NoSub ELSE frame[p]
      BY <3>1, Zenon DEF TypeOK
    <3>4. Called' = [Called EXCEPT ![Top(t)] = 0]
      <4>1. \A p \in Places : frame'[p].gen = IF p = Top(t) THEN 0 ELSE Called[p]
        BY <3>3, Zenon DEF Called
      <4> QED
        BY <3>1, <4>1, Zenon DEF Called
    <3> QED
      BY <3>1, <3>2, <3>4, Zenon DEF Contract!CReturn, Called
  <2>5. ASSUME NEW t \in Threads, NEW y \in Types, Subscribe(t, y)
        PROVE  Contract!CNext
    <3>1. PICK s \in Slots :
            held' = held \cup {[slot |-> s, gen |-> nextGeneration + 1]}
      BY <2>5, Zenon DEF Subscribe
    <3>2. Live' = Live \cup {nextGeneration + 1}
      <4> DEFINE n == [slot |-> s, gen |-> nextGeneration + 1]
      <4>1. n.gen = nextGeneration + 1
        BY Zenon
      <4>2. held' = held \cup {n}
        BY <3>1, Zenon
      <4> HIDE DEF n
      <4> QED
        BY <4>1, <4>2, Zenon DEF Live
    <3>3. nextGeneration' = nextGeneration + 1 /\ UNCHANGED <<done, frame>>
      BY <2>5, Zenon DEF Subscribe
    <3> QED
      BY <3>2, <3>3, Zenon DEF Contract!CSubscribe, Live
  <2>6. ASSUME NEW t \in Threads, NEW h \in Handles, Unsubscribe(t, h)
        PROVE  Contract!CNext
    <3>1. /\ h \in held /\ held' = held \ {h}
          /\ UNCHANGED <<nextGeneration, frame>>
      BY <2>6, Zenon DEF Unsubscribe, UnsubscribeSelf, UnsubscribeIdle,
         UnsubscribeWait, MayUnsubscribe
    <3>2. h.gen \in Live /\ h.gen \in Gens /\ Live' = Live \ {h.gen}
      BY <3>1, StopStep, Zenon
    <3>3. \/ UNCHANGED done
          \/ /\ done' = done \cup {h.gen}
             /\ \A p \in Places : Called[p] # h.gen
      <4>1. CASE UnsubscribeIdle(t, h)
        <5>1. inFlight[h.slot] = 0 /\ done' = done \cup {h.gen}
          BY <4>1, Zenon DEF UnsubscribeIdle
        <5>2. \A p \in Places : frame[p].slot # h.slot
          BY <5>1, CountedNonzero, Zenon
        <5>3. \A p \in Places : frame[p].gen # h.gen
          BY <3>1, <5>2, OneOwner, SameGeneration
        <5> QED
          BY <5>1, <5>3, Zenon DEF Called
      <4>2. CASE UnsubscribeSelf(t, h) \/ UnsubscribeWait(t, h)
        BY <4>2, Zenon DEF UnsubscribeSelf, UnsubscribeWait
      <4> QED
        BY <2>6, <4>1, <4>2, Zenon DEF Unsubscribe
    <3> QED
      BY <3>1, <3>2, <3>3, Zenon DEF Contract!CStop, Live, Called, Gens
  <2>7. ASSUME NEW t \in Threads, UnsubscribeReturns(t)
        PROVE  [Contract!CNext]_Contract!cvars
    <3>1. /\ wait[t] \in Handles /\ wait[t] # NoSub /\ inFlight[wait[t].slot] = 0
          /\ done' = done \cup {wait[t].gen}
          /\ UNCHANGED <<nextGeneration, held, frame>>
      BY <2>7, Zenon DEF UnsubscribeReturns
    <3>2. generation[wait[t].slot] = wait[t].gen /\ ~active[wait[t].slot]
      BY <3>1, Zenon DEF Owners, SlotOwned
    <3>3. \A p \in Places : frame[p].slot # wait[t].slot
      BY <3>1, CountedNonzero, Zenon
    <3>4. \A p \in Places : Called[p] # wait[t].gen
      BY <3>1, <3>2, <3>3, SameGeneration DEF Called
    <3>5. wait[t].gen \notin Live
      BY <3>1, <3>2, OneOwner, SameGeneration DEF Live
    <3>6. wait[t].gen \in Gens /\ wait[t].gen \in 1 .. nextGeneration
      BY <3>1, <3>2 DEF Owners, TypeOK, Gens
    <3>7. wait[t].gen \in done => UNCHANGED done
      BY <3>1, Zenon
    <3>8. CASE wait[t].gen \in done
      BY <3>1, <3>7, <3>8, Zenon
    <3>9. CASE wait[t].gen \notin done
      BY Zenon, <3>1, <3>4, <3>5, <3>6, <3>9
      DEF Contract!CUnsubscribed, Live, Called, Gens
    <3> QED
      BY <3>8, <3>9, Zenon
  <2> QED
    BY <2>1, <2>2, <2>3, <2>4, <2>5, <2>6, <2>7, Zenon DEF Next, Call, Waiter
<1> QED
  BY <1>1, <1>2, Invariance, PTL DEF Spec, ContractSpec, Contract!CSpec
==============================================================================
