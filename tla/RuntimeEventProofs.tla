-------------------------- MODULE RuntimeEventProofs --------------------------
(***************************************************************************)
(* Proofs about the event queue and its door, for any finite set of        *)
(* posters, any queue capacity and any number of calls.                    *)
(***************************************************************************)
EXTENDS RuntimeEvent, FiniteSetTheorems, TLAPS

(* The door is stored before the claims are read.                           *)
DoorBeforeRead ==
  /\ destroyPc \in Drained \cup {"readInFlight"} => doorClosed
  /\ \A p \in Posters : pc[p] = "backout" => doorClosed

(* Only a post takes a sequence and sends.                                  *)
NotifySendsNothing ==
  \A p \in Posters : op[p] = "notify" => pc[p] \notin {"resequence", "send"}

(* NoLostWakeup from the moment the main loop found the queue empty.        *)
WakePending ==
  consumerPc \in {"dispatch", "wait"} /\ queue # <<>> /\ wakeOpen =>
    wake = 1 \/ \E p \in Posters : pc[p] = "notify"

IInv ==
  /\ TypeOK /\ CountsClaims /\ NoAdmittedAfterDrain
  /\ DoorBeforeRead /\ NotifySendsNothing /\ WakePending /\ NoStrandedWork

------------------------------------------------------------------------------
(* The claims are a finite set.                                             *)
LEMMA ClaimsFinite ==
  IsFiniteSet(Claims) /\ Cardinality(Claims) \in Nat
<1>1. Claims \in SUBSET Posters
  BY DEF Claims
<1>2. IsFiniteSet(Claims)
  BY <1>1, PostersAssumption, FS_Subset
<1> QED
  BY <1>2, FS_CardinalityType

(* in_flight is at least one while somebody holds a claim: the fetch_sub of *)
(* a leave or a back-out does not wrap.                                     *)
LEMMA ClaimIsCounted ==
  ASSUME CountsClaims, NEW p \in Posters, pc[p] \in Claiming
  PROVE  inFlight \in Nat \ {0}
<1>1. p \in Claims
  BY DEF Claims
<1>2. Cardinality(Claims) # 0
  BY <1>1, ClaimsFinite, FS_EmptySet
<1> QED
  BY <1>2, ClaimsFinite DEF CountsClaims

(* A claim that is read as zero means that nobody is inside.                *)
LEMMA ZeroMeansNobody ==
  ASSUME CountsClaims, inFlight = 0
  PROVE  \A p \in Posters : pc[p] \notin Claiming
BY ClaimIsCounted

(* Initially the invariant holds.                                           *)
LEMMA InitInv ==
  ASSUME Init
  PROVE  IInv
<1> USE DEF Init
<1>1. TypeOK
  <2>1. 0 \in 0 .. SequenceModulus - 1 /\ 0 \in 0 .. MaxCalls
    BY CallsAssumption, ModulusAssumption
  <2>2. nextSequence \in 0 .. SequenceModulus - 1
    BY FirstAssumption
  <2>3. queue \in Seq(0 .. SequenceModulus - 1)
    OBVIOUS
  <2>4. inFlight \in Nat
    OBVIOUS
  <2>5. /\ pc \in [Posters -> PosterPcs]
        /\ op \in [Posters -> {"post", "notify"}]
        /\ sequence \in [Posters -> 0 .. SequenceModulus - 1]
        /\ calls \in [Posters -> 0 .. MaxCalls]
    BY <2>1 DEF PosterPcs
  <2> QED
    BY <2>2, <2>3, <2>4, <2>5, Zenon DEF TypeOK, DestroyPcs
<1>2. Claims = {}
  BY DEF Claims, Claiming
<1>3. CountsClaims
  BY <1>2, FS_EmptySet DEF CountsClaims
<1> QED
  BY <1>1, <1>3 DEF IInv, NoAdmittedAfterDrain, DoorBeforeRead, Drained,
     NotifySendsNothing, WakePending, NoStrandedWork

(* The sequence counter stays in its width.                                 *)
LEMMA SequenceWraps ==
  ASSUME NEW n \in 0 .. SequenceModulus - 1
  PROVE  (n + 1) % SequenceModulus \in 0 .. SequenceModulus - 1
BY ModulusAssumption

(* Types are kept by every step.                                            *)
LEMMA TypeStep ==
  ASSUME TypeOK, CountsClaims, [Next]_vars
  PROVE  TypeOK'
<1> USE DEF TypeOK, PosterPcs, DestroyPcs, queueVars, doorVars, posterVars, Goto
<1>1. CASE UNCHANGED vars
  BY <1>1 DEF vars
<1>2. ASSUME NEW p \in Posters, PostCall(p) \/ NotifyCall(p)
      PROVE  TypeOK'
  <2>1. calls[p] + 1 \in 0 .. MaxCalls
    BY <1>2, CallsAssumption DEF PostCall, NotifyCall
  <2>2. CASE PostCall(p)
    BY <2>1, <2>2 DEF PostCall
  <2>3. CASE NotifyCall(p)
    BY <2>1, <2>3 DEF NotifyCall
  <2> QED
    BY <1>2, <2>2, <2>3
<1>3. ASSUME NEW p \in Posters, Claim(p) \/ CheckDoor(p)
      PROVE  TypeOK'
  <2>1. CASE Claim(p)
    BY <2>1 DEF Claim
  <2>2. CASE CheckDoor(p)
    BY <2>2 DEF CheckDoor
  <2> QED
    BY <1>3, <2>1, <2>2
<1>4. ASSUME NEW p \in Posters, BackOut(p) \/ Leave(p)
      PROVE  TypeOK'
  <2>1. inFlight - 1 \in Nat
    BY <1>4, ClaimIsCounted DEF BackOut, Leave, Claiming
  <2>2. CASE BackOut(p)
    BY <2>1, <2>2 DEF BackOut
  <2>3. CASE Leave(p)
    BY <2>1, <2>3 DEF Leave
  <2> QED
    BY <1>4, <2>2, <2>3
<1>5. ASSUME NEW p \in Posters, TakeSequence(p)
      PROVE  TypeOK'
  BY <1>5, SequenceWraps, Zenon DEF TakeSequence
<1>6. ASSUME NEW p \in Posters, NotifyDirectly(p) \/ SendRefused(p) \/ Notify(p)
      PROVE  TypeOK'
  <2>1. 0 \in 0 .. SequenceModulus - 1
    BY ModulusAssumption
  <2>2. CASE NotifyDirectly(p)
    BY <2>2 DEF NotifyDirectly
  <2>3. CASE SendRefused(p)
    BY <2>1, <2>3 DEF SendRefused
  <2>4. CASE Notify(p)
    BY <2>4 DEF Notify
  <2> QED
    BY <1>6, <2>2, <2>3, <2>4
<1>7. ASSUME NEW p \in Posters, SendAccepted(p)
      PROVE  TypeOK'
  BY <1>7, ModulusAssumption DEF SendAccepted
<1>8. CASE Consumer
  <2>1. CASE PollEvent
    BY <2>1 DEF PollEvent
  <2>2. CASE PollEmpty
    BY <2>2 DEF PollEmpty
  <2>3. CASE DispatchWork
    BY <2>3, Zenon DEF DispatchWork
  <2>4. CASE WaitNotify
    BY <2>4 DEF WaitNotify
  <2> QED
    BY <1>8, <2>1, <2>2, <2>3, <2>4 DEF Consumer
<1>9. CASE DestroyBegin \/ Destroyer
  BY <1>9, Zenon DEF DestroyBegin, Destroyer, CloseQueue, CloseWake, StoreDoor,
     ReadInFlight, TearDown, DestroyStep
<1> QED
  BY <1>1, <1>2, <1>3, <1>4, <1>5, <1>6, <1>7, <1>8, <1>9
  DEF Next, Poster, Proceed

------------------------------------------------------------------------------
(* The counting invariant is kept by every step.                            *)
LEMMA CountsStep ==
  ASSUME TypeOK, CountsClaims, [Next]_vars
  PROVE  CountsClaims'
<1> USE DEF Claiming
<1>1. ASSUME Claims' = Claims, UNCHANGED inFlight
      PROVE  CountsClaims'
  BY <1>1 DEF CountsClaims
<1>2. CASE UNCHANGED vars
  BY <1>1, <1>2 DEF vars, posterVars, doorVars, Claims
<1>3. CASE Consumer \/ DestroyBegin \/ Destroyer
  <2>1. UNCHANGED <<pc, inFlight>>
    BY <1>3 DEF Consumer, PollEvent, PollEmpty, DispatchWork, WaitNotify,
       DestroyBegin, Destroyer, CloseQueue, CloseWake, StoreDoor,
       ReadInFlight, TearDown, posterVars, doorVars
  <2> QED
    BY <1>1, <2>1 DEF Claims
<1>4. ASSUME NEW p \in Posters,
             \/ PostCall(p) \/ NotifyCall(p) \/ CheckDoor(p)
             \/ TakeSequence(p) \/ NotifyDirectly(p) \/ SendAccepted(p)
             \/ SendRefused(p) \/ Notify(p)
      PROVE  CountsClaims'
  <2> DEFINE Holds(q) == pc[q] \in Claiming
  <2>1. \A q \in Posters : Holds(q)' <=> Holds(q)
    BY <1>4 DEF PostCall, NotifyCall, CheckDoor, TakeSequence,
       NotifyDirectly, SendAccepted, SendRefused, Notify, Goto, TypeOK
  <2>2. Claims' = Claims
    BY <2>1 DEF Claims
  <2>3. UNCHANGED inFlight
    BY <1>4 DEF PostCall, NotifyCall, CheckDoor, TakeSequence,
       NotifyDirectly, SendAccepted, SendRefused, Notify, doorVars
  <2> QED
    BY <1>1, <2>2, <2>3
<1>5. ASSUME NEW p \in Posters, Claim(p)
      PROVE  CountsClaims'
  <2>1. p \notin Claims /\ Claims' = Claims \cup {p}
    BY <1>5 DEF Claim, Claims, Goto, TypeOK
  <2>2. Cardinality(Claims \cup {p}) = Cardinality(Claims) + 1
    BY <2>1, ClaimsFinite, FS_AddElement
  <2> QED
    BY <1>5, <2>1, <2>2 DEF Claim, CountsClaims
<1>6. ASSUME NEW p \in Posters, BackOut(p) \/ Leave(p)
      PROVE  CountsClaims'
  <2>1. p \in Claims /\ Claims' = Claims \ {p}
    BY <1>6 DEF BackOut, Leave, Claims, Goto, TypeOK
  <2>2. Cardinality(Claims \ {p}) = Cardinality(Claims) - 1
    BY <2>1, ClaimsFinite, FS_RemoveElement
  <2> QED
    BY <1>6, <2>1, <2>2 DEF BackOut, Leave, CountsClaims
<1> QED
  BY <1>2, <1>3, <1>4, <1>5, <1>6 DEF Next, Poster, Proceed

------------------------------------------------------------------------------
(* The door: an admission needs an open door, the end of the drain a closed *)
(* one and nobody inside.                                                   *)
LEMMA DoorStep ==
  ASSUME IInv, [Next]_vars
  PROVE  NoAdmittedAfterDrain' /\ DoorBeforeRead'
<1> USE DEF IInv, NoAdmittedAfterDrain, DoorBeforeRead, Drained, Admitted, Goto
<1>1. CASE UNCHANGED vars
  BY <1>1 DEF vars, posterVars, doorVars
<1>2. ASSUME NEW p \in Posters, Poster(p)
      PROVE  NoAdmittedAfterDrain' /\ DoorBeforeRead'
  <2>1. UNCHANGED <<destroyPc, doorClosed>>
    BY <1>2 DEF Poster, Proceed, PostCall, NotifyCall, Claim, CheckDoor,
       BackOut, TakeSequence, NotifyDirectly, SendAccepted, SendRefused,
       Notify, Leave, doorVars
  <2>2. \A q \in Posters : q # p => pc'[q] = pc[q]
    BY <1>2 DEF Poster, Proceed, PostCall, NotifyCall, Claim, CheckDoor,
       BackOut, TakeSequence, NotifyDirectly, SendAccepted, SendRefused,
       Notify, Leave, TypeOK
  <2>3. pc'[p] = "backout" => doorClosed
    BY <1>2 DEF Poster, Proceed, PostCall, NotifyCall, Claim, CheckDoor,
       BackOut, TakeSequence, NotifyDirectly, SendAccepted, SendRefused,
       Notify, Leave, TypeOK
  <2>4. pc'[p] \in Admitted => pc[p] \in Admitted \/ ~doorClosed
    BY <1>2 DEF Poster, Proceed, PostCall, NotifyCall, Claim, CheckDoor,
       BackOut, TakeSequence, NotifyDirectly, SendAccepted, SendRefused,
       Notify, Leave, TypeOK
  <2> QED
    BY <2>1, <2>2, <2>3, <2>4
<1>3. CASE Consumer
  BY <1>3 DEF Consumer, PollEvent, PollEmpty, DispatchWork, WaitNotify,
     posterVars, doorVars
<1>4. CASE ReadInFlight
  <2>1. CASE inFlight = 0
    BY <1>4, <2>1, ZeroMeansNobody DEF ReadInFlight, DestroyStep, posterVars,
       doorVars, Claiming
  <2>2. CASE inFlight # 0
    BY <1>4, <2>2 DEF ReadInFlight, DestroyStep, posterVars, doorVars
  <2> QED
    BY <2>1, <2>2
<1>5. CASE DestroyBegin \/ CloseQueue \/ CloseWake \/ StoreDoor \/ TearDown
  BY <1>5 DEF DestroyBegin, CloseQueue, CloseWake, StoreDoor, TearDown,
     DestroyStep, posterVars, doorVars
<1> QED
  BY <1>1, <1>2, <1>3, <1>4, <1>5 DEF Next, Destroyer

(* A notify never sends, so it leaves only through the wake slot.           *)
LEMMA NotifyStep ==
  ASSUME IInv, [Next]_vars
  PROVE  NotifySendsNothing'
<1> USE DEF IInv, NotifySendsNothing, Goto, TypeOK
<1>1. CASE UNCHANGED <<pc, op>>
  BY <1>1
<1>2. ASSUME NEW p \in Posters, Poster(p)
      PROVE  NotifySendsNothing'
  BY <1>2 DEF Poster, Proceed, PostCall, NotifyCall, Claim, CheckDoor,
     BackOut, TakeSequence, NotifyDirectly, SendAccepted, SendRefused,
     Notify, Leave
<1>3. CASE Consumer \/ DestroyBegin \/ Destroyer
  BY <1>1, <1>3 DEF Consumer, PollEvent, PollEmpty, DispatchWork, WaitNotify,
     DestroyBegin, Destroyer, CloseQueue, CloseWake, StoreDoor, ReadInFlight,
     TearDown, posterVars
<1> QED
  BY <1>1, <1>2, <1>3 DEF Next, vars, posterVars

(* The wake protocol: a queued event is followed by a token.                *)
LEMMA WakeStep ==
  ASSUME IInv, [Next]_vars
  PROVE  WakePending'
<1> USE DEF IInv, WakePending, TypeOK, Goto, queueVars, posterVars
<1>1. CASE UNCHANGED vars
  BY <1>1 DEF vars
<1>2. ASSUME NEW p \in Posters,
             \/ PostCall(p) \/ NotifyCall(p) \/ Claim(p) \/ CheckDoor(p)
             \/ BackOut(p) \/ TakeSequence(p) \/ NotifyDirectly(p)
             \/ SendRefused(p) \/ Leave(p)
      PROVE  WakePending'
  <2>1. UNCHANGED <<queueVars, consumerPc>>
    BY <1>2 DEF PostCall, NotifyCall, Claim, CheckDoor, BackOut,
       TakeSequence, NotifyDirectly, SendRefused, Leave
  <2>2. \A q \in Posters : pc[q] = "notify" => pc'[q] = "notify"
    BY <1>2 DEF PostCall, NotifyCall, Claim, CheckDoor, BackOut,
       TakeSequence, NotifyDirectly, SendRefused, Leave
  <2> QED
    BY <2>1, <2>2
<1>3. ASSUME NEW p \in Posters, SendAccepted(p)
      PROVE  WakePending'
  BY <1>3 DEF SendAccepted
<1>4. ASSUME NEW p \in Posters, Notify(p)
      PROVE  WakePending'
  BY <1>4 DEF Notify
<1>5. CASE Consumer
  BY <1>5, Zenon DEF Consumer, PollEvent, PollEmpty, DispatchWork, WaitNotify
<1>6. CASE DestroyBegin \/ Destroyer
  BY <1>6, Zenon DEF DestroyBegin, Destroyer, CloseQueue, CloseWake, StoreDoor,
     ReadInFlight, TearDown
<1> QED
  BY <1>1, <1>2, <1>3, <1>4, <1>5, <1>6 DEF Next, Poster, Proceed

(* The same for the libraries' work.                                        *)
LEMMA WorkStep ==
  ASSUME IInv, [Next]_vars
  PROVE  NoStrandedWork'
<1> USE DEF IInv, NoStrandedWork, TypeOK, Goto, queueVars, doorVars, posterVars
<1>1. CASE UNCHANGED vars
  BY <1>1 DEF vars
<1>2. ASSUME NEW p \in Posters, NotifyCall(p)
      PROVE  NoStrandedWork'
  BY <1>2 DEF NotifyCall
<1>3. ASSUME NEW p \in Posters,
             \/ PostCall(p) \/ Claim(p) \/ CheckDoor(p) \/ BackOut(p)
             \/ TakeSequence(p) \/ NotifyDirectly(p) \/ SendAccepted(p)
             \/ SendRefused(p) \/ Leave(p)
      PROVE  NoStrandedWork'
  <2>1. UNCHANGED <<wake, wakeOpen, consumerPc, work, doorClosed>>
    BY <1>3 DEF PostCall, Claim, CheckDoor, BackOut, TakeSequence,
       NotifyDirectly, SendAccepted, SendRefused, Leave
  <2>2. ASSUME NEW q \in Posters, op[q] = "notify", ~doorClosed,
               pc[q] \notin {"idle", "leave"}
        PROVE  op'[q] = "notify" /\ pc'[q] \notin {"idle", "leave"}
    BY <1>3, <2>2 DEF PostCall, Claim, CheckDoor, BackOut, TakeSequence,
       NotifyDirectly, SendAccepted, SendRefused, Leave, DoorBeforeRead,
       NotifySendsNothing
  <2> QED
    BY <2>1, <2>2
<1>4. ASSUME NEW p \in Posters, Notify(p)
      PROVE  NoStrandedWork'
  BY <1>4 DEF Notify
<1>5. CASE Consumer
  BY <1>5 DEF Consumer, PollEvent, PollEmpty, DispatchWork, WaitNotify
<1>6. CASE DestroyBegin \/ Destroyer
  BY <1>6, Zenon DEF DestroyBegin, Destroyer, CloseQueue, CloseWake, StoreDoor,
     ReadInFlight, TearDown
<1> QED
  BY <1>1, <1>2, <1>3, <1>4, <1>5, <1>6 DEF Next, Poster, Proceed

------------------------------------------------------------------------------
(* The invariant of the event queue and its door.                           *)
THEOREM Invariance == Spec => []IInv
<1>1. Init => IInv
  BY InitInv
<1>2. IInv /\ [Next]_vars => IInv'
  <2> SUFFICES ASSUME IInv, [Next]_vars
               PROVE  IInv'
    OBVIOUS
  <2>1. TypeOK'
    BY TypeStep DEF IInv
  <2>2. CountsClaims'
    BY CountsStep DEF IInv
  <2> QED
    BY <2>1, <2>2, DoorStep, NotifyStep, WakeStep, WorkStep DEF IInv
<1> QED
  BY <1>1, <1>2, PTL DEF Spec

(* The state stays well typed; in particular fetch_sub never wraps.         *)
THEOREM TypeCorrect == Spec => []TypeOK
<1>1. IInv => TypeOK
  BY DEF IInv
<1> QED
  BY <1>1, Invariance, PTL

(* custom_event_in_flight counts the claims, for any number of posters.     *)
THEOREM ClaimsExact == Spec => []CountsClaims
<1>1. IInv => CountsClaims
  BY DEF IInv
<1> QED
  BY <1>1, Invariance, PTL

(* The drain of custom_event_close leaves no admitted call behind.          *)
THEOREM DrainComplete == Spec => []NoAdmittedAfterDrain
<1>1. IInv => NoAdmittedAfterDrain
  BY DEF IInv
<1> QED
  BY <1>1, Invariance, PTL

(* No interleaving of sends, tokens and the main loop loses a wake-up.      *)
THEOREM WakeupsKept == Spec => []NoLostWakeup
<1>1. IInv => NoLostWakeup
  BY DEF IInv, WakePending, NoLostWakeup
<1> QED
  BY <1>1, Invariance, PTL

(* h2_runtime_notify never strands the work it announces.                   *)
THEOREM WorkAnnounced == Spec => []NoStrandedWork
<1>1. IInv => NoStrandedWork
  BY DEF IInv
<1> QED
  BY <1>1, Invariance, PTL

------------------------------------------------------------------------------
(* The order of the sequence numbers.                                       *)

(* The sequences that may still be taken: two by a post that has not taken  *)
(* one, since it may meet the 0, and two by each call to come.              *)
Spare(p) ==
  IF op[p] # "post" THEN 0
  ELSE IF pc[p] \in {"called", "claimed", "admitted"} THEN 2
  ELSE IF pc[p] = "resequence" THEN 1 ELSE 0
Left(p) == 2 * (MaxCalls - calls[p]) + Spare(p)
Tickets == {x \in Posters \X (1 .. 2 * MaxCalls) : x[2] <= Left(x[1])}
Budget == 2 * MaxCalls * Cardinality(Posters)

(* How far the counter n has gone past the sequence s.                      *)
Gap(n, s) == IF s <= n THEN n - s ELSE n + SequenceModulus - s

(* The counter is past every sequence in use, and what it may still run     *)
(* leaves it within the budget; the same for a post that drew the 0.        *)
Within(s, bound) ==
  /\ Gap(nextSequence, s) >= 1
  /\ Gap(nextSequence, s) + Cardinality(Tickets) <= bound
SequenceInv ==
  /\ \A p \in Posters : pc[p] # "idle" => calls[p] # 0
  /\ \A s \in Outstanding : s # 0 /\ Within(s, Budget - 1)
  /\ \A p \in Posters : pc[p] = "resequence" => Within(0, Budget)

(* Two sequences for every call of every poster.                            *)
LEMMA TicketsBounded ==
  /\ IsFiniteSet(Tickets) /\ Cardinality(Tickets) \in Nat
  /\ Cardinality(Tickets) <= Budget
  /\ Budget \in Nat /\ 2 * Budget < SequenceModulus
<1> DEFINE A == Posters \X (1 .. 2 * MaxCalls)
<1>1. MaxCalls \in Nat /\ 2 * MaxCalls \in Nat /\ Cardinality(Posters) \in Nat
  BY CallsAssumption, PostersAssumption, FS_CardinalityType
<1>2. /\ IsFiniteSet(1 .. 2 * MaxCalls)
      /\ Cardinality(1 .. 2 * MaxCalls) = 2 * MaxCalls
  BY <1>1, FS_Interval
<1>3. IsFiniteSet(A) /\ Cardinality(A) = Cardinality(Posters) * (2 * MaxCalls)
  BY <1>2, PostersAssumption, FS_Product
<1>4. Tickets \in SUBSET A
  BY DEF Tickets
<1>5. IsFiniteSet(Tickets) /\ Cardinality(Tickets) <= Cardinality(A)
  BY <1>3, <1>4, FS_Subset, Zenon
<1>6. Cardinality(Tickets) \in Nat
  BY <1>5, FS_CardinalityType
<1>7. Budget \in Nat /\ Cardinality(A) = Budget
  BY <1>1, <1>3 DEF Budget
<1>8. 2 * Budget < SequenceModulus
  BY <1>1, ModulusAssumption DEF Budget
<1> QED
  BY <1>5, <1>6, <1>7, <1>8

(* Taking one or two elements away.                                         *)
LEMMA FewerTickets ==
  ASSUME NEW S, IsFiniteSet(S), Cardinality(S) \in Nat, NEW T \in SUBSET S
  PROVE  /\ \A a \in S : a \notin T => Cardinality(T) <= Cardinality(S) - 1
         /\ \A a, b \in S : a # b /\ a \notin T /\ b \notin T =>
              Cardinality(T) <= Cardinality(S) - 2
<1>1. ASSUME NEW a \in S, a \notin T
      PROVE  Cardinality(T) <= Cardinality(S) - 1
  <2>1. IsFiniteSet(S \ {a}) /\ Cardinality(S \ {a}) = Cardinality(S) - 1
    BY FS_RemoveElement
  <2>2. T \in SUBSET (S \ {a})
    BY <1>1
  <2>3. Cardinality(T) <= Cardinality(S \ {a})
    BY <2>1, <2>2, FS_Subset, Zenon
  <2> QED
    BY <2>1, <2>3
<1>2. ASSUME NEW a \in S, NEW b \in S, a # b, a \notin T, b \notin T
      PROVE  Cardinality(T) <= Cardinality(S) - 2
  <2> DEFINE U == S \ {a}
             V == U \ {b}
  <2>1. IsFiniteSet(U) /\ Cardinality(U) = Cardinality(S) - 1
    BY FS_RemoveElement
  <2>2. b \in U
    BY <1>2
  <2> HIDE DEF U
  <2>3. IsFiniteSet(V) /\ Cardinality(V) = Cardinality(U) - 1
    BY <2>1, <2>2, FS_RemoveElement
  <2>4. T \in SUBSET V
    BY <1>2 DEF U
  <2>5. Cardinality(T) <= Cardinality(V)
    BY <2>3, <2>4, FS_Subset, Zenon
  <2> HIDE DEF V
  <2> QED
    BY <2>1, <2>3, <2>5
<1> QED
  BY <1>1, <1>2, Zenon

(* One more sequence is issued.                                             *)
LEMMA CounterMoves ==
  ASSUME NEW n \in 0 .. SequenceModulus - 1
  PROVE  (n + 1) % SequenceModulus =
           IF n = SequenceModulus - 1 THEN 0 ELSE n + 1
BY ModulusAssumption

(* What a remainder is, for the distances of h2_runtime_sequence_after.     *)
LEMMA CounterWraps ==
  ASSUME NEW n \in 0 .. SequenceModulus - 1
  PROVE  /\ n % SequenceModulus = n
         /\ (n + SequenceModulus) % SequenceModulus = n
BY ModulusAssumption

(* The counter is one further from a sequence in use.                       *)
LEMMA GapMoves ==
  ASSUME NEW n \in 0 .. SequenceModulus - 1, NEW s \in 0 .. SequenceModulus - 1,
         Gap(n, s) >= 1, Gap(n, s) <= Budget
  PROVE  Gap((n + 1) % SequenceModulus, s) = Gap(n, s) + 1
<1>1. Budget \in Nat /\ 2 * Budget < SequenceModulus /\ SequenceModulus \in Nat
  BY TicketsBounded, ModulusAssumption
<1>2. CASE n = SequenceModulus - 1
  BY <1>1, <1>2, CounterMoves DEF Gap
<1>3. CASE n # SequenceModulus - 1
  BY <1>1, <1>3, CounterMoves DEF Gap
<1> QED
  BY <1>2, <1>3

(* What is in use is a value of the counter.                                *)
LEMMA OutstandingType ==
  ASSUME TypeOK, NEW s \in Outstanding
  PROVE  s \in 0 .. SequenceModulus - 1
<1> DEFINE V == 0 .. SequenceModulus - 1
<1>1. queue \in Seq(V) /\ sequence \in [Posters -> V]
  BY DEF TypeOK
<1> HIDE DEF V
<1>2. \A i \in DOMAIN queue : queue[i] \in V
  BY <1>1
<1>3. \A q \in Posters : sequence[q] \in V
  BY <1>1
<1> QED
  BY <1>2, <1>3, Zenon DEF Outstanding, V

(* What a poster may still take.                                            *)
LEMMA LeftType ==
  ASSUME TypeOK, NEW p \in Posters
  PROVE  Left(p) \in Nat
<1>1. calls[p] \in 0 .. MaxCalls /\ Spare(p) \in {0, 1, 2}
  BY DEF TypeOK, Spare
<1> QED
  BY <1>1, CallsAssumption DEF Left

(* A step that takes no sequence.                                           *)
LEMMA QuietStep ==
  ASSUME TypeOK, TypeOK', SequenceInv, UNCHANGED nextSequence,
         Outstanding' \subseteq Outstanding,
         \A q \in Posters : Left(q)' <= Left(q),
         \A q \in Posters : /\ pc'[q] = "resequence" => pc[q] = "resequence"
                            /\ pc'[q] # "idle" => calls'[q] # 0
  PROVE  SequenceInv'
<1>1. Tickets' \in SUBSET Tickets
  <2> SUFFICES ASSUME NEW q \in Posters, NEW k \in 1 .. 2 * MaxCalls,
                      k <= Left(q)'
               PROVE  k <= Left(q)
    BY DEF Tickets
  <2>1. Left(q) \in Nat /\ Left(q)' \in Nat
    <3>1. calls'[q] \in 0 .. MaxCalls /\ Spare(q)' \in {0, 1, 2}
      BY DEF TypeOK, Spare
    <3> QED
      BY <3>1, LeftType, CallsAssumption DEF Left
  <2> QED
    BY <2>1, CallsAssumption
<1>2. /\ Cardinality(Tickets') <= Cardinality(Tickets)
      /\ Cardinality(Tickets) \in Nat /\ Cardinality(Tickets') \in Nat
      /\ Budget \in Nat
  <2>1. IsFiniteSet(Tickets) /\ Cardinality(Tickets) \in Nat /\ Budget \in Nat
    BY TicketsBounded
  <2>2. IsFiniteSet(Tickets') /\ Cardinality(Tickets') <= Cardinality(Tickets)
    BY <1>1, <2>1, FS_Subset, Zenon
  <2>3. Cardinality(Tickets') \in Nat
    BY <2>2, FS_CardinalityType
  <2> QED
    BY <2>1, <2>2, <2>3
<1>3. \A s \in Outstanding \cup {0} : Gap(nextSequence, s) \in Int
  BY ModulusAssumption DEF TypeOK, Outstanding, Gap
<1>4. ASSUME NEW s \in Outstanding \cup {0}, NEW b \in Int, Within(s, b)
      PROVE  Within(s, b)'
  BY <1>2, <1>3, <1>4 DEF Within
<1> QED
  BY <1>2, <1>4 DEF SequenceInv

(* What a step that takes the sequence n does to the tickets and to the     *)
(* sequences in use.                                                        *)
LEMMA TakeSpends ==
  ASSUME TypeOK, SequenceInv, NEW p \in Posters, TakeSequence(p)
  PROVE  /\ Tickets' \in SUBSET Tickets
         /\ <<p, Left(p)>> \in Tickets \ Tickets'
         /\ pc'[p] = "send" /\ pc[p] = "admitted" =>
              <<p, Left(p) - 1>> \in Tickets \ Tickets'
<1>1. /\ calls[p] \in 1 .. MaxCalls /\ op[p] = "post" /\ op' = op
      /\ calls' = calls /\ pc' \in [Posters -> PosterPcs]
  BY CallsAssumption DEF TypeOK, SequenceInv, TakeSequence, Goto, PosterPcs
<1>2. \A q \in Posters : q # p => Left(q)' = Left(q)
  BY <1>1 DEF Left, Spare, TakeSequence, Goto, TypeOK
<1>3. /\ pc[p] = "admitted" => Spare(p) = 2
      /\ pc[p] = "resequence" => Spare(p) = 1
      /\ pc'[p] = "resequence" => Spare(p)' = 1
      /\ pc'[p] = "send" => Spare(p)' = 0
  BY <1>1 DEF Spare
<1>4. /\ pc[p] \in {"admitted", "resequence"}
      /\ pc[p] = "resequence" => pc'[p] = "send"
      /\ pc'[p] \in {"send", "resequence"}
  BY DEF TakeSequence, Goto, TypeOK
<1> DEFINE l == Left(p)
           m == Left(p)'
<1>5. /\ l \in 1 .. 2 * MaxCalls /\ m \in Nat /\ m <= l - 1
      /\ pc'[p] = "send" /\ pc[p] = "admitted" =>
           m <= l - 2 /\ l - 1 \in 1 .. 2 * MaxCalls
  BY <1>1, <1>3, <1>4, CallsAssumption DEF Left
<1>6. \A k \in 1 .. 2 * MaxCalls :
        /\ <<p, k>> \in Tickets <=> k <= l
        /\ <<p, k>> \in Tickets' <=> k <= m
  BY DEF Tickets
<1>7. \A q \in Posters : q # p => \A k \in 1 .. 2 * MaxCalls :
        <<q, k>> \in Tickets' => <<q, k>> \in Tickets
  BY <1>2 DEF Tickets
<1> HIDE DEF l, m
<1>8. \A k \in 1 .. 2 * MaxCalls : <<p, k>> \in Tickets' => <<p, k>> \in Tickets
  BY <1>5, <1>6, CallsAssumption
<1>9. Tickets' \in SUBSET Tickets
  <2>1. \A x \in Tickets' : /\ x = <<x[1], x[2]>> /\ x[1] \in Posters
                            /\ x[2] \in 1 .. 2 * MaxCalls
    BY DEF Tickets
  <2> QED
    BY <1>7, <1>8, <2>1, Zenon
<1>10. /\ <<p, l>> \in Tickets \ Tickets'
       /\ pc'[p] = "send" /\ pc[p] = "admitted" =>
            <<p, l - 1>> \in Tickets \ Tickets'
  BY <1>5, <1>6, CallsAssumption
<1> QED
  BY <1>9, <1>10, Zenon DEF l

(* h2_runtime_next_sequence keeps the distances: the counter moves by one   *)
(* and a ticket is spent; the 0 costs a second one.                         *)
LEMMA TakeStep ==
  ASSUME TypeOK, SequenceInv, NEW p \in Posters, TakeSequence(p)
  PROVE  SequenceInv'
<1> PICK n \in 0 .. SequenceModulus - 1 : n = nextSequence
  BY DEF TypeOK
<1> DEFINE R == Cardinality(Tickets)
           S == Cardinality(Tickets')
<1>1. /\ n \in 0 .. SequenceModulus - 1 /\ SequenceModulus \in Nat
      /\ nextSequence' = (n + 1) % SequenceModulus
      /\ R \in Nat /\ R <= Budget /\ Budget \in Nat
      /\ 2 * Budget < SequenceModulus
  BY TicketsBounded, ModulusAssumption DEF TypeOK, TakeSequence
<1>2. /\ S \in Nat /\ S <= R - 1
      /\ pc'[p] = "send" /\ pc[p] = "admitted" => S <= R - 2
  <2>1. IsFiniteSet(Tickets) /\ Cardinality(Tickets) \in Nat
    BY TicketsBounded
  <2>2. /\ Tickets' \in SUBSET Tickets /\ <<p, Left(p)>> \in Tickets \ Tickets'
        /\ pc'[p] = "send" /\ pc[p] = "admitted" =>
              <<p, Left(p) - 1>> \in Tickets \ Tickets'
    BY TakeSpends
  <2>3. IsFiniteSet(Tickets')
    BY <2>1, <2>2, FS_Subset, Zenon
  <2>4. S \in Nat
    BY <2>3, FS_CardinalityType
  <2>5. S <= R - 1
    BY <2>1, <2>2, FewerTickets, Zenon
  <2>6. <<p, Left(p)>> # <<p, Left(p) - 1>>
    BY LeftType
  <2>7. pc'[p] = "send" /\ pc[p] = "admitted" => S <= R - 2
    BY <2>1, <2>2, <2>6, FewerTickets, Zenon
  <2> QED
    BY <2>4, <2>5, <2>7
<1>3. /\ \A s \in Outstanding : s \in 0 .. SequenceModulus - 1
      /\ \A s \in Outstanding' : s \in Outstanding \/ (s = n /\ pc'[p] = "send")
      /\ \A q \in Posters : q # p => pc'[q] = pc[q]
      /\ pc[p] # "idle" /\ UNCHANGED calls
  <2>1. /\ UNCHANGED <<queue, calls>> /\ pc[p] # "idle" /\ sequence'[p] = n
        /\ \A q \in Posters : q # p => pc'[q] = pc[q]
                                     /\ sequence'[q] = sequence[q]
    BY DEF TakeSequence, Goto, TypeOK, queueVars
  <2>2. \A s \in Outstanding : s \in 0 .. SequenceModulus - 1
    BY OutstandingType
  <2>3. \A s \in Outstanding' : s \in Outstanding \/ (s = n /\ pc'[p] = "send")
    BY <2>1, Zenon DEF Outstanding
  <2> QED
    BY <2>1, <2>2, <2>3, Zenon
<1>4. /\ pc'[p] = "send" \/ (pc'[p] = "resequence" /\ n = 0)
      /\ pc'[p] = "send" => n # 0 \/ pc[p] = "resequence"
      /\ pc[p] = "admitted" \/ pc[p] = "resequence"
  BY DEF TakeSequence, Goto, TypeOK
<1> HIDE DEF R, S
<1>5. ASSUME NEW s \in 0 .. SequenceModulus - 1, NEW b \in {Budget - 1, Budget},
             Within(s, b)
      PROVE  Within(s, b)'
  <2>1. /\ Gap(n, s) \in Int /\ Gap(n, s) >= 1 /\ Gap(n, s) + R <= b
    BY <1>1, <1>5 DEF Within, Gap, R
  <2>2. Gap(n, s) <= Budget
    BY <1>1, <2>1
  <2>3. Gap(nextSequence', s) = Gap(n, s) + 1
    BY <1>1, <2>1, <2>2, GapMoves
  <2>4. Gap(nextSequence', s) >= 1 /\ Gap(nextSequence', s) + S <= b
    BY <1>1, <1>2, <2>1, <2>3
  <2> QED
    BY <2>4 DEF Within, S
<1>6. ASSUME n # 0, pc'[p] = "send"
      PROVE  Within(n, Budget - 1)'
  <2>1. Gap(nextSequence', n) = 1
    BY <1>1, <1>6, CounterMoves DEF Gap
  <2>2. S <= Budget - 2
    <3>1. CASE pc[p] = "admitted"
      BY <3>1, <1>1, <1>2, <1>6
    <3>2. CASE pc[p] = "resequence"
      <4>1. n >= 1 /\ n + R <= Budget
        BY <3>2, <1>1 DEF SequenceInv, Within, Gap, R
      <4> QED
        BY <4>1, <1>1, <1>2
    <3> QED
      BY <3>1, <3>2, <1>4
  <2>3. 1 + S <= Budget - 1
    BY <1>1, <1>2, <2>2
  <2> QED
    BY <2>1, <2>3 DEF Within, S
<1>7. pc'[p] = "send" => n # 0
  BY <1>1, <1>4 DEF SequenceInv, Within, Gap
<1>8. ASSUME pc'[p] = "resequence"
      PROVE  Within(0, Budget)'
  <2>1. n = 0 /\ nextSequence' = 1
    BY <1>1, <1>2, <1>4, <1>8, CounterMoves
  <2>2. Gap(nextSequence', 0) = 1
    BY <2>1 DEF Gap
  <2>3. 1 + S <= Budget
    BY <1>1, <1>2
  <2> QED
    BY <2>2, <2>3 DEF Within, S
<1>9. \A s \in Outstanding' : s # 0 /\ Within(s, Budget - 1)'
  <2>1. ASSUME NEW s \in Outstanding
        PROVE  s # 0 /\ Within(s, Budget - 1)'
    BY <1>3, <1>5, Zenon DEF SequenceInv
  <2> QED
    BY <1>3, <1>6, <1>7, <2>1, Zenon
<1>10. ASSUME NEW q \in Posters, pc'[q] = "resequence"
       PROVE  Within(0, Budget)'
  <2>1. 0 \in 0 .. SequenceModulus - 1
    BY <1>1
  <2>2. CASE q # p
    BY <1>3, <1>5, <1>10, <2>1, <2>2, Zenon DEF SequenceInv
  <2> QED
    BY <1>8, <1>10, <2>2, Zenon
<1>11. \A q \in Posters : pc'[q] # "idle" => calls'[q] # 0
  BY <1>3, Zenon DEF SequenceInv
<1> QED
  BY <1>9, <1>10, <1>11, Zenon DEF SequenceInv

(* No other step takes a sequence or puts one to use.                       *)
LEMMA SequenceStep ==
  ASSUME TypeOK, TypeOK', SequenceInv, [Next]_vars
  PROVE  SequenceInv'
<1> USE DEF queueVars, doorVars, posterVars, Goto
<1>1. ASSUME UNCHANGED <<queue, nextSequence, pc, op, sequence, calls>>
      PROVE  SequenceInv'
  <2>1. \A q \in Posters : Left(q)' = Left(q) /\ Left(q) \in Nat
    BY <1>1, LeftType DEF Left, Spare
  <2>2. Outstanding' \subseteq Outstanding
    BY <1>1 DEF Outstanding
  <2> QED
    BY <1>1, <2>1, <2>2, QuietStep DEF SequenceInv
<1>2. CASE UNCHANGED vars
  BY <1>1, <1>2 DEF vars
<1>3. CASE PollEmpty \/ DispatchWork \/ WaitNotify \/ DestroyBegin \/ Destroyer
  BY <1>1, <1>3, Zenon DEF PollEmpty, DispatchWork, WaitNotify, DestroyBegin,
     Destroyer, CloseQueue, CloseWake, StoreDoor, ReadInFlight, TearDown
<1>4. CASE PollEvent
  <2>1. \A q \in Posters : Left(q)' = Left(q) /\ Left(q) \in Nat
    BY <1>4, LeftType DEF PollEvent, Left, Spare
  <2>2. \A i \in DOMAIN Tail(queue) :
          i + 1 \in DOMAIN queue /\ Tail(queue)[i] = queue[i + 1]
    BY <1>4 DEF PollEvent, TypeOK
  <2>3. Outstanding' \subseteq Outstanding
    BY <1>4, <2>2, Zenon DEF PollEvent, Outstanding
  <2>4. UNCHANGED <<nextSequence, pc, calls>>
    BY <1>4 DEF PollEvent
  <2> QED
    BY <2>1, <2>3, <2>4, QuietStep DEF SequenceInv
<1>5. ASSUME NEW p \in Posters, Poster(p), ~TakeSequence(p)
      PROVE  SequenceInv'
  <2>1. UNCHANGED nextSequence
    BY <1>5, Zenon DEF Poster, Proceed, PostCall, NotifyCall, Claim, CheckDoor,
       BackOut, NotifyDirectly, SendAccepted, SendRefused, Notify, Leave
  <2>2. ASSUME NEW q \in Posters, q # p
        PROVE  /\ pc'[q] = pc[q] /\ op'[q] = op[q]
               /\ sequence'[q] = sequence[q] /\ calls'[q] = calls[q]
    BY <1>5, <2>2 DEF Poster, Proceed, PostCall, NotifyCall, Claim, CheckDoor,
       BackOut, NotifyDirectly, SendAccepted, SendRefused, Notify, Leave,
       TypeOK
  <2>3. /\ pc'[p] \notin {"resequence", "send"}
        /\ pc'[p] # "idle" => calls'[p] # 0
    BY <1>5, CallsAssumption DEF Poster, Proceed, PostCall, NotifyCall, Claim,
       CheckDoor, BackOut, NotifyDirectly, SendAccepted, SendRefused, Notify,
       Leave, TypeOK, SequenceInv
  <2>4. Left(p)' <= Left(p)
    <3>1. CASE PostCall(p) \/ NotifyCall(p)
      <4>1. /\ calls'[p] = calls[p] + 1 /\ calls[p] \in 0 .. MaxCalls
            /\ pc[p] = "idle" /\ pc'[p] = "called"
        BY <3>1 DEF PostCall, NotifyCall, TypeOK
      <4>2. Spare(p) = 0 /\ Spare(p)' \in {0, 2}
        BY <4>1 DEF Spare
      <4> QED
        BY <4>1, <4>2, CallsAssumption DEF Left
    <3>2. CASE Proceed(p)
      <4>1. calls'[p] = calls[p] /\ calls[p] \in 0 .. MaxCalls /\ op'[p] = op[p]
        BY <1>5, <3>2 DEF Proceed, Claim, CheckDoor, BackOut, NotifyDirectly,
           SendAccepted, SendRefused, Notify, Leave, TypeOK
      <4>2. Spare(p)' <= Spare(p) /\ Spare(p) \in 0 .. 2 /\ Spare(p)' \in 0 .. 2
        BY <1>5, <3>2, <4>1 DEF Proceed, Claim, CheckDoor, BackOut,
           NotifyDirectly, SendAccepted, SendRefused, Notify, Leave, TypeOK,
           Spare
      <4> QED
        BY <4>1, <4>2, CallsAssumption DEF Left
    <3> QED
      BY <1>5, <3>1, <3>2 DEF Poster
  <2>5. \A q \in Posters : Left(q)' <= Left(q)
    <3>1. \A q \in Posters : q # p => Left(q)' = Left(q) /\ Left(q) \in Nat
      BY <2>2, LeftType DEF Left, Spare
    <3> QED
      BY <2>4, <3>1
  <2>6. Outstanding' \subseteq Outstanding
    <3>1. CASE UNCHANGED queue
      BY <2>2, <2>3, <3>1, Zenon DEF Outstanding
    <3>2. CASE SendAccepted(p)
      <4>1. pc[p] = "send" /\ queue \in Seq(0 .. SequenceModulus - 1)
            /\ queue' = Append(queue, sequence[p])
        BY <3>2 DEF SendAccepted, TypeOK
      <4>2. \A i \in DOMAIN queue' :
              (i \in DOMAIN queue /\ queue'[i] = queue[i])
              \/ queue'[i] = sequence[p]
        BY <4>1
      <4>3. \A i \in DOMAIN queue' : queue'[i] \in Outstanding
        BY <4>1, <4>2, Zenon DEF Outstanding
      <4>4. \A q \in Posters : pc'[q] = "send" => sequence'[q] \in Outstanding
        BY <2>2, <2>3, Zenon DEF Outstanding
      <4> QED
        BY <4>3, <4>4, Zenon DEF Outstanding
    <3> QED
      BY <1>5, <3>1, <3>2 DEF Poster, Proceed, PostCall, NotifyCall, Claim,
         CheckDoor, BackOut, NotifyDirectly, SendRefused, Notify, Leave
  <2> QED
    BY <2>1, <2>2, <2>3, <2>5, <2>6, QuietStep DEF SequenceInv
<1> QED
  BY <1>2, <1>3, <1>4, <1>5, TakeStep DEF Next, Poster, Proceed, Consumer

(* The invariant orders the sequences: half the counter's range is more     *)
(* than the budget.                                                         *)
LEMMA InvOrders ==
  ASSUME TypeOK, SequenceInv
  PROVE  SequencesOrdered
<1> SUFFICES ASSUME NEW s \in Outstanding
             PROVE  SequenceAfter(IF nextSequence = 0 THEN 1 ELSE nextSequence,
                                  s)
  BY DEF SequencesOrdered, SequenceInv
<1> DEFINE n == nextSequence
           g == Gap(n, s)
<1>1. /\ n \in 0 .. SequenceModulus - 1 /\ SequenceModulus \in Nat
      /\ Budget \in Nat /\ 2 * Budget < SequenceModulus
      /\ Cardinality(Tickets) \in Nat
  BY TicketsBounded, ModulusAssumption DEF TypeOK
<1>2. s \in 1 .. SequenceModulus - 1
  <2>1. s \in 0 .. SequenceModulus - 1 /\ s # 0
    BY OutstandingType, Zenon DEF SequenceInv
  <2> QED
    BY <2>1, <1>1
<1>3. g \in Int /\ g >= 1 /\ g <= Budget - 1
  BY <1>1, <1>2 DEF SequenceInv, Within, Gap
<1>4. g + 1 <= (SequenceModulus - 1) \div 2
  BY <1>1, <1>3
<1>5. CASE n = 0
  <2>1. 1 + SequenceModulus - s = g + 1 /\ g + 1 \in 0 .. SequenceModulus - 1
    BY <1>1, <1>2, <1>3, <1>5 DEF Gap
  <2>2. (1 + SequenceModulus - s) % SequenceModulus = g + 1
    BY <2>1, CounterWraps
  <2> QED
    BY <1>1, <1>2, <1>3, <1>4, <1>5, <2>2 DEF SequenceAfter
<1>6. CASE n # 0
  <2>1. /\ g \in 0 .. SequenceModulus - 1
        /\ \/ n + SequenceModulus - s = g
           \/ n + SequenceModulus - s = g + SequenceModulus
    BY <1>1, <1>2, <1>3 DEF Gap
  <2>2. (n + SequenceModulus - s) % SequenceModulus = g
    BY <2>1, CounterWraps
  <2> QED
    BY <1>1, <1>2, <1>3, <1>4, <1>6, <2>2 DEF SequenceAfter
<1> QED
  BY <1>5, <1>6

(* The order of the sequences survives the wrap of the counter, for any     *)
(* number of posters and calls that a counter of this width allows.         *)
THEOREM SequencesKept == Spec => []SequencesOrdered
<1>1. Init => SequenceInv
  <2> SUFFICES ASSUME Init
               PROVE  SequenceInv
    OBVIOUS
  <2>1. Outstanding = {}
    BY DEF Init, Outstanding
  <2> QED
    BY <2>1 DEF Init, SequenceInv
<1>2. TypeOK /\ TypeOK' /\ SequenceInv /\ [Next]_vars => SequenceInv'
  BY SequenceStep
<1>3. TypeOK /\ SequenceInv => SequencesOrdered
  BY InvOrders
<1> QED
  BY <1>1, <1>2, <1>3, TypeCorrect, PTL DEF Spec
==============================================================================
