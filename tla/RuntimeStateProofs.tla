-------------------------- MODULE RuntimeStateProofs --------------------------
(***************************************************************************)
(* Proofs about the state publication, for any finite set of readers, any  *)
(* number of slots above one and any number of publications.               *)
(***************************************************************************)
EXTENDS RuntimeState, FiniteSetTheorems, TLAPS

(* Nothing runs before publication_init has stored ready.                   *)
Admission ==
  /\ writerPc # "idle" => ready
  /\ \A r \in Readers : pc[r] # "idle" => ready
  /\ generation # 0 => ready

(* The writer's local active index is exact: nobody else switches.          *)
ScanBase ==
  writerPc = "scan" => writerActive = active /\ offset \in 1 .. SlotCount

(* The bank being prepared is a retired one.                                *)
FillRetired == writerPc \in Filling => nextIndex # active

(* Only the bank between its header and its entries is half-written.        *)
BanksWhole ==
  \A s \in Slots :
    header[s] = entries[s] \/ (writerPc = "fill" /\ nextIndex = s)

(* The active bank has the last generation, the retired ones older ones; a  *)
(* bank filled but not yet switched to has the next one.                    *)
Prepared == {"fill", "switch"}
ActiveGeneration ==
  /\ writerPc \in Prepared =>
       header[active] + 1 = generation /\ header[nextIndex] = generation
  /\ writerPc \notin Prepared => header[active] = generation
  /\ \A s \in Slots :
       header[s] <= header[active] \/ (writerPc \in Prepared /\ nextIndex = s)

(* A copy is the content of the bank that is still pinned.                  *)
CopyOfPinned ==
  \A r \in Readers :
    /\ pc[r] \in {"entries", "endReady", "end"} =>
         copyHeader[r] = header[slot[r]]
    /\ pc[r] \in {"endReady", "end"} => copyEntries[r] = header[slot[r]]

(* Nobody has seen a generation newer than the bank it would read next.     *)
SeenBefore ==
  \A r \in Readers :
    /\ got[r] <= header[active]
    /\ pc[r] \in Validated => got[r] <= header[slot[r]]

IInv ==
  /\ TypeOK /\ CountsPins /\ PinnedBankStable
  /\ Admission /\ ScanBase /\ FillRetired /\ BanksWhole /\ ActiveGeneration
  /\ CopyOfPinned /\ SeenBefore

(* The invariant without the counting part.                                 *)
Core ==
  /\ TypeOK /\ PinnedBankStable
  /\ Admission /\ ScanBase /\ FillRetired /\ BanksWhole /\ ActiveGeneration
  /\ CopyOfPinned /\ SeenBefore

------------------------------------------------------------------------------
(* Counting pins.                                                           *)

(* The tasks that pin one slot are a finite set.                            *)
LEMMA PinsFinite ==
  ASSUME NEW s
  PROVE  /\ IsFiniteSet(PinsOf(s))
         /\ Cardinality(PinsOf(s)) \in Nat
<1>1. PinsOf(s) \in SUBSET Readers
  BY DEF PinsOf
<1>2. IsFiniteSet(PinsOf(s))
  BY <1>1, ReadersAssumption, FS_Subset
<1> QED
  BY <1>2, FS_CardinalityType

(* A task that holds a pin is counted: read_begin's and read_end's          *)
(* decrements never find a zero.                                            *)
LEMMA PinnedIsCounted ==
  ASSUME CountsPins, NEW r \in Readers, slot[r] \in Slots, pc[r] \in Pinned
  PROVE  readerCount[slot[r]] \in Nat \ {0}
<1>1. r \in PinsOf(slot[r])
  BY DEF PinsOf
<1>2. Cardinality(PinsOf(slot[r])) # 0
  BY <1>1, PinsFinite, FS_EmptySet
<1> QED
  BY <1>2, PinsFinite DEF CountsPins

(* Inside one turn the modulus changes nothing.                             *)
LEMMA SmallMod ==
  ASSUME NEW n \in Nat, n > 1, NEW x \in Nat, x < n
  PROVE  x % n = x
OBVIOUS

(* One turn past the end of the ring of slots.                              *)
LEMMA NextMod ==
  ASSUME NEW n \in Nat, n > 1, NEW x \in Nat, x >= n, x < 2 * n
  PROVE  x % n = x - n
OBVIOUS

(* A step of less than a full turn ends at another slot.                    *)
LEMMA RingStep ==
  ASSUME NEW n \in Nat \ {0, 1}, NEW a \in 0 .. n - 1, NEW k \in 1 .. n - 1
  PROVE  (a + k) % n \in 0 .. n - 1 /\ (a + k) % n # a
<1>1. CASE a + k < n
  BY <1>1, SmallMod
<1>2. CASE a + k >= n
  BY <1>2, NextMod
<1> QED
  BY <1>1, <1>2

(* The candidate of publish's loop is a slot other than the active one.     *)
LEMMA CandidateRetired ==
  ASSUME TypeOK, offset \in 1 .. SlotCount - 1
  PROVE  Candidate \in Slots /\ Candidate # writerActive
<1>1. writerActive \in 0 .. SlotCount - 1
  BY DEF TypeOK, Slots
<1> QED
  BY <1>1, SlotAssumption, RingStep DEF Slots, Candidate

(* The counting invariant is kept by every step.                            *)
LEMMA CountsStep ==
  ASSUME IInv, [Next]_vars
  PROVE  CountsPins'
<1> USE DEF Pinned
<1>1. ASSUME \A s \in Slots : PinsOf(s)' = PinsOf(s), UNCHANGED readerCount
      PROVE  CountsPins'
  BY <1>1 DEF IInv, CountsPins
<1>2. CASE UNCHANGED vars
  <2>1. \A s \in Slots : PinsOf(s)' = PinsOf(s)
    BY <1>2 DEF PinsOf, vars, readerVars
  <2> QED
    BY <1>1, <1>2, <2>1 DEF vars
<1>3. CASE PublicationInit
  <2>1. \A s \in Slots : PinsOf(s)' = {}
    BY <1>3 DEF PublicationInit, PinsOf, readerVars, IInv, Admission
  <2> QED
    BY <1>3, <2>1, FS_EmptySet DEF CountsPins, PublicationInit
<1>4. CASE MarkDirty \/ PublishBegin \/ PublishStep
  <2>1. UNCHANGED <<pc, slot, readerCount>>
    BY <1>4 DEF MarkDirty, PublishBegin, PublishStep, ScanFree, ScanPinned,
       Defer, ClearBank, WriteHeader, FillEntries, Switch, ClearDirty,
       readerVars
  <2>2. \A s \in Slots : PinsOf(s)' = PinsOf(s)
    BY <2>1 DEF PinsOf
  <2> QED
    BY <1>1, <2>1, <2>2
<1>5. ASSUME NEW r \in Readers,
             \/ ReadBegin(r) \/ LoadActive(r) \/ CheckReady(r)
             \/ CheckActive(r) \/ Retry(r) \/ CopyHeader(r)
             \/ CopyEntries(r) \/ ReadEndReady(r)
      PROVE  CountsPins'
  <2> DEFINE Holds(q) == pc[q] \in Pinned
  <2>1. \A q \in Readers : Holds(q)' <=> Holds(q)
    BY <1>5 DEF ReadBegin, LoadActive, CheckReady, CheckActive, Retry,
       CopyHeader, CopyEntries, ReadEndReady, Goto, IInv, TypeOK, Admission
  <2>2. \A q \in Readers : Holds(q) => slot'[q] = slot[q]
    BY <1>5 DEF ReadBegin, LoadActive, CheckReady, CheckActive, Retry,
       CopyHeader, CopyEntries, ReadEndReady, IInv, TypeOK
  <2>3. \A s \in Slots : PinsOf(s)' = PinsOf(s)
    BY <2>1, <2>2 DEF PinsOf
  <2>4. UNCHANGED readerCount
    BY <1>5 DEF ReadBegin, LoadActive, CheckReady, CheckActive, Retry,
       CopyHeader, CopyEntries, ReadEndReady
  <2> QED
    BY <1>1, <2>3, <2>4
<1>6. ASSUME NEW r \in Readers, Pin(r)
      PROVE  CountsPins'
  <2>1. slot[r] \in Slots /\ r \notin PinsOf(slot[r])
    BY <1>6 DEF Pin, PinsOf, IInv, TypeOK
  <2>2. PinsOf(slot[r])' = PinsOf(slot[r]) \cup {r}
    BY <1>6 DEF Pin, PinsOf, Goto, IInv, TypeOK
  <2>3. \A s \in Slots : s # slot[r] => PinsOf(s)' = PinsOf(s)
    BY <1>6 DEF Pin, PinsOf, Goto, IInv, TypeOK
  <2>4. Cardinality(PinsOf(slot[r]) \cup {r}) = Cardinality(PinsOf(slot[r])) + 1
    BY <2>1, PinsFinite, FS_AddElement, Zenon
  <2>5. slot' = slot
    BY <1>6 DEF Pin
  <2> QED
    BY Zenon, <1>6, <2>1, <2>2, <2>3, <2>4, <2>5
    DEF Pin, IInv, CountsPins, TypeOK
<1>7. ASSUME NEW r \in Readers, Unpin(r) \/ ReadEnd(r)
      PROVE  CountsPins'
  <2>1. slot[r] \in Slots /\ r \in PinsOf(slot[r])
    BY <1>7 DEF Unpin, ReadEnd, PinsOf, IInv, TypeOK
  <2>2. PinsOf(slot[r])' = PinsOf(slot[r]) \ {r}
    BY <1>7 DEF Unpin, ReadEnd, PinsOf, Goto, IInv, TypeOK
  <2>3. \A s \in Slots : s # slot[r] => PinsOf(s)' = PinsOf(s)
    BY <1>7 DEF Unpin, ReadEnd, PinsOf, Goto, IInv, TypeOK
  <2>4. Cardinality(PinsOf(slot[r]) \ {r}) = Cardinality(PinsOf(slot[r])) - 1
    BY <2>1, PinsFinite, FS_RemoveElement
  <2>5. slot' = slot
    BY <1>7 DEF Unpin, ReadEnd
  <2>6. readerCount' = [readerCount EXCEPT ![slot[r]] = @ - 1]
    BY <1>7, <2>1, PinnedIsCounted DEF Unpin, ReadEnd, IInv
  <2> QED
    BY <2>1, <2>2, <2>3, <2>4, <2>5, <2>6 DEF IInv, CountsPins, TypeOK
<1> QED
  BY <1>2, <1>3, <1>4, <1>5, <1>6, <1>7 DEF Next, Writer, Reader

------------------------------------------------------------------------------
(* The bank publish settles on is retired and no validated reader is on it, *)
(* because a validated reader is counted.                                   *)
LEMMA ScanFindsFree ==
  ASSUME IInv, ScanFree
  PROVE  /\ Candidate \in Slots /\ Candidate # active
         /\ \A q \in Readers : pc[q] \in Validated => slot[q] # Candidate
<1>1. TypeOK /\ offset \in 1 .. SlotCount - 1 /\ writerActive = active
  BY SlotAssumption DEF IInv, ScanBase, ScanFree
<1>2. Candidate \in Slots /\ Candidate # active
  BY <1>1, CandidateRetired
<1>3. \A q \in Readers : pc[q] \in Validated => slot[q] \in Slots /\ pc[q] \in Pinned
  BY <1>1 DEF TypeOK, Validated, Pinned
<1>4. \A q \in Readers : pc[q] \in Validated => readerCount[slot[q]] # 0
  BY <1>3, PinnedIsCounted DEF IInv
<1> QED
  BY <1>2, <1>4 DEF ScanFree

(* The decrements of read_begin and read_end stay in the naturals.          *)
LEMMA DecrementIsNat ==
  ASSUME IInv, NEW r \in Readers, pc[r] \in Pinned
  PROVE  /\ readerCount[slot[r]] # 0
         /\ [readerCount EXCEPT ![slot[r]] = @ - 1] \in [Slots -> Nat]
<1>1. slot[r] \in Slots /\ readerCount \in [Slots -> Nat]
  BY DEF IInv, TypeOK
<1>2. readerCount[slot[r]] \in Nat \ {0}
  BY <1>1, PinnedIsCounted DEF IInv
<1>3. readerCount[slot[r]] - 1 \in Nat
  BY <1>2
<1> QED
  BY <1>1, <1>2, <1>3

(* Every step keeps the types.                                              *)
LEMMA TypeStep ==
  ASSUME IInv, [Next]_vars
  PROVE  TypeOK'
<1> TypeOK
  BY DEF IInv
<1>0. /\ 0 \in Slots
      /\ \A r \in Readers :
           [readerCount EXCEPT ![slot[r]] = @ + 1] \in [Slots -> Nat]
  <2>1. \A s \in Slots : readerCount[s] + 1 \in Nat
    BY DEF TypeOK
  <2>2. 0 \in Slots
    BY SlotAssumption DEF Slots
  <2> QED
    BY <2>1, <2>2 DEF TypeOK
<1> USE DEF TypeOK, ReaderPcs, WriterPcs, publicationVars, writerVars, readerVars
<1>1. CASE UNCHANGED vars
  BY <1>1 DEF vars
<1>2. CASE PublicationInit
  BY <1>2, <1>0 DEF PublicationInit
<1>3. CASE MarkDirty
  BY <1>3 DEF MarkDirty
<1>4. CASE PublishBegin
  BY <1>4, SlotAssumption DEF PublishBegin
<1>5. CASE ScanFree
  BY <1>5, ScanFindsFree DEF ScanFree
<1>6. CASE ScanPinned
  BY <1>6, SlotAssumption DEF ScanPinned
<1>7. CASE Defer
  BY <1>7 DEF Defer
<1>8. CASE ClearBank
  BY <1>8 DEF ClearBank
<1>9. CASE WriteHeader
  BY <1>9 DEF WriteHeader
<1>10. CASE FillEntries
  BY <1>10 DEF FillEntries
<1>11. CASE Switch
  BY <1>11 DEF Switch
<1>12. CASE ClearDirty
  BY <1>12, Zenon DEF ClearDirty
<1>13. ASSUME NEW r \in Readers, ReadBegin(r)
      PROVE  TypeOK'
  BY <1>13 DEF ReadBegin, Goto
<1>14. ASSUME NEW r \in Readers, LoadActive(r)
      PROVE  TypeOK'
  BY <1>14 DEF LoadActive, Goto
<1>15. ASSUME NEW r \in Readers, Pin(r)
      PROVE  TypeOK'
  BY <1>15, <1>0 DEF Pin, Goto
<1>16. ASSUME NEW r \in Readers, CheckReady(r)
      PROVE  TypeOK'
  BY <1>16 DEF CheckReady, Goto
<1>17. ASSUME NEW r \in Readers, CheckActive(r)
      PROVE  TypeOK'
  BY <1>17 DEF CheckActive, Goto
<1>18. ASSUME NEW r \in Readers, Unpin(r)
      PROVE  TypeOK'
  BY <1>18, DecrementIsNat DEF Unpin, Goto, Pinned
<1>19. ASSUME NEW r \in Readers, Retry(r)
      PROVE  TypeOK'
  BY <1>19 DEF Retry, Goto
<1>20. ASSUME NEW r \in Readers, CopyHeader(r)
      PROVE  TypeOK'
  BY <1>20 DEF CopyHeader, Goto
<1>21. ASSUME NEW r \in Readers, CopyEntries(r)
      PROVE  TypeOK'
  BY <1>21 DEF CopyEntries, Goto
<1>22. ASSUME NEW r \in Readers, ReadEndReady(r)
      PROVE  TypeOK'
  BY <1>22 DEF ReadEndReady, Goto
<1>23. ASSUME NEW r \in Readers, ReadEnd(r)
      PROVE  TypeOK'
  BY <1>23, DecrementIsNat DEF ReadEnd, Goto, Pinned
<1> QED
  BY <1>1, <1>2, <1>3, <1>4, <1>5, <1>6, <1>7, <1>8, <1>9, <1>10, <1>11, <1>12, <1>13, <1>14, <1>15, <1>16, <1>17, <1>18, <1>19, <1>20, <1>21, <1>22, <1>23
  DEF Next, Writer, PublishStep, Reader

(* Every step keeps the rest of the invariant.                              *)
LEMMA CoreStep ==
  ASSUME IInv, [Next]_vars, TypeOK'
  PROVE  Core'
<1> USE DEF Core, IInv, TypeOK, PinnedBankStable, Admission, ScanBase,
        FillRetired, BanksWhole, ActiveGeneration, CopyOfPinned, SeenBefore,
        Prepared, Filling, Validated, publicationVars, writerVars, readerVars
<1>1. CASE UNCHANGED vars
  BY <1>1 DEF vars
<1>2. CASE PublicationInit
  BY <1>2 DEF PublicationInit
<1>3. CASE MarkDirty
  BY <1>3 DEF MarkDirty
<1>4. CASE PublishBegin
  BY <1>4, SlotAssumption DEF PublishBegin
<1>5. CASE ScanFree
  BY <1>5, ScanFindsFree DEF ScanFree
<1>6. CASE ScanPinned
  BY <1>6, SlotAssumption DEF ScanPinned
<1>7. CASE Defer
  BY <1>7 DEF Defer
<1>8. CASE ClearBank
  BY <1>8 DEF ClearBank
<1>9. CASE WriteHeader
  BY <1>9 DEF WriteHeader
<1>10. CASE FillEntries
  BY <1>10 DEF FillEntries
<1>11. CASE Switch
  BY <1>11 DEF Switch
<1>12. CASE ClearDirty
  BY <1>12 DEF ClearDirty
<1>13. ASSUME NEW r \in Readers, ReadBegin(r)
      PROVE  Core'
  BY <1>13 DEF ReadBegin, Goto
<1>14. ASSUME NEW r \in Readers, LoadActive(r)
      PROVE  Core'
  BY <1>14 DEF LoadActive, Goto
<1>15. ASSUME NEW r \in Readers, Pin(r)
      PROVE  Core'
  BY <1>15 DEF Pin, Goto
<1>16. ASSUME NEW r \in Readers, CheckReady(r)
      PROVE  Core'
  BY <1>16 DEF CheckReady, Goto
<1>17. ASSUME NEW r \in Readers, CheckActive(r)
      PROVE  Core'
  BY <1>17 DEF CheckActive, Goto
<1>18. ASSUME NEW r \in Readers, Unpin(r)
      PROVE  Core'
  BY <1>18 DEF Unpin, Goto
<1>19. ASSUME NEW r \in Readers, Retry(r)
      PROVE  Core'
  BY <1>19 DEF Retry, Goto
<1>20. ASSUME NEW r \in Readers, CopyHeader(r)
      PROVE  Core'
  BY <1>20 DEF CopyHeader, Goto
<1>21. ASSUME NEW r \in Readers, CopyEntries(r)
      PROVE  Core'
  BY <1>21 DEF CopyEntries, Goto
<1>22. ASSUME NEW r \in Readers, ReadEndReady(r)
      PROVE  Core'
  BY <1>22 DEF ReadEndReady, Goto
<1>23. ASSUME NEW r \in Readers, ReadEnd(r)
      PROVE  Core'
  <2>1. /\ \A q \in Readers : q # r => pc'[q] = pc[q]
        /\ pc'[r] = "idle"
        /\ \A q \in Readers : q # r => got'[q] = got[q]
        /\ got'[r] \in {got[r], copyEntries[r]}
    BY <1>23 DEF ReadEnd, Goto
  <2>2. copyEntries[r] = header[slot[r]] /\ header[slot[r]] <= header[active]
    BY <1>23 DEF ReadEnd
  <2> QED
    BY <1>23, <2>1, <2>2 DEF ReadEnd
<1> QED
  BY Zenon, <1>1, <1>2, <1>3, <1>4, <1>5, <1>6, <1>7, <1>8, <1>9, <1>10, <1>11, <1>12, <1>13, <1>14, <1>15, <1>16, <1>17, <1>18, <1>19, <1>20, <1>21, <1>22, <1>23
  DEF Next, Writer, PublishStep, Reader

------------------------------------------------------------------------------
(* The initial state satisfies the invariant: no task holds a pin.          *)
LEMMA InitInv == Init => IInv
<1> SUFFICES ASSUME Init PROVE IInv
  OBVIOUS
<1>1. 0 \in Slots /\ 0 \in 0 .. SlotCount
  BY SlotAssumption DEF Slots
<1>2. TypeOK
  BY <1>1, Zenon DEF Init, TypeOK, ReaderPcs, WriterPcs
<1>3. CountsPins
  <2>1. \A s \in Slots : PinsOf(s) = {}
    BY DEF Init, PinsOf, Pinned
  <2> QED
    BY <2>1, FS_EmptySet DEF Init, CountsPins
<1>4. PinnedBankStable /\ CopyOfPinned /\ SeenBefore
  BY <1>1 DEF Init, PinnedBankStable, Validated, CopyOfPinned, SeenBefore
<1>5. Admission /\ ScanBase /\ FillRetired /\ BanksWhole
  BY DEF Init, Admission, ScanBase, FillRetired, Filling, BanksWhole
<1>6. ActiveGeneration
  <2>1. writerPc = "idle" /\ generation = 0
    BY DEF Init
  <2>2. header[active] = 0 /\ \A s \in Slots : header[s] = 0
    BY <1>1 DEF Init
  <2>3. \A s \in Slots : header[s] <= header[active]
    BY <2>2
  <2> QED
    BY <2>1, <2>2, <2>3 DEF ActiveGeneration, Prepared
<1> QED
  BY <1>2, <1>3, <1>4, <1>5, <1>6 DEF IInv

(* The invariant is inductive.                                              *)
LEMMA StepInv == IInv /\ [Next]_vars => IInv'
<1> SUFFICES ASSUME IInv, [Next]_vars PROVE IInv'
  OBVIOUS
<1>1. TypeOK'
  BY TypeStep
<1>2. CountsPins'
  BY CountsStep
<1>3. Core'
  BY <1>1, CoreStep
<1> QED
  BY <1>1, <1>2, <1>3 DEF IInv, Core

(* IInv is an invariant of the publication.                                  *)
LEMMA Invariance == Spec => []IInv
BY InitInv, StepInv, PTL DEF Spec

(* Every variable of the publication keeps its type; in particular no       *)
(* reader count ever goes below zero.                                       *)
THEOREM TypeCorrect == Spec => []TypeOK
<1>1. IInv => TypeOK
  BY DEF IInv
<1> QED
  BY Invariance, <1>1, PTL

(* The count of a slot is always the number of tasks pinning it.            *)
THEOREM CountsExact == Spec => []CountsPins
<1>1. IInv => CountsPins
  BY DEF IInv
<1> QED
  BY Invariance, <1>1, PTL

(* The writer never prepares a bank under a validated reader.               *)
THEOREM BankStability == Spec => []PinnedBankStable
<1>1. IInv => PinnedBankStable
  BY DEF IInv
<1> QED
  BY Invariance, <1>1, PTL

(* A component-state read never returns a mixture of two publications.      *)
THEOREM NoTornCopy == Spec => []CopyFromOnePublication
<1>1. IInv => CopyFromOnePublication
  BY DEF IInv, CopyOfPinned, CopyFromOnePublication
<1> QED
  BY Invariance, <1>1, PTL

(* Successive reads of one task never go back to an older generation.       *)
THEOREM ReadsMonotone == Spec => MonotoneReads
<1>1. ASSUME IInv, [Next]_vars
      PROVE  [\A r \in Readers : got'[r] >= got[r]]_vars
  <2>1. CASE UNCHANGED vars
    BY <2>1
  <2>2. CASE Writer
    <3>1. got' = got
      BY <2>2 DEF Writer, PublicationInit, MarkDirty, PublishBegin,
         PublishStep, ScanFree, ScanPinned, Defer, ClearBank, WriteHeader,
         FillEntries, Switch, ClearDirty, readerVars
    <3> QED
      BY <1>1, <3>1 DEF IInv, TypeOK
  <2>3. ASSUME NEW r \in Readers, Reader(r)
        PROVE  \A q \in Readers : got'[q] >= got[q]
    <3>1. CASE ReadEnd(r)
      <4>1. got[r] <= copyEntries[r]
        BY <1>1, <3>1 DEF ReadEnd, IInv, SeenBefore, CopyOfPinned, Validated
      <4> QED
        BY <1>1, <3>1, <4>1 DEF ReadEnd, IInv, TypeOK
    <3>2. CASE ~ReadEnd(r)
      <4>1. got' = got
        BY <2>3, <3>2 DEF Reader, ReadBegin, LoadActive, Pin, CheckReady,
           CheckActive, Unpin, Retry, CopyHeader, CopyEntries, ReadEndReady
      <4> QED
        BY <1>1, <4>1 DEF IInv, TypeOK
    <3> QED
      BY <3>1, <3>2
  <2> QED
    BY <1>1, <2>1, <2>2, <2>3 DEF Next
<1> QED
  BY <1>1, Invariance, PTL DEF Spec, MonotoneReads

------------------------------------------------------------------------------
(* Refinement.                                                              *)

HeldBy == [r \in Readers |-> IF pc[r] \in Validated THEN header[slot[r]]
                             ELSE NoRead]

(* The publication implements the atomic snapshot register.  Publish is the *)
(* switch of the active index, Capture is the second load of the active     *)
(* index in read_begin, Return is the unpin in read_end.                    *)
THEOREM Refinement == Spec => ImplementsSnapshot
<1> USE DEF Snapshot!vars, Snapshot!Next, Snapshot!Publish, Snapshot!Capture,
        Snapshot!Return
<1>1. Init => Snapshot!Init
  BY SlotAssumption DEF Init, Snapshot!Init, Slots, Validated
<1>2. ASSUME IInv, [Next]_vars
      PROVE  [Snapshot!Next]_Snapshot!vars
  <2>1. CASE UNCHANGED vars
    BY <2>1, Zenon DEF vars, publicationVars, readerVars
  <2>2. CASE PublicationInit
    <3>1. \A r \in Readers : pc[r] \notin Validated
      BY <1>2, <2>2 DEF PublicationInit, IInv, Admission, Validated
    <3>2. header[active] = 0 /\ header'[active'] = 0
      BY <1>2, <2>2, SlotAssumption DEF PublicationInit, IInv, Admission,
         ActiveGeneration, Prepared, Slots
    <3> QED
      BY <2>2, <3>1, <3>2 DEF PublicationInit, readerVars
  <2>3. CASE MarkDirty \/ PublishBegin \/ ScanFree \/ ScanPinned \/ Defer
             \/ FillEntries \/ ClearDirty
    BY <2>3 DEF MarkDirty, PublishBegin, ScanFree, ScanPinned, Defer,
       FillEntries, ClearDirty, publicationVars, readerVars
  <2>4. CASE ClearBank \/ WriteHeader
    <3>1. nextIndex # active /\ nextIndex \in Slots /\ header \in [Slots -> Nat]
      BY <1>2, <2>4 DEF ClearBank, WriteHeader, IInv, TypeOK, FillRetired,
         Filling
    <3>2. header'[active'] = header[active]
      BY <1>2, <2>4, <3>1 DEF ClearBank, WriteHeader, IInv, TypeOK
    <3>3. \A r \in Readers : pc[r] \in Validated =>
            header'[slot'[r]] = header[slot[r]]
      BY <1>2, <2>4, <3>1 DEF ClearBank, WriteHeader, IInv, TypeOK,
         PinnedBankStable, Filling, readerVars
    <3> QED
      BY <2>4, <3>2, <3>3 DEF ClearBank, WriteHeader, readerVars
  <2>5. CASE Switch
    <3>1. header'[active'] = header[active] + 1
      BY <1>2, <2>5 DEF Switch, IInv, ActiveGeneration, Prepared, TypeOK
    <3> QED
      BY <2>5, <3>1 DEF Switch, readerVars
  <2>6. ASSUME NEW r \in Readers, Reader(r)
        PROVE  [Snapshot!Next]_Snapshot!vars
    <3>1. CASE CheckActive(r) /\ slot[r] = active
      <4>1. HeldBy' = [HeldBy EXCEPT ![r] = header[active]]
        BY <1>2, <3>1, Zenon DEF CheckActive, Goto, IInv, TypeOK, Validated, HeldBy,
           publicationVars
      <4>2. HeldBy[r] = NoRead
        BY <3>1 DEF CheckActive, HeldBy, Validated
      <4> QED
        BY <3>1, <4>1, <4>2, Zenon DEF CheckActive, HeldBy, publicationVars
    <3>2. CASE ReadEnd(r)
      <4>1. HeldBy' = [HeldBy EXCEPT ![r] = NoRead]
        BY <1>2, <3>2, Zenon DEF ReadEnd, Goto, IInv, TypeOK, Validated, HeldBy,
           publicationVars
      <4>2. HeldBy[r] = header[slot[r]] /\ header[slot[r]] \in Nat
        BY <1>2, <3>2 DEF ReadEnd, HeldBy, Validated, IInv, TypeOK
      <4>3. copyEntries[r] = header[slot[r]]
        BY <1>2, <3>2 DEF ReadEnd, IInv, CopyOfPinned
      <4>4. got' = [got EXCEPT ![r] = HeldBy[r]]
        BY <1>2, <3>2, <4>2, <4>3, DecrementIsNat DEF ReadEnd, Pinned
      <4>5. HeldBy[r] # NoRead
        BY <4>2, NoReadAssumption
      <4> QED
        BY <3>2, <4>1, <4>4, <4>5, Zenon DEF ReadEnd, HeldBy, publicationVars
    <3>3. CASE \/ ReadBegin(r) \/ LoadActive(r) \/ Pin(r) \/ CheckReady(r)
               \/ (CheckActive(r) /\ slot[r] # active) \/ Unpin(r) \/ Retry(r)
               \/ CopyHeader(r) \/ CopyEntries(r) \/ ReadEndReady(r)
      <4>1. \A q \in Readers :
              /\ pc'[q] \in Validated <=> pc[q] \in Validated
              /\ pc[q] \in Validated => slot'[q] = slot[q]
        BY <1>2, <3>3 DEF ReadBegin, LoadActive, Pin, CheckReady, CheckActive,
           Unpin, Retry, CopyHeader, CopyEntries, ReadEndReady, Goto, IInv,
           TypeOK, Admission, Validated
      <4>2. UNCHANGED <<header, active, got>>
        BY <3>3 DEF ReadBegin, LoadActive, Pin, CheckReady, CheckActive,
           Unpin, Retry, CopyHeader, CopyEntries, ReadEndReady,
           publicationVars
      <4>3. HeldBy' = HeldBy
        BY <4>1, <4>2 DEF HeldBy
      <4> QED
        BY <4>2, <4>3 DEF HeldBy
    <3> QED
      BY <2>6, <3>1, <3>2, <3>3, Zenon DEF Reader
  <2> QED
    BY <1>2, <2>1, <2>2, <2>3, <2>4, <2>5, <2>6, Zenon DEF Next, Writer, PublishStep
<1> QED
  BY <1>1, <1>2, Invariance, PTL DEF Spec, ImplementsSnapshot, Snapshot!Spec
==============================================================================
