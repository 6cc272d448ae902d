----------------------------- MODULE RuntimeState -----------------------------
(***************************************************************************)
(* The Runtime state publication (libs/runtime/src/h2_runtime_state.c):    *)
(* one writer fills a retired bank and switches the active index; readers  *)
(* pin the active bank with a per-slot count while they copy out of it.    *)
(*                                                                         *)
(* Every atomic access of the C code is one step, so the model has all the *)
(* interleavings of read_begin, the copy, read_end and publish.  A bank is *)
(* abstracted to the two parts a copy can mix up: its header (generation,  *)
(* ceiling, entry count) and its entries, each holding the generation that *)
(* last wrote it.  The statistics counters are left out.                   *)
(***************************************************************************)
EXTENDS Naturals, FiniteSets

CONSTANTS Readers,        \* tasks that call the component-state readers
          SlotCount,      \* H2_RUNTIME_STATE_SLOT_COUNT (3 in the code)
          NoRead,         \* see StateSnapshot
          MaxGeneration   \* bound on publications (state_generation is 64 bits)

ASSUME ReadersAssumption == IsFiniteSet(Readers)
ASSUME SlotAssumption == SlotCount \in Nat \ {0, 1}
ASSUME NoReadAssumption == NoRead \notin Nat
ASSUME BoundAssumption == MaxGeneration \in Nat

Slots == 0 .. SlotCount - 1

VARIABLES
  ready,         \* publication->ready
  active,        \* publication->active_index
  readerCount,   \* publication->reader_count[slot]
  header,        \* banks[slot] header: the generation that wrote it
  entries,       \* banks[slot].entries: the generation that wrote them
  generation,    \* private_state->state_generation
  dirty,         \* private_state->state_dirty
  writerPc,      \* where the writer is in publish
  writerActive,  \* publish's local active_index
  offset,        \* publish's loop variable
  nextIndex,     \* publish's local next_index
  pc,            \* per reader: where it is
  slot,          \* per reader: read_begin's local slot_index
  copyHeader,    \* per reader: what it copied of the header
  copyEntries,   \* per reader: what it copied of the entries
  got            \* per reader: the generation its last complete read returned

publicationVars == <<ready, active, header, entries, generation, dirty>>
writerVars == <<writerPc, writerActive, offset, nextIndex>>
readerVars == <<pc, slot, copyHeader, copyEntries, got>>
vars == <<publicationVars, readerCount, writerVars, readerVars>>

ReaderPcs == {"idle", "load", "pin", "checkReady", "checkActive", "unpin",
              "retry", "header", "entries", "endReady", "end"}
WriterPcs == {"idle", "scan", "clear", "header", "fill", "switch", "clean"}

(* A reader holds a pin from the increment to the matching decrement, and   *)
(* is validated once read_begin has returned OK.                            *)
Pinned == {"checkReady", "checkActive", "unpin",
           "header", "entries", "endReady", "end"}
Validated == {"header", "entries", "endReady", "end"}

Init ==
  /\ ready = FALSE
  /\ active = 0
  /\ readerCount = [s \in Slots |-> 0]
  /\ header = [s \in Slots |-> 0]
  /\ entries = [s \in Slots |-> 0]
  /\ generation = 0
  /\ dirty = FALSE
  /\ writerPc = "idle"
  /\ writerActive = 0
  /\ offset = 0
  /\ nextIndex = 0
  /\ pc = [r \in Readers |-> "idle"]
  /\ slot = [r \in Readers |-> 0]
  /\ copyHeader = [r \in Readers |-> 0]
  /\ copyEntries = [r \in Readers |-> 0]
  /\ got = [r \in Readers |-> 0]

------------------------------------------------------------------------------
(* The writer: the owner of the input writer mutex.                         *)

(* publication_init: resets the banks and the counts, then stores ready.    *)
(* No reader gets past its first ready check before that store.             *)
PublicationInit ==
  /\ writerPc = "idle"
  /\ ~ready
  /\ ready' = TRUE
  /\ active' = 0
  /\ readerCount' = [s \in Slots |-> 0]
  /\ header' = [s \in Slots |-> 0]
  /\ entries' = [s \in Slots |-> 0]
  /\ UNCHANGED <<generation, dirty, writerVars, readerVars>>

MarkDirty ==
  /\ writerPc = "idle"
  /\ ready
  /\ dirty' = TRUE
  /\ UNCHANGED <<ready, active, header, entries, generation, readerCount,
                 writerVars, readerVars>>

(* Mutant: the scan starts at the active slot itself.                       *)
MutantScanFromActive ==
  /\ writerPc = "idle"
  /\ ready
  /\ dirty
  /\ generation < MaxGeneration
  /\ writerActive' = active
  /\ offset' = 0
  /\ writerPc' = "scan"
  /\ UNCHANGED <<publicationVars, readerCount, nextIndex, readerVars>>

(* publish_if_due with its deadline reached, or a forced publication.       *)
PublishBegin ==
  /\ writerPc = "idle"
  /\ ready
  /\ dirty
  /\ generation < MaxGeneration
  /\ writerActive' = active
  /\ offset' = 1
  /\ writerPc' = "scan"
  /\ UNCHANGED <<publicationVars, readerCount, nextIndex, readerVars>>

Candidate == (writerActive + offset) % SlotCount

(* Mutant: the reader count is not consulted.                               *)
MutantIgnorePins ==
  /\ writerPc = "scan"
  /\ offset < SlotCount
  /\ nextIndex' = Candidate
  /\ writerPc' = "clear"
  /\ UNCHANGED <<publicationVars, readerCount, writerActive, offset, readerVars>>

(* One iteration of the loop over the retired slots: load one count.        *)
ScanFree ==
  /\ writerPc = "scan"
  /\ offset < SlotCount
  /\ readerCount[Candidate] = 0
  /\ nextIndex' = Candidate
  /\ writerPc' = "clear"
  /\ UNCHANGED <<publicationVars, readerCount, writerActive, offset, readerVars>>

ScanPinned ==
  /\ writerPc = "scan"
  /\ offset < SlotCount
  /\ readerCount[Candidate] # 0
  /\ offset' = offset + 1
  /\ UNCHANGED <<publicationVars, readerCount, writerPc, writerActive,
                 nextIndex, readerVars>>

(* Every retired slot is pinned: WOULD_BLOCK, and dirty stays set.          *)
Defer ==
  /\ writerPc = "scan"
  /\ offset = SlotCount
  /\ writerPc' = "idle"
  /\ UNCHANGED <<publicationVars, readerCount, writerActive, offset,
                 nextIndex, readerVars>>

(* prepare_bank: the two memsets, the header, then the owner's fill.        *)
ClearBank ==
  /\ writerPc = "clear"
  /\ entries' = [entries EXCEPT ![nextIndex] = 0]
  /\ header' = [header EXCEPT ![nextIndex] = 0]
  /\ writerPc' = "header"
  /\ UNCHANGED <<ready, active, generation, dirty, readerCount, writerActive,
                 offset, nextIndex, readerVars>>

WriteHeader ==
  /\ writerPc = "header"
  /\ generation' = generation + 1
  /\ header' = [header EXCEPT ![nextIndex] = generation + 1]
  /\ writerPc' = "fill"
  /\ UNCHANGED <<ready, active, entries, dirty, readerCount, writerActive,
                 offset, nextIndex, readerVars>>

FillEntries ==
  /\ writerPc = "fill"
  /\ entries' = [entries EXCEPT ![nextIndex] = generation]
  /\ writerPc' = "switch"
  /\ UNCHANGED <<ready, active, header, generation, dirty, readerCount,
                 writerActive, offset, nextIndex, readerVars>>

Switch ==
  /\ writerPc = "switch"
  /\ active' = nextIndex
  /\ writerPc' = "clean"
  /\ UNCHANGED <<ready, header, entries, generation, dirty, readerCount,
                 writerActive, offset, nextIndex, readerVars>>

ClearDirty ==
  /\ writerPc = "clean"
  /\ dirty' = FALSE
  /\ writerPc' = "idle"
  /\ UNCHANGED <<ready, active, header, entries, generation, readerCount,
                 writerActive, offset, nextIndex, readerVars>>

PublishStep == \/ ScanFree \/ ScanPinned \/ Defer \/ ClearBank
               \/ WriteHeader \/ FillEntries \/ Switch \/ ClearDirty

Writer == PublicationInit \/ MarkDirty \/ PublishBegin \/ PublishStep

------------------------------------------------------------------------------
(* A reader: one of the h2_runtime_component_state_* functions.             *)

Goto(r, label) == pc' = [pc EXCEPT ![r] = label]

(* The first ready check of read_begin; not ready is NOT_FOUND.             *)
ReadBegin(r) ==
  /\ pc[r] = "idle"
  /\ ready
  /\ Goto(r, "load")
  /\ UNCHANGED <<publicationVars, readerCount, writerVars, slot, copyHeader,
                 copyEntries, got>>

LoadActive(r) ==
  /\ pc[r] = "load"
  /\ slot' = [slot EXCEPT ![r] = active]
  /\ Goto(r, "pin")
  /\ UNCHANGED <<publicationVars, readerCount, writerVars, copyHeader,
                 copyEntries, got>>

Pin(r) ==
  /\ pc[r] = "pin"
  /\ readerCount' = [readerCount EXCEPT ![slot[r]] = @ + 1]
  /\ Goto(r, "checkReady")
  /\ UNCHANGED <<publicationVars, writerVars, slot, copyHeader, copyEntries,
                 got>>

CheckReady(r) ==
  /\ pc[r] = "checkReady"
  /\ Goto(r, IF ready THEN "checkActive" ELSE "unpin")
  /\ UNCHANGED <<publicationVars, readerCount, writerVars, slot, copyHeader,
                 copyEntries, got>>

(* Mutant: the second look at the active index is dropped.                  *)
MutantNoRecheck(r) ==
  /\ pc[r] = "checkActive"
  /\ Goto(r, "header")
  /\ UNCHANGED <<publicationVars, readerCount, writerVars, slot, copyHeader,
                 copyEntries, got>>

(* The pin counts only if the slot is still the active one.                 *)
CheckActive(r) ==
  /\ pc[r] = "checkActive"
  /\ Goto(r, IF slot[r] = active THEN "header" ELSE "unpin")
  /\ UNCHANGED <<publicationVars, readerCount, writerVars, slot, copyHeader,
                 copyEntries, got>>

(* Mutant: the decrement is forgotten.                                      *)
MutantLeakPin(r) ==
  /\ pc[r] = "unpin"
  /\ Goto(r, "retry")
  /\ UNCHANGED <<publicationVars, readerCount, writerVars, slot, copyHeader,
                 copyEntries, got>>

Unpin(r) ==
  /\ pc[r] = "unpin"
  /\ readerCount' = [readerCount EXCEPT ![slot[r]] = @ - 1]
  /\ Goto(r, "retry")
  /\ UNCHANGED <<publicationVars, writerVars, slot, copyHeader, copyEntries,
                 got>>

(* Mutant: the retry pins the same slot without loading the index again.    *)
MutantRetrySameSlot(r) ==
  /\ pc[r] = "retry"
  /\ Goto(r, IF ready THEN "pin" ELSE "idle")
  /\ UNCHANGED <<publicationVars, readerCount, writerVars, slot, copyHeader,
                 copyEntries, got>>

Retry(r) ==
  /\ pc[r] = "retry"
  /\ Goto(r, IF ready THEN "load" ELSE "idle")
  /\ UNCHANGED <<publicationVars, readerCount, writerVars, slot, copyHeader,
                 copyEntries, got>>

(* find_input_state reads the bank's entry count, then its entries.         *)
CopyHeader(r) ==
  /\ pc[r] = "header"
  /\ copyHeader' = [copyHeader EXCEPT ![r] = header[slot[r]]]
  /\ Goto(r, "entries")
  /\ UNCHANGED <<publicationVars, readerCount, writerVars, slot, copyEntries,
                 got>>

CopyEntries(r) ==
  /\ pc[r] = "entries"
  /\ copyEntries' = [copyEntries EXCEPT ![r] = entries[slot[r]]]
  /\ Goto(r, "endReady")
  /\ UNCHANGED <<publicationVars, readerCount, writerVars, slot, copyHeader,
                 got>>

ReadEndReady(r) ==
  /\ pc[r] = "endReady"
  /\ Goto(r, IF ready THEN "end" ELSE "idle")
  /\ UNCHANGED <<publicationVars, readerCount, writerVars, slot, copyHeader,
                 copyEntries, got>>

(* read_end: a count already at zero is put back and the read fails with    *)
(* INVALID_STATE; otherwise the copy is returned.                           *)
ReadEnd(r) ==
  /\ pc[r] = "end"
  /\ Goto(r, "idle")
  /\ IF readerCount[slot[r]] = 0
       THEN UNCHANGED <<readerCount, got>>
       ELSE /\ readerCount' = [readerCount EXCEPT ![slot[r]] = @ - 1]
            /\ got' = [got EXCEPT ![r] = copyEntries[r]]
  /\ UNCHANGED <<publicationVars, writerVars, slot, copyHeader, copyEntries>>

Reader(r) == \/ ReadBegin(r) \/ LoadActive(r) \/ Pin(r) \/ CheckReady(r)
             \/ CheckActive(r) \/ Unpin(r) \/ Retry(r) \/ CopyHeader(r)
             \/ CopyEntries(r) \/ ReadEndReady(r) \/ ReadEnd(r)

Next == Writer \/ \E r \in Readers : Reader(r)

Spec == Init /\ [][Next]_vars

(* The tasks are scheduled: a started read and a started publication go on, *)
(* and the input worker polls again and again, so a dirty snapshot is       *)
(* offered for publication again after a deferral.  Nobody has to start a   *)
(* read or mark the state dirty.                                            *)
FairSpec ==
  /\ Spec
  /\ WF_vars(PublishBegin)
  /\ WF_vars(PublishStep)
  /\ \A r \in Readers : WF_vars(pc[r] # "idle" /\ Reader(r))

------------------------------------------------------------------------------
(* Type invariant.                                                          *)
TypeOK ==
  /\ ready \in BOOLEAN
  /\ active \in Slots
  /\ readerCount \in [Slots -> Nat]
  /\ header \in [Slots -> Nat]
  /\ entries \in [Slots -> Nat]
  /\ generation \in Nat
  /\ dirty \in BOOLEAN
  /\ writerPc \in WriterPcs
  /\ writerActive \in Slots
  /\ offset \in 0 .. SlotCount
  /\ nextIndex \in Slots
  /\ pc \in [Readers -> ReaderPcs]
  /\ slot \in [Readers -> Slots]
  /\ copyHeader \in [Readers -> Nat]
  /\ copyEntries \in [Readers -> Nat]
  /\ got \in [Readers -> Nat]

Filling == {"clear", "header", "fill", "switch"}
PinsOf(s) == {r \in Readers : pc[r] \in Pinned /\ slot[r] = s}

(* The count of a slot is the number of tasks between the increment and the *)
(* decrement on it, so it never underflows in read_begin or read_end, and a *)
(* quiescent publication has no leaked pin that would retire a slot forever.*)
CountsPins == \A s \in Slots : readerCount[s] = Cardinality(PinsOf(s))

(* "a reader never observes a half-written bank": from the moment           *)
(* read_begin returns OK to the unpin of read_end, the writer is not in     *)
(* prepare_bank on the reader's slot, whatever was published meanwhile.     *)
PinnedBankStable ==
  \A r \in Readers :
    pc[r] \in Validated => ~(writerPc \in Filling /\ nextIndex = slot[r])

(* What a reader has copied when it reaches read_end comes from a single    *)
(* publication: header and entries have the same generation.                *)
CopyFromOnePublication ==
  \A r \in Readers :
    pc[r] \in {"endReady", "end"} => copyHeader[r] = copyEntries[r]

(* A task that reads twice never sees the snapshot go backwards, although   *)
(* it may be preempted over any number of publications and slot reuses.     *)
MonotoneReads == [][\A r \in Readers : got'[r] >= got[r]]_vars

Snapshot == INSTANCE StateSnapshot WITH
  current <- header[active],
  held <- [r \in Readers |-> IF pc[r] \in Validated THEN header[slot[r]]
                             ELSE NoRead]

(* The publication implements an atomic snapshot register: a read returns   *)
(* the generation that was active at one instant of the call.               *)
ImplementsSnapshot == Snapshot!Spec

(* read_begin's retry loop ends: only a publication that switched between   *)
(* the two loads of the active index makes it go round again.               *)
ReadReturns == \A r \in Readers : (pc[r] # "idle") ~> (pc[r] = "idle")

(* "When every retired slot is pinned the publication is deferred and the   *)
(* caller retries on its next cycle": the retries succeed, readers that     *)
(* keep reading cannot hold a dirty snapshot back forever.                  *)
DirtyIsPublished == (dirty /\ generation < MaxGeneration) ~> ~dirty
==============================================================================
