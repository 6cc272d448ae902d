-------------------------- MODULE RuntimeInputLists ---------------------------
(***************************************************************************)
(* What the list operations of RuntimeInput preserve, for any number of    *)
(* sources and any capacities: the order of the events of one source, the  *)
(* last level of each source, and the account of outstanding events.  The  *)
(* retained edges go back to the pending list in order, the readings are   *)
(* added behind them, and a send or a receive moves what is owed.          *)
(***************************************************************************)
EXTENDS RuntimeInput, FiniteSetTheorems, WellFoundedInduction, TLAPS

(* Events and retained edges of the sources S, and the lists made of them.  *)
EventSet(S) ==
  {e \in [src : S, kind : {"down", "up", "action", "error"}, edge : Nat,
          retain : BOOLEAN] :
     /\ e.kind = "down" => Pressed(e.edge)
     /\ e.kind = "up" => ~Pressed(e.edge)
     /\ e.kind = "action" /\ e.retain => ~Pressed(e.edge)
     /\ e.kind = "error" => ~e.retain}

EdgeSet ==
  {x \in [edge : Nat, owes : SUBSET {"edge", "action"}] :
     /\ x.owes # {}
     /\ "action" \in x.owes => ~Pressed(x.edge)}

ListsSet(S) == [pending : Seq(EventSet(S)), retained : [S -> Seq(EdgeSet)],
                outstanding : Int]

(* What comes first of one source: an event before an event, an event       *)
(* before a retained edge, a retained edge before an event.                 *)
Before(a, e) ==
  \/ a.edge < e.edge
  \/ a.edge = e.edge /\ (e.retain => a.kind = "up" /\ e.kind = "action")
BeforeHeld(a, x) ==
  \/ a.edge < x.edge
  \/ a.edge = x.edge /\ a.kind = "up" /\ x.owes = {"action"}
HeldBefore(x, e) ==
  \/ x.edge < e.edge
  \/ x.edge = e.edge /\ (e.retain => e.kind = "action" /\ x.owes = {"edge"})

(* The events in front of the retained edges: those of P (in the event      *)
(* queue or received) and the pending ones.                                 *)
Ahead(P, b) == P \cup {b.pending[i] : i \in DOMAIN b.pending}

PendingInOrder(P, b) ==
  \A j \in DOMAIN b.pending :
    /\ \A a \in P : a.src = b.pending[j].src => Before(a, b.pending[j])
    /\ \A i \in 1 .. j - 1 : b.pending[i].src = b.pending[j].src =>
                               Before(b.pending[i], b.pending[j])
Ordered(A, s, held) ==
  \A k \in DOMAIN held :
    /\ \A a \in A : a.src = s => BeforeHeld(a, held[k])
    /\ \A i \in 1 .. k - 1 : held[i].edge < held[k].edge
HeldInOrder(P, b) ==
  \A s \in DOMAIN b.retained : Ordered(Ahead(P, b), s, b.retained[s])

(* Lists of the right type, in order, within the bound on retained edges.   *)
Fine(S, P, b) ==
  /\ b \in ListsSet(S)
  /\ PendingInOrder(P, b)
  /\ HeldInOrder(P, b)
  /\ \A s \in S : Len(b.retained[s]) <= RetainedEdgeMax

(* An event may be placed behind all others of its source.                  *)
Behind(A, held, e) ==
  /\ \A a \in A : a.src = e.src => Before(a, e)
  /\ \A k \in DOMAIN held : HeldBefore(held[k], e)
Follows(P, b, e) == Behind(Ahead(P, b), b.retained[e.src], e)

(* No edge of s is newer than n; edge n itself is on its way or received,   *)
(* in a form that is never dropped.                                         *)
Within(held, n) == \A k \in DOMAIN held : held[k].edge <= n
Bound(P, b, s, n) ==
  /\ \A a \in Ahead(P, b) : a.src = s => a.edge <= n
  /\ Within(b.retained[s], n)
HoldsEdge(held, n) ==
  \E k \in DOMAIN held : "edge" \in held[k].owes /\ held[k].edge = n
Carries(P, b, s, n) ==
  \/ \E a \in P : IsLevel(a, s) /\ a.edge = n
  \/ \E i \in DOMAIN b.pending : /\ IsLevel(b.pending[i], s)
                                 /\ b.pending[i].retain
                                 /\ b.pending[i].edge = n
  \/ HoldsEdge(b.retained[s], n)

(* A source has no pending event while it has retained edges.               *)
Apart(b) ==
  \A i \in DOMAIN b.pending : b.retained[b.pending[i].src] = <<>>

(* What the account holds beyond the events of the lists.                   *)
Debt(b) ==
  b.outstanding - Len(b.pending)
    - Cardinality(Owing(b.retained, DOMAIN b.retained))

(* c is b with e placed behind the other events of its source, or dropped.  *)
Places(S, P, b, e, c) ==
  /\ Fine(S, P, c)
  /\ \A o \in EventSet(S) :
       Follows(P, b, o) /\ (o.src = e.src => Before(e, o)) => Follows(P, c, o)
  /\ \A s \in S, n \in Nat :
       Bound(P, b, s, n) /\ (s = e.src => e.edge <= n) =>
         Bound(P, c, s, n) /\ (Carries(P, b, s, n) => Carries(P, c, s, n))
  /\ e.retain /\ IsLevel(e, e.src) => Carries(P, c, e.src, e.edge)
  /\ Debt(c) = Debt(b) - 1

(* c holds the events of b, in the same order of each source.               *)
Rearranges(S, P, b, c) ==
  /\ Fine(S, P, c)
  /\ \A o \in EventSet(S) : Follows(P, b, o) => Follows(P, c, o)
  /\ \A s \in S, n \in Nat :
       Bound(P, b, s, n) =>
         Bound(P, c, s, n) /\ (Carries(P, b, s, n) => Carries(P, c, s, n))
  /\ Debt(c) = Debt(b)

------------------------------------------------------------------------------
(* A non-empty set of naturals has a least element: the induction on the    *)
(* rounds of a loop is on the first round that goes wrong.                  *)
LEMMA LeastNatural ==
  ASSUME NEW T \in SUBSET Nat, T # {}
  PROVE  \E n \in T : \A m \in T : n <= m
<1> DEFINE R == {x \in Nat \X Nat : x[1] < x[2]}
<1>1. IsWellFoundedOn(R, Nat)
  BY NatLessThanWellFounded, Zenon DEF OpToRel
<1>2. PICK n \in T : \A m \in T : ~ (<<m, n>> \in R)
  <2> HIDE DEF R
  <2> QED
    BY WFMin, <1>1, Zenon
<1>3. ASSUME NEW m \in T
      PROVE  n <= m
  <2>1. ~(m < n)
    BY <1>2, Zenon
  <2> QED
    BY <2>1
<1> QED
  BY <1>3, Zenon

(* The parity of an edge number is whether it is a press.                   *)
LEMMA PressedNext ==
  ASSUME NEW n \in Nat
  PROVE  Pressed(n + 1) <=> ~Pressed(n)
BY DEF Pressed

------------------------------------------------------------------------------
(* retain_button_event.                                                     *)

(* The owed events are finitely many, source by source.                     *)
LEMMA OwingFinite ==
  ASSUME NEW S, IsFiniteSet(S), NEW held
  PROVE  IsFiniteSet(Owing(held, S)) /\ Cardinality(Owing(held, S)) \in Nat
<1> DEFINE K == (1 .. RetainedEdgeMax) \X {"edge", "action"}
<1>1. IsFiniteSet(1 .. RetainedEdgeMax)
  BY RetainedAssumption, FS_Interval
<1>2. IsFiniteSet({"edge", "action"})
  <2>1. IsFiniteSet({"edge"} \cup {"action"})
    BY FS_Singleton, FS_AddElement, Zenon
  <2>2. {"edge"} \cup {"action"} = {"edge", "action"}
    BY Zenon
  <2> QED
    BY <2>1, <2>2, Zenon
<1>3. IsFiniteSet(K)
  BY <1>1, <1>2, FS_Product, Zenon
<1>4. IsFiniteSet(S \X K)
  <2> HIDE DEF K
  <2> QED
    BY <1>3, FS_Product, Zenon
<1>5. Owing(held, S) \in SUBSET (S \X K)
  BY Zenon DEF Owing
<1>6. IsFiniteSet(Owing(held, S))
  <2> HIDE DEF K
  <2> QED
    BY <1>4, <1>5, FS_Subset, Zenon
<1> QED
  BY <1>6, FS_CardinalityType, Zenon

(* Records with one field replaced, spelled out.                            *)
LEMMA RecordExcept ==
  ASSUME NEW p, NEW r, NEW o, NEW v
  PROVE  LET b == [pending |-> p, retained |-> r, outstanding |-> o]
         IN /\ [b EXCEPT !.pending = v] =
                 [pending |-> v, retained |-> r, outstanding |-> o]
            /\ [b EXCEPT !.retained = v] =
                 [pending |-> p, retained |-> v, outstanding |-> o]
            /\ [b EXCEPT !.outstanding = v] =
                 [pending |-> p, retained |-> r, outstanding |-> v]
OBVIOUS

(* The lists are a record of their three fields.                            *)
LEMMA ListsRecord ==
  ASSUME NEW S, NEW b \in ListsSet(S)
  PROVE  b = [pending |-> b.pending, retained |-> b.retained,
              outstanding |-> b.outstanding]
BY Zenon DEF ListsSet

(* The list of a source after the final action has joined its last edge,    *)
(* and after an edge was added, with or without those before it.            *)
Joined(held, e, new) ==
  /\ Joins(held, e)
  /\ held[Len(held)].owes = {"edge"}
  /\ new = [held EXCEPT ![Len(held)] =
              [edge |-> e.edge, owes |-> {"edge", "action"}]]
Added(held, e, new) ==
  /\ ~Joins(held, e)
  /\ \/ new = <<RetainedEdge(e)>>
     \/ new = Append(held, RetainedEdge(e)) /\ Len(held) < RetainedEdgeMax

(* What retain_edge stores is an edge.                                      *)
LEMMA RetainedEdgeType ==
  ASSUME NEW S, NEW e \in EventSet(S), e.retain
  PROVE  RetainedEdge(e) \in EdgeSet
BY Zenon DEF RetainedEdge, EdgeSet, EventSet

(* What Retain does to the lists of the other sources and to its own.       *)
LEMMA RetainEffect ==
  ASSUME NEW S, NEW b \in ListsSet(S), NEW e \in EventSet(S), e.retain,
         \A s \in S : Len(b.retained[s]) <= RetainedEdgeMax
  PROVE  \E new \in Seq(EdgeSet), out \in Int :
           /\ Retain(b, e) = [pending |-> b.pending,
                              retained |-> [b.retained EXCEPT ![e.src] = new],
                              outstanding |-> out]
           /\ Len(new) <= RetainedEdgeMax
           /\ \/ Joined(b.retained[e.src], e, new) /\ out = b.outstanding
              \/ /\ ~Joins(b.retained[e.src], e)
                 /\ new = <<RetainedEdge(e)>>
                 /\ out = b.outstanding - RetainedEvents(b.retained, e.src)
              \/ /\ ~Joins(b.retained[e.src], e)
                 /\ new = Append(b.retained[e.src], RetainedEdge(e))
                 /\ out = b.outstanding
<1> DEFINE held == b.retained[e.src]
           last == held[Len(held)]
<1>1. /\ e.src \in S /\ e.edge \in Nat
      /\ held \in Seq(EdgeSet) /\ Len(held) <= RetainedEdgeMax
      /\ b.retained \in [S -> Seq(EdgeSet)] /\ b.outstanding \in Int
  BY Zenon DEF ListsSet, EventSet
<1>2. RetainedEdge(e) \in EdgeSet
  BY RetainedEdgeType, Zenon
<1>3. CASE Joins(held, e)
  <2>1. last \in EdgeSet /\ Len(held) \in 1 .. Len(held)
    BY <1>1, <1>3 DEF Joins
  <2>2. last.owes = {"edge"}
    BY <2>1, <1>3, Zenon DEF EdgeSet, Joins
  <2> DEFINE x == [edge |-> e.edge, owes |-> {"edge", "action"}]
             g == [held EXCEPT ![Len(held)] = x]
  <2>3. x \in EdgeSet
    BY <1>1, <1>3, Zenon DEF EdgeSet, EventSet, Joins
  <2>4. g \in Seq(EdgeSet) /\ Len(g) = Len(held)
    BY <2>3, <1>1, <2>1
  <2>5. last = [edge |-> e.edge, owes |-> {"edge"}]
    BY <2>1, <2>2, <1>3, Zenon DEF EdgeSet, Joins
  <2>6. [last EXCEPT !.owes = @ \cup {"action"}] = x
    <3>1. last.owes \cup {"action"} = {"edge", "action"}
      BY <2>5
    <3>2. ASSUME NEW v
          PROVE  [last EXCEPT !.owes = v] = [edge |-> e.edge, owes |-> v]
      BY <2>5
    <3> QED
      BY <3>1, <3>2, Zenon
  <2>7. Retain(b, e) = [b EXCEPT !.retained = [@ EXCEPT ![e.src] = g]]
    BY <2>6, <1>3, Zenon DEF Retain
  <2>8. Retain(b, e) = [pending |-> b.pending,
                        retained |-> [b.retained EXCEPT ![e.src] = g],
                        outstanding |-> b.outstanding]
    BY <2>7, Zenon DEF ListsSet
  <2>9. Joined(held, e, g)
    BY <2>2, <1>3, Zenon DEF Joined
  <2> HIDE DEF g
  <2> QED
    BY <2>8, <2>9, <2>4, <1>1, Zenon
<1>4. CASE ~Joins(held, e) /\ Len(held) >= RetainedEdgeMax
  <2> DEFINE n == RetainedEvents(b.retained, e.src)
             g == <<RetainedEdge(e)>>
  <2>1. n \in Nat
    BY OwingFinite, FS_Singleton, Zenon DEF RetainedEvents
  <2>2. Evict(b, e.src) = [pending |-> b.pending,
                           retained |-> [b.retained EXCEPT ![e.src] = <<>>],
                           outstanding |-> b.outstanding - n]
    <3> DEFINE c == [b EXCEPT !.outstanding = @ - n]
    <3>1. c = [pending |-> b.pending, retained |-> b.retained,
               outstanding |-> b.outstanding - n]
      BY ListsRecord, RecordExcept
    <3>2. Evict(b, e.src) = [c EXCEPT !.retained = [@ EXCEPT ![e.src] = <<>>]]
      BY Zenon DEF Evict
    <3> HIDE DEF c
    <3> QED
      BY <3>1, <3>2, Zenon
  <2>3. [Evict(b, e.src) EXCEPT !.retained[e.src] = Append(@, RetainedEdge(e))]
          = [pending |-> b.pending,
             retained |-> [b.retained EXCEPT ![e.src] = g],
             outstanding |-> b.outstanding - n]
    <3> HIDE DEF n
    <3> QED
      BY <2>2, <1>1
  <2>4. Retain(b, e) = [pending |-> b.pending,
                        retained |-> [b.retained EXCEPT ![e.src] = g],
                        outstanding |-> b.outstanding - n]
    BY <2>3, <1>4, Zenon DEF Retain
  <2>5. g \in Seq(EdgeSet) /\ Len(g) <= RetainedEdgeMax
    BY <1>2, RetainedAssumption
  <2>6. b.outstanding - n \in Int
    BY <2>1, <1>1
  <2> HIDE DEF g
  <2> QED
    BY <2>4, <2>5, <2>6, <1>4, Zenon DEF g
<1>5. CASE ~Joins(held, e) /\ ~(Len(held) >= RetainedEdgeMax)
  <2> DEFINE g == Append(held, RetainedEdge(e))
  <2>1. Retain(b, e) = [b EXCEPT !.retained = [@ EXCEPT ![e.src] = g]]
    BY <1>5, Zenon DEF Retain
  <2>2. Retain(b, e) = [pending |-> b.pending,
                        retained |-> [b.retained EXCEPT ![e.src] = g],
                        outstanding |-> b.outstanding]
    BY <2>1, Zenon DEF ListsSet
  <2>3. g \in Seq(EdgeSet) /\ Len(g) <= RetainedEdgeMax
    BY <1>1, <1>2, <1>5, RetainedAssumption
  <2> HIDE DEF g
  <2> QED
    BY <2>2, <2>3, <1>5, <1>1, Zenon DEF g
<1> QED
  BY <1>3, <1>4, <1>5, Zenon

(* The list of one source stays in order: an edge added without joining is  *)
(* newer than every edge held.                                              *)
LEMMA HeldStaysOrdered ==
  ASSUME NEW S, NEW A \in SUBSET EventSet(S), NEW held \in Seq(EdgeSet),
         NEW e \in EventSet(S), e.retain, Ordered(A, e.src, held),
         Behind(A, held, e), NEW new,
         Joined(held, e, new) \/ Added(held, e, new)
  PROVE  Ordered(A, e.src, new)
<1> DEFINE last == held[Len(held)]
           x == RetainedEdge(e)
<1>1. e.edge \in Nat /\ x \in EdgeSet /\ x.edge = e.edge
  BY RetainedEdgeType, Zenon DEF EventSet, RetainedEdge
<1>2. \A a \in A : a.src = e.src => BeforeHeld(a, x)
  BY Zenon DEF Behind, Before, BeforeHeld, RetainedEdge
<1>3. CASE Joined(held, e, new)
  <2>1. Len(held) \in DOMAIN held /\ last.edge = e.edge /\ last.owes = {"edge"}
    BY <1>3 DEF Joined, Joins
  <2>2. \A a \in A : a.src = e.src => a.edge < e.edge
    BY <2>1, Zenon DEF Ordered, BeforeHeld
  <2>3. /\ DOMAIN new = DOMAIN held
        /\ \A k \in DOMAIN held : new[k].edge = held[k].edge
    BY <2>1, <1>3, Zenon DEF Joined
  <2>4. \A k \in DOMAIN held : k # Len(held) => new[k] = held[k]
    BY <1>3, Zenon DEF Joined
  <2> QED
    BY <2>1, <2>2, <2>3, <2>4 DEF Ordered, BeforeHeld
<1>4. CASE Added(held, e, new)
  <2>1. \A k \in DOMAIN held : held[k].edge < e.edge
    <3> SUFFICES ASSUME NEW k \in DOMAIN held, ~(held[k].edge < e.edge)
                 PROVE  FALSE
      BY Zenon
    <3>1. held[k].edge = e.edge /\ e.kind = "action" /\ held[k].owes = {"edge"}
      BY Zenon DEF Behind, HeldBefore
    <3>2. k # Len(held)
      BY <3>1, <1>4 DEF Added, Joins
    <3>3. Len(held) \in DOMAIN held /\ k \in 1 .. Len(held) - 1
      BY <3>2
    <3>4. held[k].edge < last.edge
      BY <3>3, Zenon DEF Ordered
    <3>5. HeldBefore(last, e) /\ last \in EdgeSet
      BY <3>3 DEF Behind
    <3> QED
      BY <3>1, <3>4, <3>5, <1>1 DEF HeldBefore, EdgeSet
  <2>2. CASE new = <<x>>
    BY <2>2, <1>1, <1>2 DEF Ordered
  <2>3. CASE new = Append(held, x)
    <3> HIDE DEF x
    <3>1. /\ DOMAIN new = 1 .. Len(held) + 1
          /\ \A k \in DOMAIN held : new[k] = held[k]
          /\ new[Len(held) + 1] = x
      BY <2>3, <1>1
    <3> QED
      BY <3>1, <2>1, <1>1, <1>2 DEF Ordered
  <2> QED
    BY <2>2, <2>3, <1>4, Zenon DEF Added
<1> QED
  BY <1>3, <1>4, Zenon

(* What may follow the event may follow the list it was put into.           *)
LEMMA HeldStaysBehind ==
  ASSUME NEW S, NEW A, NEW held \in Seq(EdgeSet), NEW e \in EventSet(S),
         e.retain, NEW new, Joined(held, e, new) \/ Added(held, e, new),
         NEW o \in EventSet(S), Behind(A, held, o), Before(e, o)
  PROVE  Behind(A, new, o)
<1> DEFINE x == RetainedEdge(e)
<1>1. /\ e.edge \in Nat /\ o.edge \in Nat
      /\ x \in EdgeSet /\ x.edge = e.edge
      /\ e.kind # "action" => x.owes = {"edge"}
  BY RetainedEdgeType, Zenon DEF EventSet, RetainedEdge
<1>2. HeldBefore(x, o)
  BY <1>1, Zenon DEF HeldBefore, Before
<1>3. CASE Joined(held, e, new)
  <2> DEFINE y == [edge |-> e.edge, owes |-> {"edge", "action"}]
  <2>1. HeldBefore(y, o)
    BY <1>3, Zenon DEF HeldBefore, Before, Joined, Joins
  <2>2. /\ DOMAIN new = DOMAIN held
        /\ \A k \in DOMAIN held : new[k] \in {held[k], y}
    BY <1>3, Zenon DEF Joined
  <2> HIDE DEF y
  <2> QED
    BY <2>1, <2>2, Zenon DEF Behind
<1>4. CASE Added(held, e, new)
  <2> HIDE DEF x
  <2>1. \A k \in DOMAIN new :
          new[k] = x \/ (k \in DOMAIN held /\ new[k] = held[k])
    BY <1>4, <1>1 DEF Added, x
  <2> QED
    BY <2>1, <1>2, Zenon DEF Behind
<1> QED
  BY <1>3, <1>4, Zenon

(* The edges of the list, old and new.                                      *)
LEMMA HeldEdges ==
  ASSUME NEW S, NEW A \in SUBSET EventSet(S), NEW held \in Seq(EdgeSet),
         NEW e \in EventSet(S), e.retain, Ordered(A, e.src, held),
         Behind(A, held, e), NEW new,
         Joined(held, e, new) \/ Added(held, e, new), NEW n \in Nat,
         e.edge <= n, Within(held, n)
  PROVE  /\ Within(new, n)
         /\ HoldsEdge(held, n) => HoldsEdge(new, n)
<1> USE DEF Within
<1> DEFINE x == RetainedEdge(e)
<1>1. /\ e.edge \in Nat /\ x \in EdgeSet /\ x.edge = e.edge
  BY RetainedEdgeType, Zenon DEF EventSet, RetainedEdge
<1>2. CASE Joined(held, e, new)
  <2>1. /\ DOMAIN new = DOMAIN held
        /\ \A k \in DOMAIN held : new[k].edge = held[k].edge
        /\ \A k \in DOMAIN held :
             "edge" \in held[k].owes => "edge" \in new[k].owes
    BY <1>2, Zenon DEF Joined, Joins
  <2> QED
    BY <2>1, Zenon DEF HoldsEdge
<1>3. CASE Added(held, e, new)
  <2>1. \A k \in DOMAIN new : new[k].edge <= n
    BY <1>3, <1>1 DEF Added
  <2>2. ASSUME NEW k \in DOMAIN held, "edge" \in held[k].owes, held[k].edge = n
        PROVE  HoldsEdge(new, n)
    <3>1. HeldBefore(held[k], e)
      BY Zenon DEF Behind
    <3>2. e.edge = n /\ e.kind = "action" /\ held[k].owes = {"edge"}
      BY <3>1, <2>2, <1>1 DEF HeldBefore
    <3>3. Len(held) \in DOMAIN held
      OBVIOUS
    <3>4. CASE k = Len(held)
      BY <3>4, <3>2, <2>2, <1>3, <3>3 DEF Added, Joins
    <3>5. CASE k # Len(held)
      <4>1. held[k].edge < held[Len(held)].edge
        BY <3>5, <3>3 DEF Ordered
      <4>2. held[Len(held)].edge <= n /\ held[Len(held)].edge \in Nat
        BY <3>3 DEF EdgeSet
      <4> QED
        BY <4>1, <4>2, <2>2
    <3> QED
      BY <3>4, <3>5, Zenon
  <2> QED
    BY <2>1, <2>2, Zenon DEF HoldsEdge
<1> QED
  BY <1>2, <1>3, Zenon

(* A retained press or release is in the list.                              *)
LEMMA HeldHasEdge ==
  ASSUME NEW S, NEW held \in Seq(EdgeSet), NEW e \in EventSet(S), e.retain,
         e.kind \in {"down", "up"}, NEW new,
         Joined(held, e, new) \/ Added(held, e, new)
  PROVE  HoldsEdge(new, e.edge)
<1> DEFINE x == RetainedEdge(e)
<1>1. x \in EdgeSet /\ x.edge = e.edge /\ "edge" \in x.owes
  BY RetainedEdgeType, Zenon DEF RetainedEdge
<1>2. Added(held, e, new)
  BY Zenon DEF Joined, Joins
<1> HIDE DEF x
<1>3. \E k \in DOMAIN new : new[k] = x
  <2>1. CASE new = <<x>>
    BY <2>1
  <2>2. CASE new = Append(held, x)
    BY <2>2
  <2> QED
    BY <2>1, <2>2, <1>2, Zenon DEF Added, x
<1> QED
  BY <1>3, <1>1, Zenon DEF HoldsEdge

------------------------------------------------------------------------------
(* The account of keep_or_drop_input_event.                                 *)

(* What one source is owed changes the account by itself.                   *)
LEMMA OwingSplit ==
  ASSUME NEW S, IsFiniteSet(S), NEW s \in S, NEW held, NEW left,
         \A t \in S : t # s => left[t] = held[t]
  PROVE  Cardinality(Owing(left, S)) =
           Cardinality(Owing(held, S)) - Cardinality(Owing(held, {s}))
             + Cardinality(Owing(left, {s}))
<1> DEFINE rest == Owing(held, S) \ Owing(held, {s})
<1>1. Owing(held, S) \cap Owing(held, {s}) = Owing(held, {s})
  BY Zenon DEF Owing
<1>2. /\ IsFiniteSet(rest)
      /\ Cardinality(rest) = Cardinality(Owing(held, S))
                               - Cardinality(Owing(held, {s}))
  BY <1>1, OwingFinite, FS_Difference, Zenon
<1>3. Owing(left, S) = rest \cup Owing(left, {s})
  <2>1. ASSUME NEW x, x[1] = s
        PROVE  x \in Owing(left, S) <=> x \in rest \/ x \in Owing(left, {s})
    BY <2>1, Zenon DEF Owing
  <2>2. ASSUME NEW x, x[1] # s
        PROVE  x \in Owing(left, S) <=> x \in rest \/ x \in Owing(left, {s})
    BY <2>2, Zenon DEF Owing
  <2> QED
    BY <2>1, <2>2, Zenon
<1>4. rest \cap Owing(left, {s}) = {}
  BY Zenon DEF Owing
<1>5. /\ IsFiniteSet(Owing(left, {s}))
      /\ Cardinality(Owing(left, {s})) \in Nat
      /\ Cardinality(Owing(held, {s})) \in Nat
      /\ Cardinality(Owing(held, S)) \in Nat
  BY OwingFinite, FS_Singleton, Zenon
<1> DEFINE own == Owing(left, {s})
<1>6. Cardinality(rest \cup own) =
        Cardinality(rest) + Cardinality(own) - Cardinality(rest \cap own)
  <2> HIDE DEF rest, own
  <2> QED
    BY <1>2, <1>5, FS_Union, Zenon DEF own
<1>7. Cardinality(rest) \in Nat /\ Cardinality({}) = 0
  BY <1>2, FS_CardinalityType, FS_EmptySet, Zenon
<1>8. Cardinality(Owing(left, S)) =
        Cardinality(rest) + Cardinality(own) - Cardinality({})
  BY <1>3, <1>4, <1>6, Zenon
<1> HIDE DEF rest
<1> QED
  BY <1>2, <1>5, <1>7, <1>8

(* An event that is kept is one more that its source is owed.               *)
LEMMA RetainDebt ==
  ASSUME NEW S, IsFiniteSet(S), NEW b \in ListsSet(S), NEW e \in EventSet(S),
         e.retain, \A s \in S : Len(b.retained[s]) <= RetainedEdgeMax
  PROVE  Debt(Retain(b, e)) = Debt(b) - 1
<1> DEFINE held == b.retained[e.src]
           s == e.src
<1>1. /\ s \in S /\ held \in Seq(EdgeSet)
      /\ b.retained \in [S -> Seq(EdgeSet)] /\ b.outstanding \in Int
      /\ b.pending \in Seq(EventSet(S)) /\ Len(b.pending) \in Nat
      /\ Len(held) <= RetainedEdgeMax
  BY DEF ListsSet, EventSet
<1>2. PICK new \in Seq(EdgeSet), out \in Int :
        /\ Retain(b, e) = [pending |-> b.pending,
                           retained |-> [b.retained EXCEPT ![e.src] = new],
                           outstanding |-> out]
        /\ Len(new) <= RetainedEdgeMax
        /\ \/ Joined(b.retained[e.src], e, new) /\ out = b.outstanding
           \/ /\ ~Joins(b.retained[e.src], e)
              /\ new = <<RetainedEdge(e)>>
              /\ out = b.outstanding - RetainedEvents(b.retained, e.src)
           \/ /\ ~Joins(b.retained[e.src], e)
              /\ new = Append(b.retained[e.src], RetainedEdge(e))
              /\ out = b.outstanding
  BY RetainEffect, Zenon
<1> DEFINE left == [b.retained EXCEPT ![s] = new]
           all == Cardinality(Owing(b.retained, S))
           had == Cardinality(Owing(b.retained, {s}))
           has == Cardinality(Owing(left, {s}))
           w == IF e.kind = "action" THEN "action" ELSE "edge"
<1>3. left[s] = new /\ b.retained[s] = held /\ DOMAIN left = S
  BY <1>1, Zenon
<1>4. /\ all \in Nat /\ had \in Nat /\ has \in Nat
      /\ IsFiniteSet(Owing(b.retained, {s}))
  BY OwingFinite, FS_Singleton, Zenon
<1>5. Cardinality(Owing(left, S)) = all - had + has
  <2>1. s \in S /\ \A t \in S : t # s => left[t] = b.retained[t]
    BY <1>1, Zenon
  <2> HIDE DEF left
  <2> QED
    BY OwingSplit, <2>1, <1>4, OwingFinite
<1>6. \/ has = had + 1 /\ out = b.outstanding
      \/ has = 1 /\ out = b.outstanding - had
  <2>1. RetainedEdge(e).owes = {w} /\ RetainedEdge(e) \in EdgeSet
    BY RetainedEdgeType, Zenon DEF RetainedEdge
  <2>2. CASE Joined(held, e, new) /\ out = b.outstanding
    <3> DEFINE x == <<s, <<Len(held), "action">>>>
    <3>1. /\ Len(held) \in DOMAIN held /\ held[Len(held)].owes = {"edge"}
          /\ DOMAIN new = DOMAIN held
          /\ new[Len(held)].owes = {"edge", "action"}
          /\ \A k \in DOMAIN held : k # Len(held) => new[k] = held[k]
      BY <2>2, <1>1 DEF Joined, Joins
    <3>2. Len(held) \in 1 .. RetainedEdgeMax
      BY <1>1, <3>1, RetainedAssumption
    <3>3. x \notin Owing(b.retained, {s})
      BY <3>1, Zenon DEF Owing
    <3>4. Owing(left, {s}) = Owing(b.retained, {s}) \cup {x}
      <4> HIDE DEF left, held
      <4> QED
        BY <3>1, <3>2, <1>3 DEF Owing
    <3> QED
      BY <3>3, <3>4, <2>2, <1>4, FS_AddElement, Zenon
  <2>3. CASE new = <<RetainedEdge(e)>> /\ out = b.outstanding - had
    <3> DEFINE x == <<s, <<1, w>>>>
    <3>1. DOMAIN new = {1} /\ new[1].owes = {w}
      BY <2>1, <2>3
    <3>2. Owing(left, {s}) = {x}
      <4> HIDE DEF left, held
      <4> QED
        BY <3>1, <1>3, RetainedAssumption DEF Owing
    <3>3. has = 1
      BY <3>2, FS_Singleton, Zenon
    <3> QED
      BY <3>3, <2>3, Zenon
  <2>4. CASE new = Append(held, RetainedEdge(e)) /\ out = b.outstanding
    <3> DEFINE x == <<s, <<Len(held) + 1, w>>>>
    <3>1. /\ DOMAIN new = DOMAIN held \cup {Len(held) + 1}
          /\ Len(held) + 1 \notin DOMAIN held
          /\ new[Len(held) + 1].owes = {w}
          /\ \A k \in DOMAIN held : new[k] = held[k]
      BY <2>4, <2>1, <1>1
    <3>2. Len(held) + 1 \in 1 .. RetainedEdgeMax
      BY <1>1, <1>2, <2>4, <2>1, RetainedAssumption
    <3>3. x \notin Owing(b.retained, {s})
      BY <3>1, Zenon DEF Owing
    <3>4. Owing(left, {s}) = Owing(b.retained, {s}) \cup {x}
      <4> HIDE DEF left, held
      <4> QED
        BY <3>1, <3>2, <1>3 DEF Owing
    <3>5. Cardinality(Owing(b.retained, {s}) \cup {x}) = had + 1
      BY <3>3, <1>4, FS_AddElement, Zenon
    <3> QED
      BY <3>4, <3>5, <2>4, Zenon
  <2> QED
    BY <2>2, <2>3, <2>4, <1>2, Zenon DEF RetainedEvents
<1>7. Debt(b) = b.outstanding - Len(b.pending) - all
  BY <1>1, Zenon DEF Debt
<1>8. Debt(Retain(b, e)) = out - Len(b.pending) - Cardinality(Owing(left, S))
  BY <1>2, <1>3 DEF Debt
<1>9. Debt(Retain(b, e)) = out - Len(b.pending) - (all - had + has)
  BY <1>5, <1>8, Zenon
<1> DEFINE o == b.outstanding
           l == Len(b.pending)
<1>10. o \in Int /\ l \in Nat /\ all \in Nat /\ had \in Nat /\ has \in Nat
  BY <1>1, <1>4, Zenon
<1> HIDE DEF all, had, has, o, l
<1>11. out - l - (all - had + has) = o - l - all - 1
  <2>1. CASE has = had + 1 /\ out = o
    BY <2>1, <1>10
  <2>2. CASE has = 1 /\ out = o - had
    BY <2>2, <1>10
  <2> QED
    BY <2>1, <2>2, <1>6, Zenon DEF o
<1>12. Debt(Retain(b, e)) = o - l - all - 1 /\ Debt(b) = o - l - all
  BY <1>7, <1>9, <1>11, Zenon DEF o, l
<1> QED
  BY <1>12, Zenon

(* keep_or_drop_input_event leaves the pending events and the retained      *)
(* edges of the other sources alone.                                        *)
Kept(S, b, e, c) ==
  /\ c \in ListsSet(S)
  /\ c.pending = b.pending
  /\ \A s \in S : s # e.src => c.retained[s] = b.retained[s]
  /\ \A s \in S : Len(c.retained[s]) <= RetainedEdgeMax
  /\ \/ e.retain /\ Joined(b.retained[e.src], e, c.retained[e.src])
     \/ e.retain /\ Added(b.retained[e.src], e, c.retained[e.src])
     \/ ~e.retain /\ c.retained = b.retained
  /\ Debt(c) = Debt(b) - 1

(* What keeping or dropping an event does to the lists.                     *)
LEMMA KeepEffect ==
  ASSUME NEW S, IsFiniteSet(S), NEW b \in ListsSet(S), NEW e \in EventSet(S),
         \A s \in S : Len(b.retained[s]) <= RetainedEdgeMax,
         NEW c, c = KeepOrDrop(b, e)
  PROVE  Kept(S, b, e, c)
<1> USE DEF Kept
<1> DEFINE s0 == e.src
<1>1. /\ s0 \in S
      /\ b.retained \in [S -> Seq(EdgeSet)] /\ b.outstanding \in Int
      /\ b.pending \in Seq(EventSet(S))
  BY Zenon DEF ListsSet, EventSet
<1>2. CASE e.retain
  <2>1. PICK new \in Seq(EdgeSet), out \in Int :
          /\ Retain(b, e) = [pending |-> b.pending,
                             retained |-> [b.retained EXCEPT ![e.src] = new],
                             outstanding |-> out]
          /\ Len(new) <= RetainedEdgeMax
          /\ \/ Joined(b.retained[e.src], e, new) /\ out = b.outstanding
             \/ /\ ~Joins(b.retained[e.src], e)
                /\ new = <<RetainedEdge(e)>>
                /\ out = b.outstanding - RetainedEvents(b.retained, e.src)
             \/ /\ ~Joins(b.retained[e.src], e)
                /\ new = Append(b.retained[e.src], RetainedEdge(e))
                /\ out = b.outstanding
    BY <1>2, RetainEffect, Zenon
  <2>2. c = Retain(b, e)
    BY <1>2, Zenon DEF KeepOrDrop
  <2>3. Joined(b.retained[s0], e, new) \/ Added(b.retained[s0], e, new)
    <3>1. ASSUME new = Append(b.retained[s0], RetainedEdge(e))
          PROVE  Len(b.retained[s0]) < RetainedEdgeMax
      <4>1. Len(new) = Len(b.retained[s0]) + 1
        BY <3>1, <1>1
      <4> QED
        BY <4>1, <2>1, <1>1, RetainedAssumption
    <3> QED
      BY <2>1, <3>1, Zenon DEF Added
  <2>4. /\ c.pending = b.pending
        /\ c.retained = [b.retained EXCEPT ![s0] = new]
        /\ c.outstanding = out
        /\ c \in ListsSet(S)
    BY <2>1, <2>2, <1>1 DEF ListsSet
  <2>5. /\ c.retained[s0] = new
        /\ \A s \in S : s # s0 => c.retained[s] = b.retained[s]
    BY <2>4, <1>1, Zenon
  <2>6. \A s \in S : Len(c.retained[s]) <= RetainedEdgeMax
    BY <2>5, <2>1, Zenon
  <2>7. Debt(c) = Debt(b) - 1
    BY <2>2, <1>2, RetainDebt, Zenon
  <2> QED
    BY <1>2, <2>3, <2>4, <2>5, <2>6, <2>7, Zenon
<1>3. CASE ~e.retain
  <2>1. c = [b EXCEPT !.outstanding = @ - 1]
    BY <1>3, Zenon DEF KeepOrDrop
  <2>2. c = [pending |-> b.pending, retained |-> b.retained,
             outstanding |-> b.outstanding - 1]
    BY <2>1, Zenon DEF ListsSet
  <2>3. c \in ListsSet(S)
    BY <2>2, <1>1 DEF ListsSet
  <2>4. Debt(c) = Debt(b) - 1
    <3>1. /\ Cardinality(Owing(b.retained, DOMAIN b.retained)) \in Nat
          /\ Len(b.pending) \in Nat
      BY <1>1, OwingFinite
    <3> QED
      BY <2>2, <3>1, <1>1 DEF Debt
  <2> QED
    BY <1>3, <2>2, <2>3, <2>4
<1> QED
  BY <1>2, <1>3, Zenon

(* An event behind all others of its source is kept behind them.            *)
LEMMA KeepPlaces ==
  ASSUME NEW S, IsFiniteSet(S), NEW P \in SUBSET EventSet(S), NEW b,
         Fine(S, P, b), NEW e \in EventSet(S), Follows(P, b, e),
         NEW c, c = KeepOrDrop(b, e)
  PROVE  Places(S, P, b, e, c)
<1> DEFINE A == Ahead(P, b)
           held == b.retained[e.src]
           new == c.retained[e.src]
<1>1. /\ e.src \in S /\ b \in ListsSet(S)
      /\ DOMAIN b.retained = S /\ held \in Seq(EdgeSet)
      /\ \A s \in S : Len(b.retained[s]) <= RetainedEdgeMax
  BY Zenon DEF Fine, ListsSet, EventSet
<1>2. A \in SUBSET EventSet(S)
  BY <1>1 DEF Ahead, ListsSet
<1>3. /\ c \in ListsSet(S)
      /\ c.pending = b.pending
      /\ \A s \in S : s # e.src => c.retained[s] = b.retained[s]
      /\ \A s \in S : Len(c.retained[s]) <= RetainedEdgeMax
      /\ \/ e.retain /\ Joined(held, e, new)
         \/ e.retain /\ Added(held, e, new)
         \/ ~e.retain /\ c.retained = b.retained
      /\ Debt(c) = Debt(b) - 1
  <2>1. Kept(S, b, e, c)
    BY <1>1, KeepEffect, Zenon
  <2> QED
    BY <2>1, Zenon DEF Kept
<1>4. Ahead(P, c) = A /\ DOMAIN c.retained = S
  BY <1>3, Zenon DEF Ahead, ListsSet
<1>5. Ordered(A, e.src, held) /\ Behind(A, held, e)
  BY <1>1, Zenon DEF Fine, HeldInOrder, Follows
<1>6. Ordered(A, e.src, new)
  BY <1>1, <1>2, <1>3, <1>5, HeldStaysOrdered, Zenon
<1>7. Fine(S, P, c)
  <2>1. PendingInOrder(P, c)
    BY <1>3, Zenon DEF Fine, PendingInOrder
  <2>2. ASSUME NEW s \in S
        PROVE  Ordered(Ahead(P, c), s, c.retained[s])
    BY <1>1, <1>3, <1>4, <1>6, Zenon DEF Fine, HeldInOrder
  <2> QED
    BY <1>3, <1>4, <2>1, <2>2, Zenon DEF Fine, HeldInOrder
<1>8. ASSUME NEW o \in EventSet(S), Follows(P, b, o),
             o.src = e.src => Before(e, o)
      PROVE  Follows(P, c, o)
  <2>1. o.src \in S
    BY Zenon DEF EventSet
  <2>2. CASE o.src = e.src
    <3>1. Behind(A, held, o) /\ Before(e, o)
      BY <1>8, <2>2, Zenon DEF Follows
    <3>2. Behind(A, new, o)
      BY <3>1, <1>1, <1>3, HeldStaysBehind
    <3> QED
      BY <3>2, <2>2, <1>4, Zenon DEF Follows
  <2>3. CASE o.src # e.src
    BY <1>8, <2>1, <2>3, <1>3, <1>4, Zenon DEF Follows
  <2> QED
    BY <2>2, <2>3, Zenon
<1>9. ASSUME NEW s \in S, NEW n \in Nat, Bound(P, b, s, n),
             s = e.src => e.edge <= n
      PROVE  /\ Bound(P, c, s, n)
             /\ Carries(P, b, s, n) => Carries(P, c, s, n)
  <2>1. CASE s = e.src
    <3>1. /\ Within(new, n)
          /\ HoldsEdge(held, n) => HoldsEdge(new, n)
      <4>1. e.edge <= n /\ Within(held, n)
        BY <1>9, <2>1, Zenon DEF Bound
      <4>2. CASE e.retain
        <5>1. Joined(held, e, new) \/ Added(held, e, new)
          BY <1>3, <4>2, Zenon
        <5>2. e.edge \in Nat
          BY Zenon DEF EventSet
        <5> HIDE DEF A, held, new
        <5> QED
          BY <1>1, <1>2, <1>5, <4>1, <4>2, <5>1, <5>2, HeldEdges, Zenon
      <4>3. CASE ~e.retain
        BY <1>3, <4>1, <4>3, Zenon
      <4> QED
        BY <4>2, <4>3, Zenon
    <3> QED
      BY <1>9, <2>1, <3>1, <1>3, <1>4, Zenon DEF Bound, Carries
  <2>2. CASE s # e.src
    BY <1>9, <2>2, <1>3, <1>4, Zenon DEF Bound, Carries
  <2> QED
    BY <2>1, <2>2, Zenon
<1>10. ASSUME e.retain, IsLevel(e, e.src)
       PROVE  Carries(P, c, e.src, e.edge)
  <2>1. e.kind \in {"down", "up"}
    BY <1>10, Zenon DEF IsLevel
  <2>2. HoldsEdge(new, e.edge)
    BY <1>10, <2>1, <1>1, <1>3, HeldHasEdge, Zenon
  <2> QED
    BY <2>2, Zenon DEF Carries
<1> QED
  BY <1>3, <1>7, <1>8, <1>9, <1>10, Zenon DEF Places

------------------------------------------------------------------------------
Pushed(S, b, e, c) ==
  /\ c \in ListsSet(S)
  /\ c.pending = Append(b.pending, e)
  /\ c.retained = b.retained
  /\ c.outstanding = b.outstanding

(* What appending to the pending list does to the lists.                    *)
LEMMA PushEffect ==
  ASSUME NEW S, NEW b \in ListsSet(S), NEW e \in EventSet(S),
         NEW c, c = Push(b, e)
  PROVE  Pushed(S, b, e, c)
<1>1. c = [pending |-> Append(b.pending, e), retained |-> b.retained,
           outstanding |-> b.outstanding]
  BY ListsRecord, RecordExcept, Zenon DEF Push
<1>2. Append(b.pending, e) \in Seq(EventSet(S))
  BY DEF ListsSet
<1> QED
  BY <1>1, <1>2 DEF ListsSet, Pushed

(* An event behind all others of a source without retained edges may be     *)
(* pending.                                                                 *)
LEMMA PushPlaces ==
  ASSUME NEW S, IsFiniteSet(S), NEW P \in SUBSET EventSet(S), NEW b,
         Fine(S, P, b), NEW e \in EventSet(S), Follows(P, b, e),
         b.retained[e.src] = <<>>, NEW c, c = Push(b, e)
  PROVE  Places(S, P, b, e, c)
<1>1. /\ e.src \in S /\ e.edge \in Nat /\ b \in ListsSet(S)
      /\ b.retained \in [S -> Seq(EdgeSet)] /\ b.outstanding \in Int
      /\ b.pending \in Seq(EventSet(S)) /\ Len(b.pending) \in Nat
  BY DEF Fine, ListsSet, EventSet
<1>2. /\ c \in ListsSet(S)
      /\ c.pending = Append(b.pending, e)
      /\ c.retained = b.retained
      /\ c.outstanding = b.outstanding
  <2>1. Pushed(S, b, e, c)
    BY <1>1, PushEffect, Zenon
  <2> QED
    BY <2>1, Zenon DEF Pushed
<1>3. /\ DOMAIN c.pending = 1 .. Len(b.pending) + 1
      /\ DOMAIN b.pending = 1 .. Len(b.pending)
      /\ \A i \in DOMAIN b.pending : c.pending[i] = b.pending[i]
      /\ c.pending[Len(b.pending) + 1] = e
      /\ Len(c.pending) = Len(b.pending) + 1
  BY <1>1, <1>2
<1>4. Ahead(P, c) = Ahead(P, b) \cup {e}
  BY <1>3 DEF Ahead
<1>5. Fine(S, P, c)
  <2>1. /\ PendingInOrder(P, b)
        /\ \A a \in Ahead(P, b) : a.src = e.src => Before(a, e)
    BY Zenon DEF Fine, Follows, Behind
  <2>2. PendingInOrder(P, c)
    <3> SUFFICES ASSUME NEW j \in DOMAIN c.pending
                 PROVE  /\ \A a \in P : a.src = c.pending[j].src =>
                                          Before(a, c.pending[j])
                        /\ \A i \in 1 .. j - 1 :
                             c.pending[i].src = c.pending[j].src =>
                               Before(c.pending[i], c.pending[j])
      BY Zenon DEF PendingInOrder
    <3>1. CASE j \in DOMAIN b.pending
      <4>1. c.pending[j] = b.pending[j]
        BY <3>1, <1>3, Zenon
      <4>2. \A i \in 1 .. j - 1 : c.pending[i] = b.pending[i]
        <5>1. \A i \in 1 .. j - 1 : i \in 1 .. Len(b.pending)
          BY <3>1, <1>1, <1>3
        <5> QED
          BY <5>1, <1>3, Zenon
      <4> QED
        BY <2>1, <3>1, <4>1, <4>2, Zenon DEF PendingInOrder
    <3>2. CASE j = Len(b.pending) + 1
      <4>1. c.pending[j] = e /\ \A i \in 1 .. j - 1 : i \in DOMAIN b.pending
        BY <3>2, <1>1, <1>3
      <4>2. \A i \in 1 .. j - 1 : c.pending[i] \in Ahead(P, b)
        BY <4>1, <1>3, Zenon DEF Ahead
      <4>3. P \subseteq Ahead(P, b)
        BY Zenon DEF Ahead
      <4> QED
        BY <2>1, <4>1, <4>2, <4>3, Zenon
    <3> QED
      BY <3>1, <3>2, <1>3
  <2>3. ASSUME NEW s \in S
        PROVE  Ordered(Ahead(P, c), s, b.retained[s])
    <3>1. Ordered(Ahead(P, b), s, b.retained[s])
      BY <1>1, Zenon DEF Fine, HeldInOrder
    <3> QED
      BY <3>1, <1>4 DEF Ordered
  <2> QED
    BY <1>1, <1>2, <2>2, <2>3, Zenon DEF Fine, HeldInOrder
<1>6. ASSUME NEW o \in EventSet(S), Follows(P, b, o),
             o.src = e.src => Before(e, o)
      PROVE  Follows(P, c, o)
  BY <1>2, <1>4, <1>6, Zenon DEF Follows, Behind
<1>7. ASSUME NEW s \in S, NEW n \in Nat, Bound(P, b, s, n),
             s = e.src => e.edge <= n
      PROVE  /\ Bound(P, c, s, n)
             /\ Carries(P, b, s, n) => Carries(P, c, s, n)
  <2>1. Bound(P, c, s, n)
    BY <1>2, <1>4, <1>7, Zenon DEF Bound
  <2>2. Carries(P, b, s, n) => Carries(P, c, s, n)
    BY <1>2, <1>3 DEF Carries
  <2> QED
    BY <2>1, <2>2, Zenon
<1>8. ASSUME e.retain, IsLevel(e, e.src)
      PROVE  Carries(P, c, e.src, e.edge)
  <2>1. Len(b.pending) + 1 \in DOMAIN c.pending
    BY <1>1, <1>3
  <2> QED
    BY <1>8, <2>1, <1>3, Zenon DEF Carries
<1>9. Debt(c) = Debt(b) - 1
  <2>1. Cardinality(Owing(b.retained, DOMAIN b.retained)) \in Nat
    BY <1>1, OwingFinite, Zenon
  <2> QED
    BY <1>1, <1>2, <1>3, <2>1 DEF Debt
<1> QED
  BY <1>2, <1>5, <1>6, <1>7, <1>8, <1>9, Zenon DEF Places

------------------------------------------------------------------------------
(* The loops.                                                               *)

(* The rounds of the pass over the pending list.                            *)
LEMMA SiftedRounds ==
  ASSUME NEW b, NEW S, Len(b.pending) \in Nat
  PROVE  /\ Sifted(b, S)[0] = [b EXCEPT !.pending = <<>>]
         /\ \A i \in 1 .. Len(b.pending) :
              Sifted(b, S)[i] = SiftEvent(Sifted(b, S)[i - 1], b.pending[i], S)
<1> DEFINE First == [b EXCEPT !.pending = <<>>]
           Then(x, i) == SiftEvent(x, b.pending[i], S)
           IsPass(g, m) ==
             g = [i \in 0 .. m |-> IF i = 0 THEN First ELSE Then(g[i - 1], i)]
           T == {m \in 0 .. Len(b.pending) : ~\E g : IsPass(g, m)}
<1>1. ASSUME T # {}
      PROVE  FALSE
  <2> HIDE DEF First, Then
  <2>1. PICK m \in T : \A k \in T : m <= k
    <3>1. T \in SUBSET Nat
      OBVIOUS
    <3> HIDE DEF T
    <3> QED
      BY <3>1, <1>1, LeastNatural, Zenon
  <2>2. m # 0
    <3> DEFINE g == [i \in 0 .. 0 |-> First]
    <3>1. IsPass(g, 0)
      OBVIOUS
    <3> HIDE DEF g, IsPass
    <3> QED
      BY <3>1, Zenon
  <2>3. PICK g : IsPass(g, m - 1)
    <3>1. m - 1 \in 0 .. Len(b.pending) /\ ~(m <= m - 1)
      BY <2>2
    <3> HIDE DEF IsPass
    <3> QED
      BY <3>1, <2>1, Zenon
  <2> DEFINE h == [i \in 0 .. m |-> IF i = m THEN Then(g[m - 1], m) ELSE g[i]]
  <2>4. \A i \in 0 .. m : h[i] = IF i = 0 THEN First ELSE Then(h[i - 1], i)
    BY <2>2, <2>3
  <2>5. IsPass(h, m)
    BY <2>4, Zenon
  <2> HIDE DEF h, IsPass
  <2> QED
    BY <2>5, <2>1, Zenon
<1>2. \E g : IsPass(g, Len(b.pending))
  <2> HIDE DEF IsPass
  <2> QED
    BY <1>1
<1>3. IsPass(Sifted(b, S), Len(b.pending))
  BY <1>2, Zenon DEF Sifted
<1>4. First = Sifted(b, S)[0]
  <2> HIDE DEF First, Then
  <2> QED
    BY <1>3
<1>5. \A i \in 1 .. Len(b.pending) :
        Sifted(b, S)[i] = Then(Sifted(b, S)[i - 1], i)
  <2> HIDE DEF First, Then
  <2> QED
    BY <1>3
<1> QED
  BY <1>4, <1>5, Zenon

(* The rounds of a source: its retained edges.                              *)
EdgeRounds(b, s, f) ==
  \A i \in 1 .. Len(b.retained[s]) :
    f[i] = RequeueEdge(f[i - 1], s, b.retained[s][i])

(* The rounds of the loop over the edges of one source.                     *)
LEMMA RequeuedEdgesRounds ==
  ASSUME NEW b, NEW s, Len(b.retained[s]) \in Nat
  PROVE  /\ RequeuedEdges(b, s)[0] = [b EXCEPT !.retained[s] = <<>>]
         /\ EdgeRounds(b, s, RequeuedEdges(b, s))
<1> USE DEF EdgeRounds
<1> DEFINE First == [b EXCEPT !.retained[s] = <<>>]
           Then(x, i) == RequeueEdge(x, s, b.retained[s][i])
           IsPass(g, m) ==
             g = [i \in 0 .. m |-> IF i = 0 THEN First ELSE Then(g[i - 1], i)]
           T == {m \in 0 .. Len(b.retained[s]) : ~\E g : IsPass(g, m)}
<1>1. ASSUME T # {}
      PROVE  FALSE
  <2> HIDE DEF First, Then
  <2>1. PICK m \in T : \A k \in T : m <= k
    <3>1. T \in SUBSET Nat
      OBVIOUS
    <3> HIDE DEF T
    <3> QED
      BY <3>1, <1>1, LeastNatural, Zenon
  <2>2. m # 0
    <3> DEFINE g == [i \in 0 .. 0 |-> First]
    <3>1. IsPass(g, 0)
      OBVIOUS
    <3> HIDE DEF g, IsPass
    <3> QED
      BY <3>1, Zenon
  <2>3. PICK g : IsPass(g, m - 1)
    <3>1. m - 1 \in 0 .. Len(b.retained[s]) /\ ~(m <= m - 1)
      BY <2>2
    <3> HIDE DEF IsPass
    <3> QED
      BY <3>1, <2>1, Zenon
  <2> DEFINE h == [i \in 0 .. m |-> IF i = m THEN Then(g[m - 1], m) ELSE g[i]]
  <2>4. \A i \in 0 .. m : h[i] = IF i = 0 THEN First ELSE Then(h[i - 1], i)
    BY <2>2, <2>3
  <2>5. IsPass(h, m)
    BY <2>4, Zenon
  <2> HIDE DEF h, IsPass
  <2> QED
    BY <2>5, <2>1, Zenon
<1>2. \E g : IsPass(g, Len(b.retained[s]))
  <2> HIDE DEF IsPass
  <2> QED
    BY <1>1
<1>3. IsPass(RequeuedEdges(b, s), Len(b.retained[s]))
  BY <1>2, Zenon DEF RequeuedEdges
<1>4. First = RequeuedEdges(b, s)[0]
  <2> HIDE DEF First, Then
  <2> QED
    BY <1>3
<1>5. \A i \in 1 .. Len(b.retained[s]) :
        RequeuedEdges(b, s)[i] = Then(RequeuedEdges(b, s)[i - 1], i)
  <2> HIDE DEF First, Then
  <2> QED
    BY <1>3
<1> QED
  BY <1>4, <1>5, Zenon

(* The rounds of requeue_retained_edges: the sources.                       *)
LEMMA RequeuedSourcesRounds ==
  ASSUME NEW b, Len(board) \in Nat
  PROVE  /\ RequeuedSources(b)[0] = b
         /\ \A i \in 1 .. Len(board) :
              RequeuedSources(b)[i] = RequeueSource(RequeuedSources(b)[i - 1], i)
<1> DEFINE First == b
           Then(x, i) == RequeueSource(x, i)
           IsPass(g, m) ==
             g = [i \in 0 .. m |-> IF i = 0 THEN First ELSE Then(g[i - 1], i)]
           T == {m \in 0 .. Len(board) : ~\E g : IsPass(g, m)}
<1>1. ASSUME T # {}
      PROVE  FALSE
  <2> HIDE DEF First, Then
  <2>1. PICK m \in T : \A k \in T : m <= k
    <3>1. T \in SUBSET Nat
      OBVIOUS
    <3> HIDE DEF T
    <3> QED
      BY <3>1, <1>1, LeastNatural, Zenon
  <2>2. m # 0
    <3> DEFINE g == [i \in 0 .. 0 |-> First]
    <3>1. IsPass(g, 0)
      OBVIOUS
    <3> HIDE DEF g, IsPass
    <3> QED
      BY <3>1, Zenon
  <2>3. PICK g : IsPass(g, m - 1)
    <3>1. m - 1 \in 0 .. Len(board) /\ ~(m <= m - 1)
      BY <2>2
    <3> HIDE DEF IsPass
    <3> QED
      BY <3>1, <2>1, Zenon
  <2> DEFINE h == [i \in 0 .. m |-> IF i = m THEN Then(g[m - 1], m) ELSE g[i]]
  <2>4. \A i \in 0 .. m : h[i] = IF i = 0 THEN First ELSE Then(h[i - 1], i)
    BY <2>2, <2>3
  <2>5. IsPass(h, m)
    BY <2>4, Zenon
  <2> HIDE DEF h, IsPass
  <2> QED
    BY <2>5, <2>1, Zenon
<1>2. \E g : IsPass(g, Len(board))
  <2> HIDE DEF IsPass
  <2> QED
    BY <1>1
<1>3. IsPass(RequeuedSources(b), Len(board))
  BY <1>2, Zenon DEF RequeuedSources
<1>4. First = RequeuedSources(b)[0]
  <2> HIDE DEF First, Then
  <2> QED
    BY <1>3
<1>5. \A i \in 1 .. Len(board) :
        RequeuedSources(b)[i] = Then(RequeuedSources(b)[i - 1], i)
  <2> HIDE DEF First, Then
  <2> QED
    BY <1>3
<1> QED
  BY <1>4, <1>5, Zenon

(* The rounds of a reading: the sources.                                    *)
LEMMA TakenRounds ==
  ASSUME NEW b, NEW readings, Len(board) \in Nat
  PROVE  /\ Taken(b, readings)[0] = b
         /\ \A i \in 1 .. Len(board) :
              Taken(b, readings)[i] =
                Take(Taken(b, readings)[i - 1], i, readings[i])
<1> DEFINE First == b
           Then(x, i) == Take(x, i, readings[i])
           IsPass(g, m) ==
             g = [i \in 0 .. m |-> IF i = 0 THEN First ELSE Then(g[i - 1], i)]
           T == {m \in 0 .. Len(board) : ~\E g : IsPass(g, m)}
<1>1. ASSUME T # {}
      PROVE  FALSE
  <2> HIDE DEF First, Then
  <2>1. PICK m \in T : \A k \in T : m <= k
    <3>1. T \in SUBSET Nat
      OBVIOUS
    <3> HIDE DEF T
    <3> QED
      BY <3>1, <1>1, LeastNatural, Zenon
  <2>2. m # 0
    <3> DEFINE g == [i \in 0 .. 0 |-> First]
    <3>1. IsPass(g, 0)
      OBVIOUS
    <3> HIDE DEF g, IsPass
    <3> QED
      BY <3>1, Zenon
  <2>3. PICK g : IsPass(g, m - 1)
    <3>1. m - 1 \in 0 .. Len(board) /\ ~(m <= m - 1)
      BY <2>2
    <3> HIDE DEF IsPass
    <3> QED
      BY <3>1, <2>1, Zenon
  <2> DEFINE h == [i \in 0 .. m |-> IF i = m THEN Then(g[m - 1], m) ELSE g[i]]
  <2>4. \A i \in 0 .. m : h[i] = IF i = 0 THEN First ELSE Then(h[i - 1], i)
    BY <2>2, <2>3
  <2>5. IsPass(h, m)
    BY <2>4, Zenon
  <2> HIDE DEF h, IsPass
  <2> QED
    BY <2>5, <2>1, Zenon
<1>2. \E g : IsPass(g, Len(board))
  <2> HIDE DEF IsPass
  <2> QED
    BY <1>1
<1>3. IsPass(Taken(b, readings), Len(board))
  BY <1>2, Zenon DEF Taken
<1>4. First = Taken(b, readings)[0]
  <2> HIDE DEF First, Then
  <2> QED
    BY <1>3
<1>5. \A i \in 1 .. Len(board) :
        Taken(b, readings)[i] = Then(Taken(b, readings)[i - 1], i)
  <2> HIDE DEF First, Then
  <2> QED
    BY <1>3
<1> QED
  BY <1>4, <1>5, Zenon

------------------------------------------------------------------------------
(* A pass over the pending list: after i rounds, the lists g hold the first *)
(* i events, and the others may follow.                                     *)
Later(b, i, s, n) ==
  \E j \in i + 1 .. Len(b.pending) : /\ IsLevel(b.pending[j], s)
                                     /\ b.pending[j].retain
                                     /\ b.pending[j].edge = n
SiftsTo(S, P, b, R, i, g) ==
  /\ Fine(S, P, g)
  /\ \A j \in i + 1 .. Len(b.pending) : Follows(P, g, b.pending[j])
  /\ \A t \in S \ R : g.retained[t] = b.retained[t]
  /\ Len(g.pending) <= i
  /\ \A k \in DOMAIN g.pending :
       /\ g.pending[k].src \notin R
       /\ \E j \in DOMAIN b.pending : g.pending[k] = b.pending[j]
  /\ \A o \in EventSet(S) : Follows(P, b, o) => Follows(P, g, o)
  /\ \A s \in S, n \in Nat :
       Bound(P, b, s, n) =>
         /\ Bound(P, g, s, n)
         /\ Carries(P, b, s, n) => Carries(P, g, s, n) \/ Later(b, i, s, n)
  /\ Debt(g) = Debt(b) + Len(b.pending) - i

(* The sieve begins with an empty pending list.                             *)
LEMMA SiftBegins ==
  ASSUME NEW S, IsFiniteSet(S), NEW P \in SUBSET EventSet(S), NEW b,
         Fine(S, P, b), Apart(b), NEW R \in SUBSET S,
         NEW g, g = [b EXCEPT !.pending = <<>>]
  PROVE  SiftsTo(S, P, b, R, 0, g)
<1>1. /\ b.retained \in [S -> Seq(EdgeSet)] /\ b.outstanding \in Int
      /\ b.pending \in Seq(EventSet(S)) /\ Len(b.pending) \in Nat
      /\ b \in ListsSet(S)
  BY DEF Fine, ListsSet
<1>2. /\ g.pending = <<>> /\ g.retained = b.retained
      /\ g.outstanding = b.outstanding /\ g \in ListsSet(S)
      /\ DOMAIN g.pending = {} /\ Len(g.pending) = 0
  <2>1. g = [pending |-> <<>>, retained |-> b.retained,
             outstanding |-> b.outstanding]
    BY <1>1, ListsRecord, RecordExcept, Zenon
  <2>2. <<>> \in Seq(EventSet(S)) /\ Len(<<>>) = 0 /\ DOMAIN <<>> = {}
    OBVIOUS
  <2>3. g \in ListsSet(S)
    BY <1>1, <2>1, <2>2, Zenon DEF ListsSet
  <2> QED
    BY <2>1, <2>2, <2>3, Zenon
<1>3. Ahead(P, g) = P /\ P \subseteq Ahead(P, b)
  BY <1>2, Zenon DEF Ahead
<1>4. Fine(S, P, g)
  <2>1. PendingInOrder(P, g)
    BY <1>2, Zenon DEF PendingInOrder
  <2>2. HeldInOrder(P, g)
    BY <1>2, <1>3, Zenon DEF Fine, HeldInOrder, Ordered
  <2> QED
    BY <1>2, <2>1, <2>2, Zenon DEF Fine
<1>5. ASSUME NEW j \in 1 .. Len(b.pending)
      PROVE  Follows(P, g, b.pending[j])
  <2>1. j \in DOMAIN b.pending /\ g.retained[b.pending[j].src] = <<>>
    BY <1>1, <1>2 DEF Apart
  <2>2. \A a \in P : a.src = b.pending[j].src => Before(a, b.pending[j])
    BY <2>1, Zenon DEF Fine, PendingInOrder
  <2> QED
    BY <1>3, <2>1, <2>2 DEF Follows, Behind
<1>6. \A o \in EventSet(S) : Follows(P, b, o) => Follows(P, g, o)
  BY <1>2, <1>3, Zenon DEF Follows, Behind
<1>7. ASSUME NEW s \in S, NEW n \in Nat, Bound(P, b, s, n)
      PROVE  /\ Bound(P, g, s, n)
             /\ Carries(P, b, s, n) => Carries(P, g, s, n) \/ Later(b, 0, s, n)
  <2>1. Bound(P, g, s, n)
    BY <1>2, <1>3, <1>7, Zenon DEF Bound
  <2>2. DOMAIN b.pending = 0 + 1 .. Len(b.pending)
    BY <1>1
  <2> QED
    BY <1>2, <2>1, <2>2, Zenon DEF Carries, Later
<1>8. Debt(g) = Debt(b) + Len(b.pending) - 0
  <2>1. Cardinality(Owing(b.retained, DOMAIN b.retained)) \in Nat
    BY <1>1, OwingFinite, Zenon
  <2> QED
    BY <1>1, <1>2, <2>1 DEF Debt
<1> QED
  BY <1>1, <1>2, <1>4, <1>5, <1>6, <1>7, <1>8 DEF SiftsTo

(* One round of the sieve.                                                  *)
LEMMA SiftContinues ==
  ASSUME NEW S, IsFiniteSet(S), NEW P \in SUBSET EventSet(S), NEW b,
         Fine(S, P, b), Apart(b), NEW R \in SUBSET S,
         NEW i \in 1 .. Len(b.pending), NEW g, SiftsTo(S, P, b, R, i - 1, g),
         NEW h, h = SiftEvent(g, b.pending[i], R)
  PROVE  SiftsTo(S, P, b, R, i, h)
<1> DEFINE e == b.pending[i]
           n == Len(b.pending)
<1>1. /\ b.retained \in [S -> Seq(EdgeSet)] /\ b.outstanding \in Int
      /\ b.pending \in Seq(EventSet(S)) /\ n \in Nat
      /\ i \in DOMAIN b.pending /\ e \in EventSet(S) /\ e.src \in S
  BY DEF Fine, ListsSet, EventSet
<1>2. /\ Fine(S, P, g) /\ g \in ListsSet(S) /\ Len(g.pending) <= i - 1
      /\ g.pending \in Seq(EventSet(S))
      /\ \A t \in S \ R : g.retained[t] = b.retained[t]
      /\ \A s \in S : Len(g.retained[s]) <= RetainedEdgeMax
  BY Zenon DEF SiftsTo, Fine, ListsSet
<1>3. Follows(P, g, e)
  <2>1. i \in i - 1 + 1 .. n
    BY <1>1
  <2> QED
    BY <2>1, Zenon DEF SiftsTo
<1>4. /\ Places(S, P, g, e, h)
      /\ \A t \in S \ R : h.retained[t] = b.retained[t]
      /\ Len(h.pending) <= i
      /\ \A k \in DOMAIN h.pending :
           /\ h.pending[k].src \notin R
           /\ \E j \in DOMAIN b.pending : h.pending[k] = b.pending[j]
  <2>1. CASE e.src \in R
    <3>1. h = KeepOrDrop(g, e)
      BY <2>1, Zenon DEF SiftEvent
    <3>2. Places(S, P, g, e, h)
      BY <3>1, <1>1, <1>2, <1>3, KeepPlaces, Zenon
    <3>3. Kept(S, g, e, h)
      BY <3>1, <1>1, <1>2, KeepEffect, Zenon
    <3>4. /\ h.pending = g.pending
          /\ \A t \in S \ R : h.retained[t] = b.retained[t]
      BY <3>3, <2>1, <1>2, Zenon DEF Kept
    <3>5. Len(h.pending) <= i
      BY <3>4, <1>2
    <3> QED
      BY <3>2, <3>4, <3>5 DEF SiftsTo
  <2>2. CASE e.src \notin R
    <3>1. h = Push(g, e)
      BY <2>2, Zenon DEF SiftEvent
    <3>2. g.retained[e.src] = <<>>
      BY <1>1, <1>2, <2>2, Zenon DEF Apart
    <3>3. /\ Places(S, P, g, e, h)
          /\ h.pending = Append(g.pending, e)
          /\ h.retained = g.retained
      <4>1. e \in EventSet(S) /\ Fine(S, P, g) /\ Follows(P, g, e)
        BY <1>1, <1>2, <1>3, Zenon
      <4> HIDE DEF e
      <4>2. Places(S, P, g, e, h)
        BY <3>1, <3>2, <4>1, PushPlaces, Zenon
      <4>3. Pushed(S, g, e, h)
        BY <3>1, <4>1, <1>2, PushEffect, Zenon
      <4> QED
        BY <4>2, <4>3, Zenon DEF Pushed
    <3>4. /\ Len(h.pending) = Len(g.pending) + 1
          /\ \A k \in DOMAIN h.pending :
               \/ h.pending[k] = e
               \/ (k \in DOMAIN g.pending /\ h.pending[k] = g.pending[k])
      BY <3>3, <1>1, <1>2
    <3>5. Len(h.pending) <= i
      BY <3>4, <1>2
    <3>6. ASSUME NEW k \in DOMAIN h.pending
          PROVE  /\ h.pending[k].src \notin R
                 /\ \E j \in DOMAIN b.pending : h.pending[k] = b.pending[j]
      <4>1. CASE h.pending[k] = e
        BY <4>1, <2>2, <1>1, Zenon
      <4>2. CASE k \in DOMAIN g.pending /\ h.pending[k] = g.pending[k]
        BY <4>2, Zenon DEF SiftsTo
      <4> QED
        BY <4>1, <4>2, <3>4, Zenon
    <3> QED
      BY <3>3, <3>5, <3>6, <1>2, Zenon
  <2> QED
    BY <2>1, <2>2, Zenon
<1>5. e \in Ahead(P, b)
  BY <1>1, Zenon DEF Ahead
<1>6. ASSUME NEW j \in i + 1 .. n
      PROVE  Follows(P, h, b.pending[j])
  <2>1. /\ j \in i - 1 + 1 .. n /\ j \in DOMAIN b.pending /\ i \in 1 .. j - 1
        /\ b.pending[j] \in EventSet(S)
    BY <1>1
  <2>2. b.pending[j].src = e.src => Before(e, b.pending[j])
    BY <2>1, Zenon DEF Fine, PendingInOrder
  <2>3. Follows(P, g, b.pending[j])
    BY <2>1, Zenon DEF SiftsTo
  <2> QED
    BY <2>1, <2>2, <2>3, <1>4, Zenon DEF Places
<1>7. ASSUME NEW o \in EventSet(S), Follows(P, b, o)
      PROVE  Follows(P, h, o)
  <2>1. o.src = e.src => Before(e, o)
    BY <1>7, <1>5, Zenon DEF Follows, Behind
  <2>2. Follows(P, g, o)
    BY <1>7, Zenon DEF SiftsTo
  <2> QED
    BY <2>1, <2>2, <1>4, Zenon DEF Places
<1>8. ASSUME NEW s \in S, NEW m \in Nat, Bound(P, b, s, m)
      PROVE  /\ Bound(P, h, s, m)
             /\ Carries(P, b, s, m) => Carries(P, h, s, m) \/ Later(b, i, s, m)
  <2>1. s = e.src => e.edge <= m
    BY <1>8, <1>5, Zenon DEF Bound
  <2>2. /\ Bound(P, g, s, m)
        /\ Carries(P, b, s, m) => Carries(P, g, s, m) \/ Later(b, i - 1, s, m)
    BY <1>8, Zenon DEF SiftsTo
  <2>3. Bound(P, h, s, m) /\ (Carries(P, g, s, m) => Carries(P, h, s, m))
    BY <2>1, <2>2, <1>4, Zenon DEF Places
  <2>4. ASSUME Later(b, i - 1, s, m)
        PROVE  Carries(P, h, s, m) \/ Later(b, i, s, m)
    <3>1. PICK j \in i - 1 + 1 .. n : /\ IsLevel(b.pending[j], s)
                                      /\ b.pending[j].retain
                                      /\ b.pending[j].edge = m
      BY <2>4, Zenon DEF Later
    <3>2. j \in i + 1 .. n \/ j = i
      BY <1>1
    <3>3. CASE j \in i + 1 .. n
      BY <3>1, <3>3, Zenon DEF Later
    <3>4. CASE j = i
      <4>1. e.retain /\ IsLevel(e, e.src) /\ e.src = s /\ e.edge = m
        BY <3>1, <3>4, Zenon DEF IsLevel
      <4> QED
        BY <4>1, <1>4, Zenon DEF Places
    <3> QED
      BY <3>2, <3>3, <3>4, Zenon
  <2> QED
    BY <2>2, <2>3, <2>4, Zenon
<1>9. Debt(h) = Debt(b) + n - i
  <2>1. Debt(h) = Debt(g) - 1 /\ Debt(g) = Debt(b) + n - (i - 1)
    BY <1>4, Zenon DEF Places, SiftsTo
  <2>2. Debt(b) \in Int
    <3>1. Cardinality(Owing(b.retained, DOMAIN b.retained)) \in Nat
      BY <1>1, OwingFinite, Zenon
    <3> QED
      BY <1>1, <3>1 DEF Debt
  <2> QED
    BY <2>1, <2>2, <1>1
<1>10. Fine(S, P, h)
  BY <1>4, Zenon DEF Places
<1> QED
  BY <1>4, <1>6, <1>7, <1>8, <1>9, <1>10, Zenon DEF SiftsTo

(* The sieve has looked at every pending event.                             *)
LEMMA SiftEnds ==
  ASSUME NEW S, IsFiniteSet(S), NEW P \in SUBSET EventSet(S), NEW b,
         Fine(S, P, b), Apart(b), NEW R \in SUBSET S
  PROVE  SiftsTo(S, P, b, R, Len(b.pending), Sift(b, R))
<1> DEFINE n == Len(b.pending)
           f == Sifted(b, R)
           T == {m \in 0 .. n : ~SiftsTo(S, P, b, R, m, f[m])}
<1>1. n \in Nat
  BY DEF Fine, ListsSet
<1>2. f[0] = [b EXCEPT !.pending = <<>>]
  BY <1>1, SiftedRounds, Zenon
<1>3. \A i \in 1 .. n : f[i] = SiftEvent(f[i - 1], b.pending[i], R)
  BY <1>1, SiftedRounds, Zenon
<1> HIDE DEF f
<1>4. ASSUME T # {}
      PROVE  FALSE
  <2>1. PICK m \in T : \A k \in T : m <= k
    <3>1. T \in SUBSET Nat
      OBVIOUS
    <3> HIDE DEF T
    <3> QED
      BY <3>1, <1>4, LeastNatural, Zenon
  <2>2. m # 0
    BY <1>2, SiftBegins
  <2>3. m \in 1 .. n /\ m - 1 \in 0 .. n /\ ~(m <= m - 1)
    BY <1>1, <2>2
  <2>4. SiftsTo(S, P, b, R, m - 1, f[m - 1])
    BY <2>1, <2>3, Zenon
  <2>5. SiftsTo(S, P, b, R, m, f[m])
    BY <2>3, <2>4, <1>3, SiftContinues, Zenon
  <2> QED
    BY <2>5, Zenon
<1>5. n \in 0 .. n
  BY <1>1
<1> QED
  BY <1>4, <1>5, Zenon DEF Sift, f

(* What spill_source_pending_events and the end of enqueue_pending_events   *)
(* leave: the sources outside R as they were, the sources of R without a    *)
(* pending event.                                                           *)
Sifts(S, P, b, R, c) ==
  /\ Rearranges(S, P, b, c)
  /\ Apart(c)
  /\ \A t \in S \ R : c.retained[t] = b.retained[t]
  /\ \A k \in DOMAIN c.pending : c.pending[k].src \notin R
  /\ Len(c.pending) <= Len(b.pending)

(* The sieve moves events between the lists and loses no level.             *)
LEMMA SiftRearranges ==
  ASSUME NEW S, IsFiniteSet(S), NEW P \in SUBSET EventSet(S), NEW b,
         Fine(S, P, b), Apart(b), NEW R \in SUBSET S, NEW c, c = Sift(b, R)
  PROVE  Sifts(S, P, b, R, c)
<1> DEFINE n == Len(b.pending)
<1>1. SiftsTo(S, P, b, R, n, c)
  BY SiftEnds, Zenon
<1>2. /\ n \in Nat /\ b.retained \in [S -> Seq(EdgeSet)]
      /\ b.outstanding \in Int
      /\ b.pending \in Seq(EventSet(S))
  BY DEF Fine, ListsSet
<1>3. \A s, m : ~Later(b, n, s, m)
  BY <1>2 DEF Later
<1>4. Debt(c) = Debt(b)
  <2>1. Cardinality(Owing(b.retained, DOMAIN b.retained)) \in Nat
    BY <1>2, OwingFinite, Zenon
  <2>2. Debt(b) \in Int
    BY <1>2, <2>1 DEF Debt
  <2> QED
    BY <1>1, <1>2, <2>2 DEF SiftsTo
<1>5. Rearranges(S, P, b, c)
  BY <1>1, <1>3, <1>4, Zenon DEF SiftsTo, Rearranges
<1>6. Apart(c)
  <2> SUFFICES ASSUME NEW k \in DOMAIN c.pending
               PROVE  c.retained[c.pending[k].src] = <<>>
    BY Zenon DEF Apart
  <2>1. PICK j \in DOMAIN b.pending : c.pending[k] = b.pending[j]
    BY <1>1, Zenon DEF SiftsTo
  <2>2. c.pending[k].src \notin R /\ b.pending[j].src \in S
    BY <1>1, <1>2 DEF SiftsTo, EventSet
  <2> QED
    BY <2>1, <2>2, <1>1 DEF SiftsTo, Apart
<1> QED
  BY <1>1, <1>5, <1>6, Zenon DEF SiftsTo, Sifts

------------------------------------------------------------------------------
(* append_input_event.                                                      *)

(* An event placed after a rearrangement.                                   *)
LEMMA PlacesAfter ==
  ASSUME NEW S, NEW P, NEW b, NEW g, Rearranges(S, P, b, g),
         NEW e, NEW c, Places(S, P, g, e, c)
  PROVE  Places(S, P, b, e, c)
<1>1. \A o \in EventSet(S) :
        Follows(P, b, o) /\ (o.src = e.src => Before(e, o)) => Follows(P, c, o)
  BY Zenon DEF Rearranges, Places
<1>2. \A s \in S, n \in Nat :
        Bound(P, b, s, n) /\ (s = e.src => e.edge <= n) =>
          Bound(P, c, s, n) /\ (Carries(P, b, s, n) => Carries(P, c, s, n))
  <2> SUFFICES ASSUME NEW s \in S, NEW n \in Nat, Bound(P, b, s, n),
                      s = e.src => e.edge <= n
               PROVE  /\ Bound(P, c, s, n)
                      /\ Carries(P, b, s, n) => Carries(P, c, s, n)
    BY Zenon
  <2>1. Bound(P, g, s, n) /\ (Carries(P, b, s, n) => Carries(P, g, s, n))
    BY Zenon DEF Rearranges
  <2> QED
    BY <2>1, Zenon DEF Places
<1>3. Debt(c) = Debt(b) - 1
  BY Zenon DEF Rearranges, Places
<1> QED
  BY <1>1, <1>2, <1>3, Zenon DEF Places

(* An event appended behind all others of its source.                       *)
Appended(S, P, b, e, c) ==
  /\ Places(S, P, b, e, c)
  /\ Apart(c)
  /\ Len(c.pending) <= PendingCapacity

(* append_input_event places its event behind those of its source.          *)
LEMMA AppendPlaces ==
  ASSUME NEW S, IsFiniteSet(S), NEW P \in SUBSET EventSet(S), NEW b,
         Fine(S, P, b), Apart(b), Len(b.pending) <= PendingCapacity,
         NEW e \in EventSet(S), Follows(P, b, e), NEW c, c = AppendEvent(b, e)
  PROVE  Appended(S, P, b, e, c)
<1>1. /\ e.src \in S /\ b \in ListsSet(S)
      /\ b.pending \in Seq(EventSet(S)) /\ Len(b.pending) \in Nat
      /\ \A s \in S : Len(b.retained[s]) <= RetainedEdgeMax
  BY DEF Fine, ListsSet, EventSet
<1>2. CASE c = KeepOrDrop(b, e) /\ (e.retain => b.retained[e.src] # <<>>)
  <2>1. Places(S, P, b, e, c)
    BY <1>2, KeepPlaces, Zenon
  <2>2. Kept(S, b, e, c)
    BY <1>1, <1>2, KeepEffect, Zenon
  <2>3. Apart(c)
    <3> SUFFICES ASSUME NEW k \in DOMAIN b.pending
                 PROVE  c.retained[b.pending[k].src] = <<>>
      BY <2>2, Zenon DEF Apart, Kept
    <3>1. b.retained[b.pending[k].src] = <<>> /\ b.pending[k].src \in S
      BY <1>1 DEF Apart, EventSet
    <3>2. CASE b.pending[k].src # e.src
      BY <3>1, <3>2, <2>2, Zenon DEF Kept
    <3>3. CASE b.pending[k].src = e.src
      <4>1. ~e.retain
        BY <3>1, <3>3, <1>2, Zenon
      <4> QED
        BY <4>1, <3>1, <2>2, Zenon DEF Kept
    <3> QED
      BY <3>2, <3>3, Zenon
  <2> QED
    BY <2>1, <2>2, <2>3, Zenon DEF Kept, Appended
<1>3. CASE /\ b.retained[e.src] = <<>> /\ e.retain
           /\ c = KeepOrDrop(Spill(b, e.src), e)
  <2> DEFINE g == Sift(b, {e.src})
  <2>1. Sifts(S, P, b, {e.src}, g)
    BY <1>1, SiftRearranges, Zenon
  <2>2. c = KeepOrDrop(g, e)
    BY <1>3, Zenon DEF Spill
  <2> HIDE DEF g
  <2>3. /\ Fine(S, P, g) /\ Follows(P, g, e) /\ g \in ListsSet(S)
        /\ g.pending \in Seq(EventSet(S)) /\ Len(g.pending) \in Nat
        /\ \A s \in S : Len(g.retained[s]) <= RetainedEdgeMax
    BY <2>1 DEF Sifts, Rearranges, Fine, ListsSet
  <2>4. Places(S, P, b, e, c)
    <3>1. Places(S, P, g, e, c)
      BY <2>2, <2>3, KeepPlaces, Zenon
    <3> QED
      BY <3>1, <2>1, PlacesAfter, Zenon DEF Sifts
  <2>5. Kept(S, g, e, c)
    BY <2>2, <2>3, KeepEffect, Zenon
  <2>6. Apart(c)
    <3> SUFFICES ASSUME NEW k \in DOMAIN g.pending
                 PROVE  c.retained[g.pending[k].src] = <<>>
      BY <2>5, Zenon DEF Apart, Kept
    <3>1. g.retained[g.pending[k].src] = <<>> /\ g.pending[k].src \in S
      BY <2>1, <2>3 DEF Sifts, Apart, EventSet
    <3>2. g.pending[k].src # e.src
      BY <2>1, Zenon DEF Sifts
    <3> QED
      BY <3>1, <3>2, <2>5, Zenon DEF Kept
  <2>7. Len(c.pending) <= PendingCapacity
    <3>1. c.pending = g.pending /\ Len(g.pending) <= Len(b.pending)
      BY <2>1, <2>5, Zenon DEF Kept, Sifts
    <3> QED
      BY <3>1, <2>3, <1>1, PendingAssumption
  <2> QED
    BY <2>4, <2>6, <2>7, Zenon DEF Appended
<1>4. CASE /\ b.retained[e.src] = <<>> /\ c = Push(b, e)
           /\ ~(Len(b.pending) >= PendingCapacity)
  <2>1. Places(S, P, b, e, c)
    BY <1>4, PushPlaces, Zenon
  <2>2. Pushed(S, b, e, c)
    BY <1>1, <1>4, PushEffect, Zenon
  <2>3. /\ Len(c.pending) = Len(b.pending) + 1
        /\ \A k \in DOMAIN c.pending :
             \/ c.pending[k] = e
             \/ (k \in DOMAIN b.pending /\ c.pending[k] = b.pending[k])
    BY <2>2, <1>1 DEF Pushed
  <2>4. Apart(c)
    BY <2>2, <2>3, <1>4, Zenon DEF Pushed, Apart
  <2>5. Len(c.pending) <= PendingCapacity
    BY <2>3, <1>1, <1>4, PendingAssumption
  <2> QED
    BY <2>1, <2>4, <2>5, Zenon DEF Appended
<1> QED
  BY <1>2, <1>3, <1>4, Zenon DEF AppendEvent

------------------------------------------------------------------------------
(* requeue_retained_edges.                                                  *)

(* The event owed at place x of the retained edges of source s.             *)
SlotEvent(b, s, x) ==
  LET n == b.retained[s][x[2][1]].edge
  IN IF x[2][2] = "edge" THEN EdgeEvent(s, n) ELSE ActionEvent(s, n)

SlotBefore(x, y) ==
  \/ x[2][1] < y[2][1]
  \/ x[2][1] = y[2][1] /\ x[2][2] = "edge" /\ y[2][2] = "action"

(* The edges of s go back: the events of Q are still to be placed in g.     *)
RequeuesTo(S, P, b, s, Q, g) ==
  /\ Fine(S, P, g)
  /\ Apart(g)
  /\ g.retained = [b.retained EXCEPT ![s] = <<>>]
  /\ Len(g.pending) = Len(b.pending) + RetainedEvents(b.retained, s)
                        - Cardinality(Q)
  /\ \A x \in Q : Follows(P, g, SlotEvent(b, s, x))
  /\ \A o \in EventSet(S) : Follows(P, b, o) => Follows(P, g, o)
  /\ \A t \in S, n \in Nat :
       Bound(P, b, t, n) =>
         /\ Bound(P, g, t, n)
         /\ Carries(P, b, t, n) =>
              \/ Carries(P, g, t, n)
              \/ \E x \in Q : /\ t = s /\ x[2][2] = "edge"
                              /\ SlotEvent(b, s, x).edge = n
  /\ Debt(g) = Debt(b) + Cardinality(Q)

(* A place where an event is owed.                                          *)
LEMMA OwingSlot ==
  ASSUME NEW S, NEW b \in ListsSet(S), NEW s \in S,
         NEW x \in Owing(b.retained, {s})
  PROVE  LET k == x[2][1]
         IN /\ k \in DOMAIN b.retained[s]
            /\ x[2][2] \in b.retained[s][k].owes
            /\ x[2][2] \in {"edge", "action"}
            /\ b.retained[s][k] \in EdgeSet
            /\ x = <<s, <<k, x[2][2]>>>>
<1>1. b.retained[s] \in Seq(EdgeSet)
  BY Zenon DEF ListsSet
<1>2. /\ x[2][1] \in DOMAIN b.retained[s]
      /\ x[2][2] \in b.retained[s][x[2][1]].owes
      /\ x[2][2] \in {"edge", "action"}
      /\ x = <<s, <<x[2][1], x[2][2]>>>>
  BY DEF Owing
<1> QED
  BY <1>1, <1>2

(* The event of a place is of the right type.                               *)
SlotFits(S, b, s, x) ==
  LET e == SlotEvent(b, s, x)
  IN /\ e \in EventSet(S)
     /\ e.src = s
     /\ e.retain
     /\ e.edge = b.retained[s][x[2][1]].edge
     /\ x[2][2] = "edge" => IsLevel(e, s)
     /\ x[2][2] = "edge" /\ ~Pressed(e.edge) => e.kind = "up"
     /\ x[2][2] = "action" => e.kind = "action" /\ ~Pressed(e.edge)

(* What is owed at a place is an event of the source.                       *)
LEMMA SlotEventType ==
  ASSUME NEW S, NEW b \in ListsSet(S), NEW s \in S,
         NEW x \in Owing(b.retained, {s})
  PROVE  SlotFits(S, b, s, x)
<1> USE DEF SlotFits
<1> DEFINE k == x[2][1]
           n == b.retained[s][k].edge
<1>1. /\ k \in DOMAIN b.retained[s]
      /\ x[2][2] \in b.retained[s][k].owes
      /\ x[2][2] \in {"edge", "action"}
      /\ b.retained[s][k] \in EdgeSet
  BY OwingSlot, Zenon
<1>2. n \in Nat /\ (x[2][2] = "action" => ~Pressed(n))
  BY <1>1, Zenon DEF EdgeSet
<1>3. CASE x[2][2] = "edge"
  BY <1>2, <1>3, Zenon DEF SlotEvent, EdgeEvent, Event, EventSet, IsLevel
<1>4. CASE x[2][2] = "action"
  BY <1>2, <1>4, Zenon DEF SlotEvent, ActionEvent, Event, EventSet
<1> QED
  BY <1>1, <1>3, <1>4, Zenon

(* The events of the places are in order.                                   *)
LEMMA SlotsInOrder ==
  ASSUME NEW S, NEW P, NEW b, Fine(S, P, b), NEW s \in S,
         NEW x \in Owing(b.retained, {s}), NEW y \in Owing(b.retained, {s}),
         SlotBefore(x, y)
  PROVE  Before(SlotEvent(b, s, x), SlotEvent(b, s, y))
<1> DEFINE i == x[2][1]
           k == y[2][1]
           held == b.retained[s]
<1>1. b \in ListsSet(S) /\ held \in Seq(EdgeSet) /\ DOMAIN b.retained = S
  BY Zenon DEF Fine, ListsSet
<1>2. /\ i \in DOMAIN held /\ k \in DOMAIN held
      /\ held[i] \in EdgeSet /\ held[k] \in EdgeSet
      /\ y[2][2] \in held[k].owes
  BY <1>1, OwingSlot, Zenon
<1>3. /\ SlotEvent(b, s, x).edge = held[i].edge
      /\ SlotEvent(b, s, y).edge = held[k].edge
      /\ x[2][2] = "edge" /\ ~Pressed(held[i].edge) =>
           SlotEvent(b, s, x).kind = "up"
      /\ y[2][2] = "action" => SlotEvent(b, s, y).kind = "action"
  <2>1. SlotFits(S, b, s, x) /\ SlotFits(S, b, s, y)
    BY <1>1, SlotEventType, Zenon
  <2> QED
    BY <2>1, Zenon DEF SlotFits
<1>4. CASE i < k
  <2>1. i \in 1 .. k - 1
    BY <1>1, <1>2, <1>4
  <2>2. held[i].edge < held[k].edge
    BY <1>1, <1>2, <2>1, Zenon DEF Fine, HeldInOrder, Ordered
  <2> QED
    BY <2>2, <1>3, Zenon DEF Before
<1>5. CASE i = k /\ x[2][2] = "edge" /\ y[2][2] = "action"
  <2>1. ~Pressed(held[i].edge)
    BY <1>2, <1>5, Zenon DEF EdgeSet
  <2> QED
    BY <2>1, <1>3, <1>5, Zenon DEF Before
<1> QED
  BY <1>4, <1>5, Zenon DEF SlotBefore

(* The account is a number.                                                 *)
LEMMA DebtType ==
  ASSUME NEW S, IsFiniteSet(S), NEW b \in ListsSet(S)
  PROVE  Debt(b) \in Int
<1>1. /\ b.retained \in [S -> Seq(EdgeSet)] /\ b.outstanding \in Int
      /\ Len(b.pending) \in Nat
  BY DEF ListsSet
<1>2. Cardinality(Owing(b.retained, DOMAIN b.retained)) \in Nat
  BY <1>1, OwingFinite, Zenon
<1> QED
  BY <1>1, <1>2 DEF Debt

(* The source gives up its retained edges.                                  *)
LEMMA RequeueBegins ==
  ASSUME NEW S, IsFiniteSet(S), NEW P \in SUBSET EventSet(S), NEW b,
         Fine(S, P, b), Apart(b), NEW s \in S,
         NEW g, g = [b EXCEPT !.retained[s] = <<>>]
  PROVE  RequeuesTo(S, P, b, s, Owing(b.retained, {s}), g)
<1> DEFINE Q == Owing(b.retained, {s})
           left == [b.retained EXCEPT ![s] = <<>>]
<1>1. /\ b.retained \in [S -> Seq(EdgeSet)] /\ b.outstanding \in Int
      /\ b.pending \in Seq(EventSet(S)) /\ Len(b.pending) \in Nat
      /\ b \in ListsSet(S)
  BY DEF Fine, ListsSet
<1>2. /\ g.pending = b.pending /\ g.retained = left
      /\ g.outstanding = b.outstanding /\ g \in ListsSet(S)
      /\ left \in [S -> Seq(EdgeSet)] /\ left[s] = <<>>
      /\ \A t \in S : t # s => left[t] = b.retained[t]
  <2>1. g = [pending |-> b.pending, retained |-> left,
             outstanding |-> b.outstanding]
    BY <1>1, ListsRecord, RecordExcept, Zenon
  <2>2. /\ left \in [S -> Seq(EdgeSet)] /\ left[s] = <<>>
        /\ \A t \in S : t # s => left[t] = b.retained[t]
    BY <1>1
  <2> HIDE DEF left
  <2>3. g \in ListsSet(S)
    BY <1>1, <2>1, <2>2, Zenon DEF ListsSet
  <2>4. /\ g.pending = b.pending /\ g.retained = left
        /\ g.outstanding = b.outstanding
    BY <2>1
  <2> QED
    BY <2>2, <2>3, <2>4, Zenon
<1> HIDE DEF left
<1>3. Ahead(P, g) = Ahead(P, b)
  BY <1>2 DEF Ahead
<1>4. Fine(S, P, g)
  <2>1. PendingInOrder(P, g)
    BY <1>2, Zenon DEF Fine, PendingInOrder
  <2>2. ASSUME NEW t \in S
        PROVE  /\ Ordered(Ahead(P, g), t, g.retained[t])
               /\ Len(g.retained[t]) <= RetainedEdgeMax
    <3>1. CASE t = s
      BY <3>1, <1>2, RetainedAssumption DEF Ordered
    <3>2. CASE t # s
      BY <3>2, <1>1, <1>2, <1>3, Zenon DEF Fine, HeldInOrder
    <3> QED
      BY <3>1, <3>2, Zenon
  <2> QED
    BY <1>2, <2>1, <2>2, Zenon DEF Fine, HeldInOrder
<1>5. Apart(g)
  <2>1. ASSUME NEW i \in DOMAIN b.pending
        PROVE  left[b.pending[i].src] = <<>>
    <3>1. b.pending[i] \in EventSet(S)
      BY <1>1
    <3>2. b.pending[i].src \in S
      BY <3>1, Zenon DEF EventSet
    <3> QED
      BY <3>2, <1>2, Zenon DEF Apart
  <2> QED
    BY <2>1, <1>2, Zenon DEF Apart
<1>6. /\ Cardinality(Q) \in Nat
      /\ RetainedEvents(b.retained, s) = Cardinality(Q)
      /\ Len(g.pending) = Len(b.pending) + RetainedEvents(b.retained, s)
                            - Cardinality(Q)
  <2>1. Cardinality(Q) \in Nat
    BY OwingFinite, FS_Singleton, Zenon
  <2> QED
    BY <2>1, <1>1, <1>2 DEF RetainedEvents
<1>7. ASSUME NEW x \in Q
      PROVE  Follows(P, g, SlotEvent(b, s, x))
  <2> DEFINE e == SlotEvent(b, s, x)
             y == b.retained[s][x[2][1]]
  <2>1. SlotFits(S, b, s, x)
    BY <1>1, SlotEventType, Zenon
  <2>2. /\ x[2][1] \in DOMAIN b.retained[s] /\ x[2][2] \in y.owes
        /\ x[2][2] \in {"edge", "action"}
    BY <1>1, OwingSlot, Zenon
  <2>3. \A a \in Ahead(P, b) : a.src = s => BeforeHeld(a, y)
    BY <1>1, <2>2, Zenon DEF Fine, HeldInOrder, Ordered
  <2>4. \A a \in Ahead(P, b) : a.src = s => Before(a, e)
    BY <2>1, <2>2, <2>3, Zenon DEF SlotFits, Before, BeforeHeld
  <2> QED
    BY <2>1, <2>4, <1>2, <1>3 DEF Follows, Behind, SlotFits
<1>8. ASSUME NEW o \in EventSet(S), Follows(P, b, o)
      PROVE  Follows(P, g, o)
  <2>1. o.src \in S
    BY Zenon DEF EventSet
  <2> QED
    BY <2>1, <1>2, <1>3, <1>8 DEF Follows, Behind
<1>9. ASSUME NEW t \in S, NEW n \in Nat, Bound(P, b, t, n)
      PROVE  /\ Bound(P, g, t, n)
             /\ Carries(P, b, t, n) =>
                  \/ Carries(P, g, t, n)
                  \/ \E x \in Q : /\ t = s /\ x[2][2] = "edge"
                                  /\ SlotEvent(b, s, x).edge = n
  <2>1. Bound(P, g, t, n)
    BY <1>2, <1>3, <1>9 DEF Bound, Within
  <2>2. ASSUME HoldsEdge(b.retained[t], n)
        PROVE  \/ HoldsEdge(g.retained[t], n)
               \/ \E x \in Q : /\ t = s /\ x[2][2] = "edge"
                               /\ SlotEvent(b, s, x).edge = n
    <3>1. CASE t # s
      BY <2>2, <3>1, <1>2, Zenon
    <3>2. CASE t = s
      <4>1. PICK k \in DOMAIN b.retained[s] :
              /\ "edge" \in b.retained[s][k].owes
              /\ b.retained[s][k].edge = n
        BY <2>2, <3>2, Zenon DEF HoldsEdge
      <4> DEFINE x == <<s, <<k, "edge">>>>
      <4>2. k \in 1 .. RetainedEdgeMax
        BY <1>1, RetainedAssumption DEF Fine
      <4>3. x \in Q
        BY <4>1, <4>2, Zenon DEF Owing
      <4>4. SlotEvent(b, s, x).edge = n
        BY <4>1, Zenon DEF SlotEvent, EdgeEvent, Event
      <4> QED
        BY <4>3, <4>4, <3>2, Zenon
    <3> QED
      BY <3>1, <3>2, Zenon
  <2> QED
    BY <2>1, <2>2, <1>2, Zenon DEF Carries
<1>10. Debt(g) = Debt(b) + Cardinality(Q)
  <2>1. /\ Cardinality(Owing(left, S)) =
             Cardinality(Owing(b.retained, S)) - Cardinality(Q)
               + Cardinality(Owing(left, {s}))
        /\ Cardinality(Owing(left, S)) \in Nat
        /\ Cardinality(Owing(b.retained, S)) \in Nat
    BY <1>2, OwingSplit, OwingFinite, FS_Singleton
  <2>2. Cardinality(Owing(left, {s})) = 0
    <3>1. Owing(left, {s}) = {}
      BY <1>2 DEF Owing
    <3> QED
      BY <3>1, FS_EmptySet, Zenon
  <2>3. DOMAIN g.retained = S /\ DOMAIN b.retained = S
    BY <1>1, <1>2, Zenon
  <2>4. Debt(g) = b.outstanding - Len(b.pending) - Cardinality(Owing(left, S))
    BY <1>2, <2>3, Zenon DEF Debt
  <2>5. Debt(b) = b.outstanding - Len(b.pending)
                    - Cardinality(Owing(b.retained, S))
    BY <2>3, Zenon DEF Debt
  <2> HIDE DEF Q
  <2> QED
    BY <1>1, <1>6, <2>1, <2>2, <2>4, <2>5
<1> QED
  BY <1>2, <1>4, <1>5, <1>6, <1>7, <1>8, <1>9, <1>10, Zenon DEF RequeuesTo, left

(* One event goes back.  There is room for all the events of the source.    *)
LEMMA RequeuePlaces ==
  ASSUME NEW S, IsFiniteSet(S), NEW P \in SUBSET EventSet(S), NEW b,
         Fine(S, P, b), NEW s \in S,
         RetainedEvents(b.retained, s) <= PendingCapacity - Len(b.pending),
         NEW Q \in SUBSET Owing(b.retained, {s}),
         NEW x \in Owing(b.retained, {s}), x \notin Q,
         \A y \in Q : SlotBefore(x, y),
         NEW g, RequeuesTo(S, P, b, s, Q \cup {x}, g),
         NEW h, h = AppendEvent(g, SlotEvent(b, s, x))
  PROVE  RequeuesTo(S, P, b, s, Q, h)
<1> DEFINE e == SlotEvent(b, s, x)
           r == RetainedEvents(b.retained, s)
<1>1. /\ b.retained \in [S -> Seq(EdgeSet)] /\ Len(b.pending) \in Nat
      /\ b \in ListsSet(S) /\ Debt(b) \in Int
  BY DebtType DEF Fine, ListsSet
<1>2. /\ Fine(S, P, g) /\ Apart(g) /\ g \in ListsSet(S)
      /\ g.pending \in Seq(EventSet(S)) /\ Len(g.pending) \in Nat
      /\ g.retained = [b.retained EXCEPT ![s] = <<>>]
  BY DEF RequeuesTo, Fine, ListsSet
<1>3. SlotFits(S, b, s, x)
  BY <1>1, SlotEventType, Zenon
<1>4. /\ e \in EventSet(S) /\ e.src = s /\ e.retain
      /\ e.edge = b.retained[s][x[2][1]].edge
  BY <1>3, Zenon DEF SlotFits
<1>5. /\ IsFiniteSet(Q) /\ Cardinality(Q) \in Nat /\ r \in Nat
      /\ Cardinality(Q \cup {x}) = Cardinality(Q) + 1
  <2>1. IsFiniteSet(Owing(b.retained, {s})) /\ r \in Nat
    BY OwingFinite, FS_Singleton, Zenon DEF RetainedEvents
  <2>2. IsFiniteSet(Q)
    BY <2>1, FS_Subset, Zenon
  <2> QED
    BY <2>1, <2>2, FS_CardinalityType, FS_AddElement, Zenon
<1>6. Len(g.pending) = Len(b.pending) + r - (Cardinality(Q) + 1)
  BY <1>5, Zenon DEF RequeuesTo
<1>7. Len(g.pending) < PendingCapacity
  <2> HIDE DEF r
  <2> QED
    BY <1>1, <1>2, <1>5, <1>6, PendingAssumption DEF r
<1>8. Follows(P, g, e)
  BY Zenon DEF RequeuesTo
<1> HIDE DEF e
<1>9. g.retained[e.src] = <<>>
  BY <1>1, <1>2, <1>4, Zenon
<1>10. h = Push(g, e)
  <2>1. ~(Len(g.pending) >= PendingCapacity)
    BY <1>2, <1>7, PendingAssumption
  <2> QED
    BY <1>9, <2>1, Zenon DEF AppendEvent, e
<1>11. Pushed(S, g, e, h)
  BY <1>2, <1>4, <1>10, PushEffect, Zenon
<1>12. Appended(S, P, g, e, h)
  <2>1. Len(g.pending) <= PendingCapacity
    BY <1>2, <1>7, PendingAssumption
  <2> QED
    BY <1>2, <1>4, <1>8, <2>1, AppendPlaces, Zenon DEF e
<1>13. Places(S, P, g, e, h) /\ Apart(h) /\ Fine(S, P, h)
  BY <1>12, Zenon DEF Appended, Places
<1>14. Len(h.pending) = Len(b.pending) + r - Cardinality(Q)
  <2>1. Len(h.pending) = Len(g.pending) + 1
    BY <1>11, <1>2, <1>4 DEF Pushed
  <2> HIDE DEF r
  <2> QED
    BY <2>1, <1>1, <1>5, <1>6
<1>15. ASSUME NEW y \in Q
       PROVE  Follows(P, h, SlotEvent(b, s, y))
  <2>1. Follows(P, g, SlotEvent(b, s, y))
    BY Zenon DEF RequeuesTo
  <2>2. SlotFits(S, b, s, y)
    BY <1>1, SlotEventType, Zenon
  <2>3. Before(e, SlotEvent(b, s, y))
    BY SlotsInOrder, Zenon DEF e
  <2> QED
    BY <2>1, <2>2, <2>3, <1>13, Zenon DEF Places, SlotFits
<1>16. ASSUME NEW o \in EventSet(S), Follows(P, b, o)
       PROVE  Follows(P, h, o)
  <2>1. Follows(P, g, o)
    BY <1>16, Zenon DEF RequeuesTo
  <2>2. ASSUME o.src = s
        PROVE  Before(e, o)
    <3>1. /\ x[2][1] \in DOMAIN b.retained[s]
          /\ x[2][2] \in b.retained[s][x[2][1]].owes
          /\ x[2][2] \in {"edge", "action"}
      BY <1>1, OwingSlot, Zenon
    <3>2. HeldBefore(b.retained[s][x[2][1]], o)
      BY <3>1, <1>16, <2>2, Zenon DEF Follows, Behind
    <3>3. o.kind = "action" /\ o.retain => ~Pressed(o.edge)
      BY Zenon DEF EventSet
    <3> QED
      BY <3>1, <3>2, <3>3, <1>3, Zenon DEF HeldBefore, Before, SlotFits, e
  <2> QED
    BY <2>1, <2>2, <1>4, <1>13, Zenon DEF Places
<1>17. ASSUME NEW t \in S, NEW n \in Nat, Bound(P, b, t, n)
       PROVE  /\ Bound(P, h, t, n)
              /\ Carries(P, b, t, n) =>
                   \/ Carries(P, h, t, n)
                   \/ \E y \in Q : /\ t = s /\ y[2][2] = "edge"
                                   /\ SlotEvent(b, s, y).edge = n
  <2>1. t = e.src => e.edge <= n
    <3>1. x[2][1] \in DOMAIN b.retained[s]
      BY <1>1, OwingSlot, Zenon
    <3> QED
      BY <3>1, <1>4, <1>17, Zenon DEF Bound, Within
  <2>2. /\ Bound(P, g, t, n)
        /\ Carries(P, b, t, n) =>
             \/ Carries(P, g, t, n)
             \/ \E y \in Q \cup {x} : /\ t = s /\ y[2][2] = "edge"
                                      /\ SlotEvent(b, s, y).edge = n
    BY <1>17, Zenon DEF RequeuesTo
  <2>3. Bound(P, h, t, n) /\ (Carries(P, g, t, n) => Carries(P, h, t, n))
    BY <2>1, <2>2, <1>13, Zenon DEF Places
  <2>4. ASSUME t = s, x[2][2] = "edge", SlotEvent(b, s, x).edge = n
        PROVE  Carries(P, h, t, n)
    <3>1. IsLevel(e, e.src) /\ e.src = t /\ e.edge = n
      BY <2>4, <1>3, <1>4, Zenon DEF SlotFits, e
    <3> QED
      BY <3>1, <1>4, <1>13, Zenon DEF Places
  <2> QED
    BY <2>2, <2>3, <2>4, Zenon
<1>18. Debt(h) = Debt(b) + Cardinality(Q)
  <2>1. Debt(h) = Debt(g) - 1 /\ Debt(g) = Debt(b) + (Cardinality(Q) + 1)
    BY <1>5, <1>13, Zenon DEF Places, RequeuesTo
  <2> QED
    BY <2>1, <1>1, <1>5
<1>19. h.retained = [b.retained EXCEPT ![s] = <<>>]
  BY <1>2, <1>11, Zenon DEF Pushed
<1> QED
  BY <1>13, <1>14, <1>15, <1>16, <1>17, <1>18, <1>19, Zenon DEF RequeuesTo

(* The events owed behind the first i edges.                                *)
Rest(b, s, i) == {x \in Owing(b.retained, {s}) : x[2][1] > i}

(* The events of one more edge go back.                                     *)
LEMMA RequeueContinues ==
  ASSUME NEW S, IsFiniteSet(S), NEW P \in SUBSET EventSet(S), NEW b,
         Fine(S, P, b), NEW s \in S,
         RetainedEvents(b.retained, s) <= PendingCapacity - Len(b.pending),
         NEW i \in 1 .. Len(b.retained[s]),
         NEW g, RequeuesTo(S, P, b, s, Rest(b, s, i - 1), g),
         NEW h, h = RequeueEdge(g, s, b.retained[s][i])
  PROVE  RequeuesTo(S, P, b, s, Rest(b, s, i), h)
<1> DEFINE all == Owing(b.retained, {s})
           x == <<s, <<i, "edge">>>>
           y == <<s, <<i, "action">>>>
           held == b.retained[s]
           Q == Rest(b, s, i) \cup {z \in {y} : z \in all}
           c == IF "edge" \in held[i].owes
                  THEN AppendEvent(g, EdgeEvent(s, held[i].edge)) ELSE g
<1>1. /\ b \in ListsSet(S) /\ held \in Seq(EdgeSet) /\ Len(held) \in Nat
      /\ i \in DOMAIN held /\ i \in 1 .. RetainedEdgeMax
  BY RetainedAssumption DEF Fine, ListsSet
<1>2. /\ x \in all <=> "edge" \in held[i].owes
      /\ y \in all <=> "action" \in held[i].owes
  BY <1>1, Zenon DEF Owing
<1>3. /\ SlotEvent(b, s, x) = EdgeEvent(s, held[i].edge)
      /\ SlotEvent(b, s, y) = ActionEvent(s, held[i].edge)
  BY Zenon DEF SlotEvent
<1>4. /\ \A z \in Rest(b, s, i) : z \in all /\ z[2][1] \in Nat /\ z[2][1] > i
      /\ x \notin Q /\ y \notin Rest(b, s, i) /\ Q \in SUBSET all
      /\ Rest(b, s, i) \in SUBSET all
  <2>1. \A z \in all : z[2][1] \in Nat
    BY DEF Owing
  <2>2. x[2][1] = i /\ y[2][1] = i /\ x # y
    BY Zenon
  <2>3. ~(i > i)
    BY <1>1
  <2> HIDE DEF all, x, y
  <2> QED
    BY <2>1, <2>2, <2>3, Zenon DEF Rest, all
<1>5. /\ \A z \in Rest(b, s, i) : SlotBefore(x, z) /\ SlotBefore(y, z)
      /\ SlotBefore(x, y)
  BY <1>1, <1>4, Zenon DEF SlotBefore
<1>6. Rest(b, s, i - 1) = Q \cup {z \in {x} : z \in all}
  <2>1. ASSUME NEW z \in all
        PROVE  z[2][1] > i - 1 <=> z[2][1] > i \/ z = x \/ z = y
    <3>1. /\ z[2][1] \in DOMAIN held /\ z[2][2] \in {"edge", "action"}
          /\ z = <<s, <<z[2][1], z[2][2]>>>>
      BY DEF Owing
    <3>2. z[2][1] \in Nat
      BY <3>1, <1>1
    <3> QED
      BY <3>1, <3>2, <1>1
  <2> HIDE DEF all, x, y
  <2> QED
    BY <2>1, Zenon DEF Rest, all
<1> HIDE DEF all, x, y
<1>7. RequeuesTo(S, P, b, s, Q, c)
  <2>1. CASE "edge" \in held[i].owes
    <3>1. x \in all /\ Rest(b, s, i - 1) = Q \cup {x}
      BY <2>1, <1>2, <1>6, Zenon
    <3>2. \A z \in Q : SlotBefore(x, z)
      BY <1>5, Zenon
    <3>3. c = AppendEvent(g, SlotEvent(b, s, x))
      BY <2>1, <1>3, Zenon
    <3> HIDE DEF Q, c
    <3> QED
      BY <3>1, <3>2, <3>3, <1>4, RequeuePlaces, Zenon DEF all
  <2>2. CASE "edge" \notin held[i].owes
    <3>1. Rest(b, s, i - 1) = Q /\ c = g
      BY <2>2, <1>2, <1>6, Zenon
    <3> QED
      BY <3>1, Zenon
  <2> QED
    BY <2>1, <2>2, Zenon
<1>8. CASE "action" \in held[i].owes
  <2>1. y \in all /\ Q = Rest(b, s, i) \cup {y}
    BY <1>8, <1>2, Zenon
  <2>2. h = AppendEvent(c, SlotEvent(b, s, y))
    BY <1>8, <1>3, Zenon DEF RequeueEdge
  <2> HIDE DEF c, Q
  <2> QED
    BY <2>1, <2>2, <1>4, <1>5, <1>7, RequeuePlaces, Zenon DEF all
<1>9. CASE "action" \notin held[i].owes
  <2>1. Q = Rest(b, s, i) /\ h = c
    BY <1>9, <1>2, Zenon DEF RequeueEdge
  <2> QED
    BY <2>1, <1>7, Zenon
<1> QED
  BY <1>8, <1>9, Zenon

(* requeue_retained_edges for one source, and for the board: the lists hold *)
(* the same events, and a source that gave up its edges left some pending.  *)
Requeues(S, P, b, c) ==
  /\ Rearranges(S, P, b, c)
  /\ Apart(c)
  /\ Len(c.pending) <= PendingCapacity
  /\ c.retained # b.retained \/ b.pending # <<>> => c.pending # <<>>

(* All events of one source are back in the pending list.                   *)
LEMMA SourceRequeues ==
  ASSUME NEW S, IsFiniteSet(S), NEW P \in SUBSET EventSet(S), NEW b,
         Fine(S, P, b), Apart(b), Len(b.pending) <= PendingCapacity,
         NEW s \in S, NEW c, c = RequeueSource(b, s)
  PROVE  Requeues(S, P, b, c)
<1> DEFINE n == Len(b.retained[s])
           f == RequeuedEdges(b, s)
           r == RetainedEvents(b.retained, s)
           T == {m \in 0 .. n : ~RequeuesTo(S, P, b, s, Rest(b, s, m), f[m])}
<1>1. /\ b \in ListsSet(S) /\ b.retained[s] \in Seq(EdgeSet) /\ n \in Nat
      /\ Len(b.pending) \in Nat /\ b.pending \in Seq(EventSet(S))
  BY DEF Fine, ListsSet
<1>2. CASE c = b
  BY <1>2, Zenon DEF Requeues, Rearranges
<1>3. CASE /\ b.retained[s] # <<>> /\ c = f[n]
           /\ r <= PendingCapacity - Len(b.pending)
  <2>1. f[0] = [b EXCEPT !.retained[s] = <<>>]
    BY <1>1, RequeuedEdgesRounds, Zenon
  <2>2. EdgeRounds(b, s, f)
    BY <1>1, RequeuedEdgesRounds, Zenon
  <2>3. Rest(b, s, 0) = Owing(b.retained, {s})
    BY DEF Rest, Owing
  <2>4. Rest(b, s, n) = {}
    BY <1>1 DEF Rest, Owing
  <2> HIDE DEF f
  <2>5. ASSUME T # {}
        PROVE  FALSE
    <3>1. PICK m \in T : \A k \in T : m <= k
      <4>1. T \in SUBSET Nat
        OBVIOUS
      <4> HIDE DEF T
      <4> QED
        BY <4>1, <2>5, LeastNatural, Zenon
    <3>2. m # 0
      <4>1. RequeuesTo(S, P, b, s, Owing(b.retained, {s}), f[0])
        BY <2>1, RequeueBegins, Zenon
      <4> QED
        BY <4>1, <2>3, Zenon
    <3>3. m \in 1 .. n /\ m - 1 \in 0 .. n /\ ~(m <= m - 1)
      BY <1>1, <3>2
    <3>4. RequeuesTo(S, P, b, s, Rest(b, s, m - 1), f[m - 1])
      BY <3>1, <3>3, Zenon
    <3>5. RequeuesTo(S, P, b, s, Rest(b, s, m), f[m])
      <4>1. f[m] = RequeueEdge(f[m - 1], s, b.retained[s][m])
        BY <3>3, <2>2, Zenon DEF EdgeRounds
      <4> QED
        BY <3>3, <3>4, <4>1, <1>3, RequeueContinues, Zenon
    <3> QED
      BY <3>5, Zenon
  <2>6. RequeuesTo(S, P, b, s, {}, c)
    <3>1. n \in 0 .. n
      BY <1>1
    <3> QED
      BY <3>1, <2>4, <2>5, <1>3, Zenon
  <2>7. Cardinality({}) = 0 /\ r \in Nat /\ Debt(b) \in Int
    BY <1>1, FS_EmptySet, OwingFinite, FS_Singleton, DebtType, Zenon
       DEF RetainedEvents
  <2>8. Rearranges(S, P, b, c)
    <3>1. Debt(c) = Debt(b) + 0
      BY <2>6, <2>7, Zenon DEF RequeuesTo
    <3>2. Debt(c) = Debt(b)
      BY <3>1, <2>7
    <3> QED
      BY <2>6, <3>2, Zenon DEF RequeuesTo, Rearranges
  <2>9. Len(c.pending) = Len(b.pending) + r
    <3>1. Len(c.pending) = Len(b.pending) + r - 0
      BY <2>6, <2>7, Zenon DEF RequeuesTo
    <3> HIDE DEF r
    <3> QED
      BY <3>1, <2>7, <1>1
  <2>10. r # 0
    <3>1. 1 \in DOMAIN b.retained[s] /\ b.retained[s][1] \in EdgeSet
      BY <1>1, <1>3
    <3>2. PICK w \in {"edge", "action"} : w \in b.retained[s][1].owes
      BY <3>1, Zenon DEF EdgeSet
    <3>3. <<s, <<1, w>>>> \in Owing(b.retained, {s})
      BY <3>1, <3>2, RetainedAssumption DEF Owing
    <3> QED
      BY <3>3, OwingFinite, FS_Singleton, FS_EmptySet, Zenon DEF RetainedEvents
  <2>11. c.pending # <<>> /\ Len(c.pending) <= PendingCapacity
    <3>1. Len(c.pending) # 0 /\ Len(c.pending) <= PendingCapacity
      <4> HIDE DEF r
      <4> QED
        BY <2>7, <2>9, <2>10, <1>1, <1>3, PendingAssumption
    <3> QED
      BY <3>1, Zenon
  <2> QED
    BY <2>6, <2>8, <2>11, Zenon DEF RequeuesTo, Requeues
<1>4. r \in Nat
  BY OwingFinite, FS_Singleton, Zenon DEF RetainedEvents
<1>5. \/ r > PendingCapacity - Len(b.pending)
      \/ r <= PendingCapacity - Len(b.pending)
  <2> HIDE DEF r
  <2> QED
    BY <1>1, <1>4, PendingAssumption
<1> QED
  BY <1>2, <1>3, <1>5, Zenon DEF RequeueSource

(* A round that does not fit, or has nothing to requeue, changes nothing.   *)
LEMMA RequeuesAgain ==
  ASSUME NEW S, NEW P, NEW b, NEW c, NEW d, Requeues(S, P, b, c),
         Requeues(S, P, c, d)
  PROVE  Requeues(S, P, b, d)
<1>1. Fine(S, P, d) /\ Debt(d) = Debt(b)
  BY Zenon DEF Requeues, Rearranges
<1>2. \A o \in EventSet(S) : Follows(P, b, o) => Follows(P, d, o)
  BY Zenon DEF Requeues, Rearranges
<1>3. \A s \in S, n \in Nat :
        Bound(P, b, s, n) =>
          Bound(P, d, s, n) /\ (Carries(P, b, s, n) => Carries(P, d, s, n))
  BY Zenon DEF Requeues, Rearranges
<1>4. Rearranges(S, P, b, d)
  BY <1>1, <1>2, <1>3, Zenon DEF Rearranges
<1> QED
  BY <1>4, Zenon DEF Requeues

(* requeue_retained_edges moves events and loses no level.                  *)
LEMMA RequeueRearranges ==
  ASSUME Len(board) \in Nat, Sources = 1 .. Len(board),
         NEW P \in SUBSET EventSet(Sources), NEW b, Fine(Sources, P, b),
         Apart(b), Len(b.pending) <= PendingCapacity, NEW c, c = Requeue(b)
  PROVE  Requeues(Sources, P, b, c)
<1> DEFINE n == Len(board)
           f == RequeuedSources(b)
           T == {m \in 0 .. n : ~Requeues(Sources, P, b, f[m])}
<1>1. IsFiniteSet(Sources)
  BY FS_Interval
<1>2. f[0] = b
  BY RequeuedSourcesRounds, Zenon
<1>3. \A i \in 1 .. n : f[i] = RequeueSource(f[i - 1], i)
  BY RequeuedSourcesRounds, Zenon
<1> HIDE DEF f
<1>4. ASSUME T # {}
      PROVE  FALSE
  <2>1. PICK m \in T : \A k \in T : m <= k
    <3>1. T \in SUBSET Nat
      OBVIOUS
    <3> HIDE DEF T
    <3> QED
      BY <3>1, <1>4, LeastNatural, Zenon
  <2>2. m # 0
    <3>1. Requeues(Sources, P, b, b)
      BY Zenon DEF Requeues, Rearranges
    <3> QED
      BY <3>1, <1>2, Zenon
  <2>3. m \in 1 .. n /\ m - 1 \in 0 .. n /\ ~(m <= m - 1) /\ m \in Sources
    BY <2>2
  <2> DEFINE g == f[m - 1]
  <2>4. Requeues(Sources, P, b, g)
    BY <2>1, <2>3, Zenon
  <2>5. f[m] = RequeueSource(g, m)
    BY <1>3, <2>3, Zenon
  <2> HIDE DEF g
  <2>6. Requeues(Sources, P, g, f[m])
    <3>1. Fine(Sources, P, g) /\ Apart(g) /\ Len(g.pending) <= PendingCapacity
      BY <2>4, Zenon DEF Requeues, Rearranges
    <3> QED
      BY <3>1, <2>3, <2>5, <1>1, SourceRequeues, Zenon
  <2>7. Requeues(Sources, P, b, f[m])
    BY <2>4, <2>6, RequeuesAgain, Zenon
  <2> QED
    BY <2>7, Zenon
<1>5. n \in 0 .. n
  OBVIOUS
<1> QED
  BY <1>4, <1>5, Zenon DEF Requeue, f

------------------------------------------------------------------------------
(* update_button_pressed and publish_error.                                 *)

(* c is b with the new event e placed behind the others of its source.      *)
Posted(S, P, b, e, c) ==
  /\ Fine(S, P, c)
  /\ Apart(c)
  /\ Len(c.pending) <= PendingCapacity
  /\ Debt(c) = Debt(b)
  /\ \A o \in EventSet(S) :
       Follows(P, b, o) /\ (o.src = e.src => Before(e, o)) => Follows(P, c, o)
  /\ \A s \in S, n \in Nat :
       Bound(P, b, s, n) /\ (s = e.src => e.edge <= n) =>
         Bound(P, c, s, n) /\ (Carries(P, b, s, n) => Carries(P, c, s, n))
  /\ e.retain /\ IsLevel(e, e.src) => Carries(P, c, e.src, e.edge)

(* publish_event_locked counts its event and places it.                     *)
LEMMA PostPlaces ==
  ASSUME NEW S, IsFiniteSet(S), NEW P \in SUBSET EventSet(S), NEW b,
         Fine(S, P, b), Apart(b), Len(b.pending) <= PendingCapacity,
         NEW e \in EventSet(S), Follows(P, b, e), NEW c, c = Post(b, e)
  PROVE  Posted(S, P, b, e, c)
<1> DEFINE g == [b EXCEPT !.outstanding = @ + 1]
<1>1. /\ b.retained \in [S -> Seq(EdgeSet)] /\ b.outstanding \in Int
      /\ b.pending \in Seq(EventSet(S)) /\ Len(b.pending) \in Nat
      /\ b \in ListsSet(S) /\ Debt(b) \in Int
  BY DebtType DEF Fine, ListsSet
<1>2. /\ g.pending = b.pending /\ g.retained = b.retained
      /\ g.outstanding = b.outstanding + 1 /\ g \in ListsSet(S)
  <2>1. g = [pending |-> b.pending, retained |-> b.retained,
             outstanding |-> b.outstanding + 1]
    BY <1>1, ListsRecord, RecordExcept
  <2> HIDE DEF g
  <2> QED
    BY <1>1, <2>1 DEF ListsSet
<1>3. c = AppendEvent(g, e)
  BY Zenon DEF Post
<1> HIDE DEF g
<1>4. Ahead(P, g) = Ahead(P, b)
  BY <1>2, Zenon DEF Ahead
<1>5. Fine(S, P, g) /\ Apart(g) /\ Len(g.pending) <= PendingCapacity
  BY <1>2, <1>4, Zenon DEF Fine, Apart, PendingInOrder, HeldInOrder
<1>6. \A o : Follows(P, b, o) <=> Follows(P, g, o)
  BY <1>2, <1>4, Zenon DEF Follows
<1>7. \A s, n : /\ Bound(P, b, s, n) <=> Bound(P, g, s, n)
                /\ Carries(P, b, s, n) <=> Carries(P, g, s, n)
  BY <1>2, <1>4, Zenon DEF Bound, Carries
<1>8. Debt(g) = Debt(b) + 1
  <2>1. Cardinality(Owing(b.retained, DOMAIN b.retained)) \in Nat
    BY <1>1, OwingFinite, Zenon
  <2> DEFINE n == Cardinality(Owing(b.retained, DOMAIN b.retained))
  <2>2. Debt(g) = (b.outstanding + 1) - Len(b.pending) - n /\ n \in Nat
    BY <1>2, <2>1, Zenon DEF Debt
  <2>3. Debt(b) = b.outstanding - Len(b.pending) - n
    BY Zenon DEF Debt
  <2> HIDE DEF n
  <2> QED
    BY <1>1, <2>2, <2>3
<1>9. Appended(S, P, g, e, c)
  BY <1>3, <1>5, <1>6, AppendPlaces, Zenon
<1>10. Debt(c) = Debt(b)
  <2>1. Debt(c) = Debt(g) - 1
    BY <1>9, Zenon DEF Appended, Places
  <2> QED
    BY <2>1, <1>1, <1>8
<1> QED
  BY <1>6, <1>7, <1>9, <1>10, Zenon DEF Appended, Places, Posted

(* An event newer than all of its source may be placed behind them, and one *)
(* as new that need not be retained.                                        *)
LEMMA NewestFollows ==
  ASSUME NEW S, NEW P \in SUBSET EventSet(S), NEW b, Fine(S, P, b),
         NEW e \in EventSet(S), NEW n \in Nat, Bound(P, b, e.src, n),
         n < e.edge \/ (n = e.edge /\ ~e.retain)
  PROVE  Follows(P, b, e)
<1>1. e.edge \in Nat /\ e.src \in S
  BY Zenon DEF EventSet
<1>2. ASSUME NEW a \in Ahead(P, b), a.src = e.src
      PROVE  Before(a, e)
  <2>1. a \in EventSet(S)
    BY DEF Ahead, Fine, ListsSet
  <2>2. a.edge <= n /\ a.edge \in Nat
    BY <1>2, <2>1, Zenon DEF Bound, EventSet
  <2> QED
    BY <1>1, <2>2 DEF Before
<1>3. ASSUME NEW k \in DOMAIN b.retained[e.src]
      PROVE  HeldBefore(b.retained[e.src][k], e)
  <2>1. b.retained[e.src][k] \in EdgeSet
    BY <1>1 DEF Fine, ListsSet
  <2>2. b.retained[e.src][k].edge <= n /\ b.retained[e.src][k].edge \in Nat
    BY <2>1, Zenon DEF Bound, Within, EdgeSet
  <2> QED
    BY <1>1, <2>2 DEF HeldBefore
<1> QED
  BY <1>2, <1>3, Zenon DEF Follows, Behind

(* Lists as they are between two operations.                                *)
Sound(S, P, b) ==
  Fine(S, P, b) /\ Apart(b) /\ Len(b.pending) <= PendingCapacity

(* c is b after source s has come from edge l to edge n.                    *)
Takes(S, P, b, s, l, n, c) ==
  /\ Sound(S, P, c)
  /\ Debt(c) = Debt(b)
  /\ Bound(P, c, s, n)
  /\ Carries(P, b, s, l) => Carries(P, c, s, n)
  /\ \A t \in S, m \in Nat :
       t # s /\ Bound(P, b, t, m) =>
         Bound(P, c, t, m) /\ (Carries(P, b, t, m) => Carries(P, c, t, m))

(* One event, and two: the first a press or a release when the edge is new. *)
LEMMA PostTakes ==
  ASSUME NEW S, IsFiniteSet(S), NEW P \in SUBSET EventSet(S), NEW b,
         Sound(S, P, b), NEW s \in S, NEW l \in Nat, Bound(P, b, s, l),
         NEW e \in EventSet(S), e.src = s,
         \/ l < e.edge /\ e.retain /\ IsLevel(e, s)
         \/ l = e.edge /\ ~e.retain,
         NEW c, c = Post(b, e)
  PROVE  Takes(S, P, b, s, l, e.edge, c) /\ Posted(S, P, b, e, c)
<1>1. e.edge \in Nat
  BY Zenon DEF EventSet
<1>2. Follows(P, b, e)
  BY NewestFollows, Zenon DEF Sound
<1>3. Posted(S, P, b, e, c)
  BY <1>2, PostPlaces, Zenon DEF Sound
<1>4. Bound(P, b, s, e.edge)
  <2>1. CASE l = e.edge
    BY <2>1, Zenon
  <2>2. CASE l < e.edge
    <3>1. \A a \in Ahead(P, b) : a.edge \in Nat
      BY DEF Ahead, Sound, Fine, ListsSet, EventSet
    <3>2. \A k \in DOMAIN b.retained[s] : b.retained[s][k].edge \in Nat
      <4>1. b.retained[s] \in Seq(EdgeSet)
        BY Zenon DEF Sound, Fine, ListsSet
      <4> QED
        BY <4>1 DEF EdgeSet
    <3> QED
      BY <2>2, <3>1, <3>2, <1>1 DEF Bound, Within
  <2> QED
    BY <2>1, <2>2, Zenon
<1>5. /\ Bound(P, c, s, e.edge)
      /\ (Carries(P, b, s, e.edge) => Carries(P, c, s, e.edge))
  <2>1. e.edge <= e.edge
    BY <1>1
  <2> QED
    BY <2>1, <1>1, <1>3, <1>4, Zenon DEF Posted
<1>6. Carries(P, b, s, l) => Carries(P, c, s, e.edge)
  <2>1. CASE l = e.edge
    BY <2>1, <1>5, Zenon
  <2>2. CASE e.retain /\ IsLevel(e, s)
    BY <2>2, <1>3, Zenon DEF Posted
  <2> QED
    BY <2>1, <2>2, Zenon
<1>7. \A t \in S, m \in Nat :
        t # s /\ Bound(P, b, t, m) =>
          Bound(P, c, t, m) /\ (Carries(P, b, t, m) => Carries(P, c, t, m))
  BY <1>3, Zenon DEF Posted
<1> QED
  BY <1>3, <1>5, <1>6, <1>7, Zenon DEF Posted, Takes, Sound

(* A second event of the same reading.                                      *)
LEMMA PostTakesMore ==
  ASSUME NEW S, IsFiniteSet(S), NEW P \in SUBSET EventSet(S), NEW b,
         Sound(S, P, b), NEW s \in S, NEW l \in Nat, Bound(P, b, s, l),
         NEW d \in EventSet(S), d.src = s,
         \/ l < d.edge /\ d.retain /\ IsLevel(d, s)
         \/ l = d.edge /\ ~d.retain,
         NEW e \in EventSet(S), e.src = s, e.edge = d.edge,
         e.retain => d.kind = "up" /\ e.kind = "action" /\ l < e.edge,
         NEW c, c = Post(Post(b, d), e)
  PROVE  Takes(S, P, b, s, l, e.edge, c)
<1> DEFINE g == Post(b, d)
<1>1. Takes(S, P, b, s, l, d.edge, g) /\ Posted(S, P, b, d, g)
  BY PostTakes, Zenon
<1> HIDE DEF g
<1>2. e.edge \in Nat
  BY Zenon DEF EventSet
<1>3. Follows(P, b, e)
  BY <1>2, NewestFollows, Zenon DEF Sound
<1>4. Follows(P, g, e)
  BY <1>1, <1>3, Zenon DEF Posted, Before
<1>5. Posted(S, P, g, e, c)
  BY <1>1, <1>4, PostPlaces, Zenon DEF Takes, Sound, g
<1>6. /\ Bound(P, c, s, e.edge)
      /\ Carries(P, b, s, l) => Carries(P, c, s, e.edge)
  <2>1. e.edge <= e.edge
    BY <1>2
  <2> QED
    BY <2>1, <1>1, <1>2, <1>5, Zenon DEF Takes, Posted
<1>7. ASSUME NEW t \in S, NEW m \in Nat, t # s, Bound(P, b, t, m)
      PROVE  Bound(P, c, t, m) /\ (Carries(P, b, t, m) => Carries(P, c, t, m))
  <2>1. Bound(P, g, t, m) /\ (Carries(P, b, t, m) => Carries(P, g, t, m))
    BY <1>1, <1>7, Zenon DEF Takes
  <2> QED
    BY <2>1, <1>5, <1>7, Zenon DEF Posted
<1> QED
  BY <1>1, <1>5, <1>6, <1>7, Zenon DEF Takes, Posted, Sound

(* The next edge of a source is its last one, or the one after it with the  *)
(* level of the reading.                                                    *)
LEMMA NextEdgeType ==
  ASSUME NEW s, edges[s] \in Nat, NEW r, NEW n, n = NextEdge(s, r)
  PROVE  /\ n \in Nat
         /\ n = edges[s] \/ n = edges[s] + 1
         /\ r = "pressed" => Pressed(n)
         /\ r = "released" => ~Pressed(n)
         /\ r \notin {"pressed", "released"} => n = edges[s]
BY PressedNext DEF NextEdge

(* What a source emits for a reading brings it to its next edge.            *)
LEMMA TakeTakes ==
  ASSUME NEW S, IsFiniteSet(S), NEW P \in SUBSET EventSet(S), NEW b,
         Sound(S, P, b), NEW s \in S, edges[s] \in Nat,
         Bound(P, b, s, edges[s]),
         NEW r \in {"pressed", "released", "error", "none"},
         NEW c, c = Take(b, s, r)
  PROVE  Takes(S, P, b, s, edges[s], NextEdge(s, r), c)
<1> DEFINE n == NextEdge(s, r)
           l == edges[s]
<1>1. /\ n \in Nat /\ (n = l \/ l < n)
      /\ r = "pressed" => Pressed(n)
      /\ r = "released" => ~Pressed(n)
      /\ r \notin {"pressed", "released"} => n = l
  <2>1. l < l + 1
    OBVIOUS
  <2> QED
    BY <2>1, NextEdgeType, Zenon
<1>2. CASE r = "pressed"
  <2> DEFINE d == Event(s, "down", n, n # edges[s])
             e == Event(s, "action", n, FALSE)
  <2>1. c = Post(Post(b, d), e)
    BY <1>2, Zenon DEF Take
  <2> HIDE DEF n
  <2>2. /\ d \in EventSet(S) /\ d.src = s /\ d.edge = n /\ d.kind = "down"
        /\ (d.retain <=> n # l)
    BY <1>1, <1>2, Zenon DEF Event, EventSet
  <2>3. e \in EventSet(S) /\ e.src = s /\ e.edge = n /\ ~e.retain
    BY <1>1, <1>2, Zenon DEF Event, EventSet
  <2> HIDE DEF d, e
  <2>4. \/ l < d.edge /\ d.retain /\ IsLevel(d, s)
        \/ l = d.edge /\ ~d.retain
    BY <1>1, <2>2, Zenon DEF IsLevel
  <2>5. Takes(S, P, b, s, l, e.edge, c)
    BY <2>1, <2>2, <2>3, <2>4, PostTakesMore, Zenon
  <2> QED
    BY <2>3, <2>5, Zenon DEF n
<1>3. CASE r = "released" /\ n # l
  <2> DEFINE d == Event(s, "up", n, TRUE)
             e == Event(s, "action", n, TRUE)
  <2>1. c = Post(Post(b, d), e)
    BY <1>3, Zenon DEF Take
  <2> HIDE DEF n
  <2>2. /\ d \in EventSet(S) /\ d.src = s /\ d.edge = n /\ d.kind = "up"
        /\ d.retain
    BY <1>1, <1>3, Zenon DEF Event, EventSet
  <2>3. e \in EventSet(S) /\ e.src = s /\ e.edge = n /\ e.kind = "action"
    BY <1>1, <1>3, Zenon DEF Event, EventSet
  <2> HIDE DEF d, e
  <2>4. l < d.edge /\ d.retain /\ IsLevel(d, s)
    BY <1>1, <1>3, <2>2, Zenon DEF IsLevel
  <2>5. Takes(S, P, b, s, l, e.edge, c)
    BY <2>1, <2>2, <2>3, <2>4, PostTakesMore, Zenon
  <2> QED
    BY <2>3, <2>5, Zenon DEF n
<1>4. CASE r = "error"
  <2> DEFINE e == Event(s, "error", n, FALSE)
  <2>1. c = Post(b, e)
    BY <1>4, Zenon DEF Take
  <2> HIDE DEF n
  <2>2. e \in EventSet(S) /\ e.src = s /\ e.edge = n /\ ~e.retain
    BY <1>1, <1>4, Zenon DEF Event, EventSet
  <2> HIDE DEF e
  <2>3. l = e.edge
    BY <1>1, <1>4, <2>2, Zenon
  <2>4. Takes(S, P, b, s, l, e.edge, c)
    BY <2>1, <2>2, <2>3, PostTakes, Zenon
  <2> QED
    BY <2>2, <2>4, Zenon DEF n
<1>5. CASE r = "none" \/ (r = "released" /\ n = l)
  <2>1. c = b
    BY <1>5, Zenon DEF Take
  <2>2. n = l
    BY <1>1, <1>5, Zenon
  <2> HIDE DEF n
  <2>3. Takes(S, P, b, s, l, n, c)
    BY <2>1, <2>2, Zenon DEF Takes
  <2> QED
    BY <2>3, Zenon DEF n
<1> QED
  BY <1>2, <1>3, <1>4, <1>5, Zenon

Readings == {"pressed", "released", "error", "none"}

(* The level of source t when the first i sources have been read.           *)
LevelAt(readings, i, t) ==
  IF t <= i THEN NextEdge(t, readings[t]) ELSE edges[t]

(* c is b after the readings of the first i sources.                        *)
TakesUpTo(S, P, b, readings, i, c) ==
  /\ Sound(S, P, c)
  /\ Debt(c) = Debt(b)
  /\ \A t \in S :
       /\ Bound(P, c, t, LevelAt(readings, i, t))
       /\ Carries(P, b, t, edges[t]) =>
            Carries(P, c, t, LevelAt(readings, i, t))

(* A reading of any sources brings each to its next edge.                   *)
LEMMA TakeAllTakes ==
  ASSUME Len(board) \in Nat, Sources = 1 .. Len(board),
         \A s \in Sources : edges[s] \in Nat,
         NEW P \in SUBSET EventSet(Sources), NEW b, Sound(Sources, P, b),
         \A s \in Sources : Bound(P, b, s, edges[s]),
         NEW readings, \A s \in Sources : readings[s] \in Readings,
         NEW c, c = TakeAll(b, readings)
  PROVE  TakesUpTo(Sources, P, b, readings, Len(board), c)
<1> DEFINE n == Len(board)
           f == Taken(b, readings)
           T == {m \in 0 .. n : ~TakesUpTo(Sources, P, b, readings, m, f[m])}
<1>1. IsFiniteSet(Sources)
  BY FS_Interval
<1>2. f[0] = b
  BY TakenRounds, Zenon
<1>3. \A i \in 1 .. n : f[i] = Take(f[i - 1], i, readings[i])
  BY TakenRounds
<1> HIDE DEF f
<1>4. ASSUME T # {}
      PROVE  FALSE
  <2>1. PICK m \in T : \A k \in T : m <= k
    <3>1. T \in SUBSET Nat
      OBVIOUS
    <3> HIDE DEF T
    <3> QED
      BY <3>1, <1>4, LeastNatural, Zenon
  <2>2. m # 0
    <3>1. \A t \in Sources : LevelAt(readings, 0, t) = edges[t]
      BY DEF LevelAt
    <3>2. TakesUpTo(Sources, P, b, readings, 0, b)
      BY <3>1, Zenon DEF TakesUpTo
    <3> QED
      BY <3>2, <1>2, Zenon
  <2>3. m \in 1 .. n /\ m - 1 \in 0 .. n /\ ~(m <= m - 1) /\ m \in Sources
    BY <2>2
  <2> DEFINE g == f[m - 1]
  <2>4. TakesUpTo(Sources, P, b, readings, m - 1, g)
    BY <2>1, <2>3, Zenon
  <2>5. f[m] = Take(g, m, readings[m])
    BY <1>3, <2>3, Zenon
  <2> HIDE DEF g
  <2>6. /\ Bound(P, g, m, edges[m])
        /\ Carries(P, b, m, edges[m]) => Carries(P, g, m, edges[m])
    <3>1. LevelAt(readings, m - 1, m) = edges[m]
      BY <2>3, Zenon DEF LevelAt
    <3> QED
      BY <3>1, <2>3, <2>4, Zenon DEF TakesUpTo
  <2>7. Takes(Sources, P, g, m, edges[m], NextEdge(m, readings[m]), f[m])
    <3>1. /\ Sound(Sources, P, g) /\ edges[m] \in Nat
          /\ readings[m] \in {"pressed", "released", "error", "none"}
      BY <2>3, <2>4, Zenon DEF TakesUpTo, Readings
    <3> QED
      BY <3>1, <2>3, <2>5, <2>6, <1>1, TakeTakes, Zenon
  <2>8. ASSUME NEW t \in Sources
        PROVE  /\ Bound(P, f[m], t, LevelAt(readings, m, t))
               /\ Carries(P, b, t, edges[t]) =>
                    Carries(P, f[m], t, LevelAt(readings, m, t))
    <3>1. CASE t = m
      <4>1. LevelAt(readings, m, t) = NextEdge(m, readings[m])
        BY <3>1, <2>3 DEF LevelAt
      <4> QED
        BY <4>1, <3>1, <2>6, <2>7, Zenon DEF Takes
    <3>2. CASE t # m
      <4>1. LevelAt(readings, m, t) = LevelAt(readings, m - 1, t)
        BY <3>2, <2>3 DEF LevelAt
      <4>2. LevelAt(readings, m, t) \in Nat
        BY NextEdgeType, Zenon DEF LevelAt
      <4> QED
        BY <4>1, <4>2, <3>2, <2>4, <2>7, Zenon DEF Takes, TakesUpTo
    <3> QED
      BY <3>1, <3>2, Zenon
  <2>9. TakesUpTo(Sources, P, b, readings, m, f[m])
    BY <2>4, <2>7, <2>8, Zenon DEF Takes, TakesUpTo
  <2> QED
    BY <2>9, Zenon
<1>5. n \in 0 .. n
  OBVIOUS
<1> QED
  BY <1>4, <1>5, Zenon DEF TakeAll, f

------------------------------------------------------------------------------
(* The lists as the invariant of the worker sees them: sound, with k events *)
(* outstanding beyond them, and with no edge of a source newer than its     *)
(* level.                                                                   *)
Delivers(S, P, b, level, k) ==
  /\ Sound(S, P, b)
  /\ Debt(b) = k
  /\ \A s \in S : Bound(P, b, s, level[s])

(* The level of every source is on its way or received.                     *)
Live(S, P, b, level) == \A s \in S : Carries(P, b, s, level[s])

(* Requeueing keeps what the lists owe the main loop.                       *)
LEMMA RequeueDelivers ==
  ASSUME Len(board) \in Nat, Sources = 1 .. Len(board),
         NEW P \in SUBSET EventSet(Sources), NEW b, NEW level, NEW k,
         \A s \in Sources : level[s] \in Nat,
         Delivers(Sources, P, b, level, k), NEW c, c = Requeue(b)
  PROVE  /\ Delivers(Sources, P, c, level, k)
         /\ Live(Sources, P, b, level) => Live(Sources, P, c, level)
         /\ c.retained # b.retained \/ b.pending # <<>> => c.pending # <<>>
<1>1. Requeues(Sources, P, b, c)
  BY RequeueRearranges, Zenon DEF Delivers, Sound
<1>2. Sound(Sources, P, c) /\ Debt(c) = k
  BY <1>1, Zenon DEF Requeues, Rearranges, Sound, Delivers
<1>3. \A s \in Sources :
        /\ Bound(P, c, s, level[s])
        /\ Carries(P, b, s, level[s]) => Carries(P, c, s, level[s])
  BY <1>1, Zenon DEF Requeues, Rearranges, Delivers
<1> QED
  BY <1>1, <1>2, <1>3, Zenon DEF Delivers, Live, Requeues

(* A reading adds what it owes.                                             *)
LEMMA ReadDelivers ==
  ASSUME Len(board) \in Nat, Sources = 1 .. Len(board),
         \A s \in Sources : edges[s] \in Nat,
         NEW P \in SUBSET EventSet(Sources), NEW b, NEW k,
         Delivers(Sources, P, b, edges, k),
         NEW readings, \A s \in Sources : readings[s] \in Readings,
         NEW level, \A s \in Sources : level[s] = NextEdge(s, readings[s]),
         NEW c, c = TakeAll(b, readings)
  PROVE  /\ Delivers(Sources, P, c, level, k)
         /\ Live(Sources, P, b, edges) => Live(Sources, P, c, level)
<1>1. \A s \in Sources : Bound(P, b, s, edges[s])
  BY Zenon DEF Delivers
<1>2. TakesUpTo(Sources, P, b, readings, Len(board), c)
  BY <1>1, TakeAllTakes, Zenon DEF Delivers
<1>3. \A s \in Sources : LevelAt(readings, Len(board), s) = level[s]
  BY DEF LevelAt
<1> QED
  BY <1>2, <1>3, Zenon DEF TakesUpTo, Delivers, Live

(* So does the sieve of a source that is withdrawn.                         *)
LEMMA SiftDelivers ==
  ASSUME NEW S, IsFiniteSet(S), NEW P \in SUBSET EventSet(S), NEW b,
         NEW level, NEW k, \A s \in S : level[s] \in Nat,
         Delivers(S, P, b, level, k), NEW c, c = Sift(b, S)
  PROVE  /\ Delivers(S, P, c, level, k)
         /\ Live(S, P, b, level) => Live(S, P, c, level)
         /\ c.pending = <<>>
<1>1. Sifts(S, P, b, S, c)
  BY SiftRearranges, Zenon DEF Delivers, Sound
<1>2. /\ b \in ListsSet(S) /\ c \in ListsSet(S)
      /\ c.pending \in Seq(EventSet(S))
      /\ Len(c.pending) \in Nat /\ Len(b.pending) \in Nat
  BY <1>1 DEF Sifts, Rearranges, Fine, ListsSet, Delivers, Sound
<1>3. Sound(S, P, c) /\ Debt(c) = k
  <2>1. Len(c.pending) <= PendingCapacity
    BY <1>1, <1>2, PendingAssumption DEF Sifts, Delivers, Sound
  <2> QED
    BY <2>1, <1>1, Zenon DEF Sifts, Rearranges, Sound, Delivers
<1>4. \A s \in S : /\ Bound(P, c, s, level[s])
                   /\ Carries(P, b, s, level[s]) => Carries(P, c, s, level[s])
  BY <1>1, Zenon DEF Sifts, Rearranges, Delivers
<1>5. c.pending = <<>>
  <2>1. \A i \in DOMAIN c.pending : c.pending[i].src \in S
    BY <1>2 DEF EventSet
  <2>2. DOMAIN c.pending = {}
    BY <2>1, <1>1, Zenon DEF Sifts
  <2>3. Len(c.pending) = 0
    <3>1. DOMAIN c.pending = 1 .. Len(c.pending)
      BY <1>2
    <3>2. 1 \notin 1 .. Len(c.pending)
      BY <3>1, <2>2, Zenon
    <3> QED
      BY <3>2, <1>2
  <2> QED
    BY <2>3, <1>2
<1> QED
  BY <1>3, <1>4, <1>5, Zenon DEF Delivers, Live

(* The two steps that give up.                                              *)
NoneRetained(S, b) == \A s \in S : b.retained[s] = <<>>

(* Evicting counts every retained event.                                    *)
LEMMA EvictDelivers ==
  ASSUME IsFiniteSet(Sources), NEW P \in SUBSET EventSet(Sources), NEW b,
         NEW level, NEW k, Delivers(Sources, P, b, level, k),
         NEW c, c = EvictAll(b)
  PROVE  /\ Delivers(Sources, P, c, level, k)
         /\ c.pending = b.pending
         /\ NoneRetained(Sources, c)
<1> DEFINE none == [s \in Sources |-> <<>>]
           owed == Cardinality(Owing(b.retained, Sources))
<1>1. /\ b \in ListsSet(Sources) /\ b.retained \in [Sources -> Seq(EdgeSet)]
      /\ b.pending \in Seq(EventSet(Sources)) /\ b.outstanding \in Int
      /\ Len(b.pending) \in Nat
  BY DEF Delivers, Sound, Fine, ListsSet
<1>2. owed \in Nat
  BY OwingFinite, Zenon
<1>3. c = [pending |-> b.pending, retained |-> none,
           outstanding |-> b.outstanding - owed]
  <2> DEFINE g == [b EXCEPT !.outstanding = b.outstanding - owed]
  <2>1. c = [g EXCEPT !.retained = none]
    BY <1>1, ListsRecord, Zenon DEF EvictAll
  <2>2. g = [pending |-> b.pending, retained |-> b.retained,
             outstanding |-> b.outstanding - owed]
    BY <1>1, ListsRecord, RecordExcept
  <2> QED
    BY <2>1, <2>2, RecordExcept, Zenon
<1>4. /\ c.pending = b.pending /\ c.retained = none
      /\ c.outstanding = b.outstanding - owed
  BY <1>3
<1>5. none \in [Sources -> Seq(EdgeSet)] /\ \A s \in Sources : none[s] = <<>>
  OBVIOUS
<1> HIDE DEF none, owed
<1>6. c \in ListsSet(Sources)
  BY <1>1, <1>2, <1>3, <1>5 DEF ListsSet
<1>7. Ahead(P, c) = Ahead(P, b)
  BY <1>4, Zenon DEF Ahead
<1>8. Fine(Sources, P, c)
  <2>1. \A s \in DOMAIN c.retained : c.retained[s] = <<>>
    BY <1>1, <1>4, <1>5, Zenon
  <2>2. HeldInOrder(P, c)
    BY <2>1 DEF HeldInOrder, Ordered
  <2>3. PendingInOrder(P, c)
    BY <1>4, Zenon DEF PendingInOrder, Delivers, Sound, Fine
  <2>4. \A s \in Sources : Len(c.retained[s]) <= RetainedEdgeMax
    BY <1>4, <1>5, RetainedAssumption
  <2> QED
    BY <1>6, <2>2, <2>3, <2>4, Zenon DEF Fine
<1>9. Apart(c)
  <2>1. \A i \in DOMAIN b.pending : b.pending[i].src \in Sources
    BY <1>1 DEF EventSet
  <2> QED
    BY <2>1, <1>4, <1>5, Zenon DEF Apart
<1>10. Debt(c) = k
  <2>1. Owing(c.retained, DOMAIN c.retained) = {}
    BY <1>1, <1>4, <1>5 DEF Owing
  <2>2. Cardinality(Owing(c.retained, DOMAIN c.retained)) = 0
    BY <2>1, FS_EmptySet, Zenon
  <2>3. DOMAIN b.retained = Sources
    BY <1>1, Zenon
  <2>4. k = b.outstanding - Len(b.pending) - owed
    BY <2>3, Zenon DEF Delivers, Debt, owed
  <2>5. Debt(c) = (b.outstanding - owed) - Len(b.pending) - 0
    BY <2>2, <1>4, Zenon DEF Debt
  <2> QED
    BY <1>1, <1>2, <2>4, <2>5
<1>11. \A s \in Sources : Bound(P, c, s, level[s])
  BY <1>4, <1>5, <1>7 DEF Bound, Within, Delivers
<1> QED
  BY <1>4, <1>5, <1>8, <1>9, <1>10, <1>11, Zenon
  DEF Delivers, Sound, NoneRetained

(* The pending list is emptied, and n of its events are counted.            *)
Emptied(b, n) == [pending |-> <<>>, retained |-> b.retained,
                  outstanding |-> b.outstanding - n]

(* What is not counted stays outstanding.                                   *)
LEMMA EmptiedDelivers ==
  ASSUME NEW S, IsFiniteSet(S), NEW P \in SUBSET EventSet(S), NEW b,
         NEW level, NEW k, Delivers(S, P, b, level, k), NEW n \in Int,
         NEW c, c = Emptied(b, n)
  PROVE  /\ Delivers(S, P, c, level, k + Len(b.pending) - n)
         /\ c.pending = <<>>
<1>1. /\ b \in ListsSet(S) /\ b.retained \in [S -> Seq(EdgeSet)]
      /\ b.outstanding \in Int /\ Len(b.pending) \in Nat
  BY DEF Delivers, Sound, Fine, ListsSet
<1>2. /\ c.pending = <<>> /\ c.retained = b.retained
      /\ c.outstanding = b.outstanding - n
      /\ Len(c.pending) = 0
  BY DEF Emptied
<1>3. c \in ListsSet(S)
  <2>1. <<>> \in Seq(EventSet(S)) /\ b.outstanding - n \in Int
    BY <1>1
  <2> QED
    BY <1>1, <2>1 DEF ListsSet, Emptied
<1>4. \A i \in DOMAIN c.pending : FALSE
  BY <1>2
<1>5. Ahead(P, c) \subseteq Ahead(P, b)
  BY <1>4, Zenon DEF Ahead
<1>6. Fine(S, P, c)
  <2>1. PendingInOrder(P, c)
    BY <1>4, Zenon DEF PendingInOrder
  <2>2. HeldInOrder(P, c)
    BY <1>2, <1>5, Zenon DEF HeldInOrder, Ordered, Delivers, Sound, Fine
  <2> QED
    BY <1>2, <1>3, <2>1, <2>2, Zenon DEF Fine, Delivers, Sound
<1>7. Apart(c) /\ Len(c.pending) <= PendingCapacity
  BY <1>2, <1>4, PendingAssumption DEF Apart
<1>8. Debt(c) = k + Len(b.pending) - n
  <2> DEFINE owed == Cardinality(Owing(b.retained, DOMAIN b.retained))
  <2>1. owed \in Nat
    BY <1>1, OwingFinite, Zenon
  <2>2. k = b.outstanding - Len(b.pending) - owed
    BY Zenon DEF Delivers, Debt
  <2>3. Debt(c) = (b.outstanding - n) - 0 - owed
    BY <1>2, Zenon DEF Debt
  <2> HIDE DEF owed
  <2> QED
    BY <1>1, <2>1, <2>2, <2>3
<1>9. \A s \in S : Bound(P, c, s, level[s])
  BY <1>2, <1>5, Zenon DEF Bound, Delivers
<1> QED
  BY <1>2, <1>6, <1>7, <1>8, <1>9, Zenon DEF Delivers, Sound

(* The fault gives up what it no longer owes, or discards it.               *)
LEMMA ListsEmptied ==
  ASSUME NEW S, NEW b \in ListsSet(S)
  PROVE  /\ [b EXCEPT !.pending = <<>>, !.outstanding = @ - Len(b.pending)]
              = Emptied(b, Len(b.pending))
         /\ [b EXCEPT !.pending = <<>>] = Emptied(b, 0)
<1>1. b.outstanding \in Int /\ b.outstanding - 0 = b.outstanding
  BY DEF ListsSet
<1> DEFINE g == [b EXCEPT !.pending = <<>>]
<1>2. g = [pending |-> <<>>, retained |-> b.retained,
           outstanding |-> b.outstanding]
  BY <1>1, ListsRecord, RecordExcept
<1>3. [b EXCEPT !.pending = <<>>, !.outstanding = @ - Len(b.pending)]
        = [g EXCEPT !.outstanding = b.outstanding - Len(b.pending)]
  BY <1>1, ListsRecord, Zenon
<1> HIDE DEF g
<1>4. [g EXCEPT !.outstanding = b.outstanding - Len(b.pending)]
        = Emptied(b, Len(b.pending))
  <2> DEFINE o == b.outstanding - Len(b.pending)
  <2>1. Emptied(b, Len(b.pending)) = [pending |-> <<>>,
                                      retained |-> b.retained,
                                      outstanding |-> o]
    BY Zenon DEF Emptied
  <2> HIDE DEF o
  <2>2. [g EXCEPT !.outstanding = o] = [pending |-> <<>>,
                                        retained |-> b.retained,
                                        outstanding |-> o]
    BY <1>2, RecordExcept
  <2> QED
    BY <2>1, <2>2, Zenon DEF o
<1>5. g = Emptied(b, 0)
  BY <1>1, <1>2, Zenon DEF Emptied
<1> QED
  BY <1>3, <1>4, <1>5, Zenon DEF g

------------------------------------------------------------------------------
(* What the main loop has received of a source, as an event.                *)
SeenEvent(got, s) ==
  Event(s, IF Pressed(got[s]) THEN "down" ELSE "up", got[s], FALSE)

(* The events in front of the worker's lists.                               *)
Gone(S, q, got) ==
  {q[i] : i \in DOMAIN q} \cup {SeenEvent(got, s) : s \in S}

(* The event queue in order, behind what was received.                      *)
QueueInOrder(q, got) ==
  \A j \in DOMAIN q :
    /\ Before(SeenEvent(got, q[j].src), q[j])
    /\ \A i \in 1 .. j - 1 : q[i].src = q[j].src => Before(q[i], q[j])

(* What the main loop has seen last is an event.                            *)
LEMMA SeenEventType ==
  ASSUME NEW S, NEW got \in [S -> Nat], NEW s \in S
  PROVE  /\ SeenEvent(got, s) \in EventSet(S)
         /\ SeenEvent(got, s).src = s /\ SeenEvent(got, s).edge = got[s]
         /\ SeenEvent(got, s).kind \in {"down", "up"}
         /\ SeenEvent(got, s).kind = "down" <=> Pressed(got[s])
         /\ IsLevel(SeenEvent(got, s), s)
<1>1. got[s] \in Nat
  BY Zenon
<1> QED
  BY <1>1, Zenon DEF SeenEvent, Event, EventSet, IsLevel

(* What has left the lists are events.                                      *)
LEMMA GoneType ==
  ASSUME NEW S, NEW got \in [S -> Nat], NEW q \in Seq(EventSet(S))
  PROVE  Gone(S, q, got) \in SUBSET EventSet(S)
BY SeenEventType DEF Gone

(* Events and lists after an event went to the queue, and after one was     *)
(* received.                                                                *)
Sent(b) == [pending |-> Tail(b.pending), retained |-> b.retained,
            outstanding |-> b.outstanding]
Received(b) == [pending |-> b.pending, retained |-> b.retained,
                outstanding |-> b.outstanding - 1]
SeenNext(got, e) ==
  [got EXCEPT ![e.src] = IF e.kind \in {"down", "up"} THEN e.edge ELSE @]

(* The queue q, taking the head of the pending list p, becomes r.           *)
Moves(S, q, got, p, r) ==
  /\ Head(p) \in EventSet(S) /\ Tail(p) \in Seq(EventSet(S))
  /\ Len(p) \in Nat /\ Len(Tail(p)) = Len(p) - 1
  /\ r \in Seq(EventSet(S)) /\ Len(r) = Len(q) + 1
  /\ Gone(S, r, got) = Gone(S, q, got) \cup {Head(p)}
  /\ Head(p) = p[1] /\ 1 \in DOMAIN p
  /\ \A i \in DOMAIN Tail(p) : Tail(p)[i] = p[i + 1] /\ i + 1 \in DOMAIN p
  /\ \A i \in DOMAIN p :
       i = 1 \/ (i - 1 \in DOMAIN Tail(p) /\ Tail(p)[i - 1] = p[i])

(* A send moves the head of the pending list to the queue.                  *)
LEMMA SendMoves ==
  ASSUME NEW S, NEW got \in [S -> Nat], NEW q \in Seq(EventSet(S)),
         NEW p \in Seq(EventSet(S)), p # <<>>,
         NEW r, r = Append(q, Head(p))
  PROVE  Moves(S, q, got, p, r)
<1>1. /\ Len(p) \in Nat /\ Len(p) # 0 /\ DOMAIN p = 1 .. Len(p)
      /\ Head(p) = p[1]
  OBVIOUS
<1>2. 1 \in DOMAIN p /\ Head(p) \in EventSet(S)
  BY <1>1
<1>3. /\ Tail(p) \in Seq(EventSet(S)) /\ Len(Tail(p)) = Len(p) - 1
      /\ DOMAIN Tail(p) = 1 .. Len(p) - 1
      /\ \A i \in 1 .. Len(p) - 1 : Tail(p)[i] = p[i + 1]
  BY <1>1
<1>4. /\ Len(q) \in Nat /\ DOMAIN q = 1 .. Len(q)
      /\ r \in Seq(EventSet(S)) /\ Len(r) = Len(q) + 1
      /\ DOMAIN r = 1 .. Len(q) + 1
      /\ \A i \in 1 .. Len(q) : r[i] = q[i]
      /\ r[Len(q) + 1] = Head(p)
  BY <1>2
<1>5. {r[i] : i \in DOMAIN r} = {q[i] : i \in DOMAIN q} \cup {Head(p)}
  <2>1. \A i \in 1 .. Len(q) + 1 : i \in 1 .. Len(q) \/ i = Len(q) + 1
    BY <1>4
  <2>2. \A i \in 1 .. Len(q) : i \in 1 .. Len(q) + 1
    BY <1>4
  <2>3. Len(q) + 1 \in 1 .. Len(q) + 1
    BY <1>4
  <2> QED
    BY <2>1, <2>2, <2>3, <1>4, Zenon
<1>6. Gone(S, r, got) = Gone(S, q, got) \cup {Head(p)}
  BY <1>5, Zenon DEF Gone
<1>7. \A i \in DOMAIN Tail(p) : Tail(p)[i] = p[i + 1] /\ i + 1 \in DOMAIN p
  BY <1>1, <1>3
<1>8. \A i \in DOMAIN p : i = 1 \/ (i - 1 \in DOMAIN Tail(p)
                                    /\ Tail(p)[i - 1] = p[i])
  BY <1>1, <1>3
<1> QED
  BY <1>1, <1>2, <1>3, <1>4, <1>6, <1>7, <1>8, Zenon DEF Moves

(* What the move keeps, for the queue r and the lists c after it.           *)
Hands(S, q, got, b, level, k, r, c) ==
  /\ Delivers(S, Gone(S, r, got), c, level, k + 1)
  /\ Live(S, Gone(S, q, got), b, level) => Live(S, Gone(S, r, got), c, level)
  /\ QueueInOrder(q, got) => QueueInOrder(r, got)

(* A send keeps what is owed: the event is now on its way.                  *)
LEMMA SendDelivers ==
  ASSUME NEW S, IsFiniteSet(S), NEW got \in [S -> Nat],
         NEW q \in Seq(EventSet(S)), NEW b, NEW level, NEW k,
         Delivers(S, Gone(S, q, got), b, level, k), b.pending # <<>>,
         NEW r, r = Append(q, Head(b.pending)), NEW c, c = Sent(b)
  PROVE  Hands(S, q, got, b, level, k, r, c)
<1> DEFINE p == b.pending
           e == Head(p)
           P == Gone(S, q, got)
           Q == Gone(S, r, got)
<1>1. /\ b \in ListsSet(S) /\ b.retained \in [S -> Seq(EdgeSet)]
      /\ b.outstanding \in Int /\ p \in Seq(EventSet(S))
  BY Zenon DEF Delivers, Sound, Fine, ListsSet
<1>2. /\ e \in EventSet(S) /\ Tail(p) \in Seq(EventSet(S)) /\ Len(p) \in Nat
      /\ Len(Tail(p)) = Len(p) - 1
      /\ r \in Seq(EventSet(S)) /\ Len(r) = Len(q) + 1 /\ Len(q) \in Nat
      /\ Q = P \cup {e} /\ e = p[1] /\ 1 \in DOMAIN p
  <2>1. p # <<>> /\ r = Append(q, Head(p)) /\ Len(q) \in Nat
    OBVIOUS
  <2>2. Moves(S, q, got, p, r)
    BY <1>1, <2>1, SendMoves, Zenon
  <2> HIDE DEF p
  <2> QED
    BY <2>1, <2>2, Zenon DEF Moves
<1>3. \A i \in DOMAIN Tail(p) : Tail(p)[i] = p[i + 1] /\ i + 1 \in DOMAIN p
  BY <1>1, SendMoves
<1>4. \A i \in DOMAIN p : i = 1 \/ (i - 1 \in DOMAIN Tail(p)
                                    /\ Tail(p)[i - 1] = p[i])
  BY <1>1, SendMoves
<1>5. /\ c.pending = Tail(p) /\ c.retained = b.retained
      /\ c.outstanding = b.outstanding /\ c \in ListsSet(S)
  BY <1>1, <1>2, Zenon DEF Sent, ListsSet
<1>6. PendingInOrder(P, b) /\ HeldInOrder(P, b) /\ Fine(S, P, b)
  BY Zenon DEF Delivers, Sound, Fine
<1>7. Ahead(Q, c) = Ahead(P, b)
  <2>1. {p[i] : i \in DOMAIN p} = {e} \cup {Tail(p)[i] : i \in DOMAIN Tail(p)}
    <3> DEFINE t == Tail(p)
               A == {p[i] : i \in DOMAIN p}
               B == {t[i] : i \in DOMAIN t}
    <3>1. \A i \in DOMAIN t : t[i] \in A
      BY <1>3, Zenon
    <3>2. \A i \in DOMAIN p : p[i] = e \/ p[i] \in B
      BY <1>2, <1>4, Zenon
    <3>3. e \in A
      BY <1>2, Zenon
    <3> HIDE DEF p, t, e
    <3> QED
      BY <3>1, <3>2, <3>3, Zenon DEF t
  <2> QED
    BY <2>1, <1>2, <1>5, Zenon DEF Ahead
<1> HIDE DEF P, Q
<1>8. PendingInOrder(Q, c)
  <2> SUFFICES ASSUME NEW j \in DOMAIN Tail(p)
               PROVE  /\ \A a \in Q :
                           a.src = Tail(p)[j].src => Before(a, Tail(p)[j])
                      /\ \A i \in 1 .. j - 1 :
                           Tail(p)[i].src = Tail(p)[j].src =>
                             Before(Tail(p)[i], Tail(p)[j])
    BY <1>5, Zenon DEF PendingInOrder
  <2>1. /\ Tail(p)[j] = p[j + 1] /\ j + 1 \in DOMAIN p /\ j \in Nat /\ j # 0
        /\ j <= Len(Tail(p))
    BY <1>2, <1>3
  <2>2. \A a \in P : a.src = p[j + 1].src => Before(a, p[j + 1])
    BY <2>1, <1>6, Zenon DEF PendingInOrder
  <2>3. \A i \in 1 .. j : p[i].src = p[j + 1].src => Before(p[i], p[j + 1])
    BY <2>1, <1>6 DEF PendingInOrder
  <2>4. e.src = p[j + 1].src => Before(e, p[j + 1])
    <3>1. 1 \in 1 .. j
      BY <2>1
    <3> QED
      BY <3>1, <2>3, <1>2, Zenon
  <2>5. ASSUME NEW i \in 1 .. j - 1
        PROVE  Tail(p)[i] = p[i + 1] /\ i + 1 \in 1 .. j
    <3>1. i \in DOMAIN Tail(p) /\ i + 1 \in 1 .. j
      BY <2>1, <1>2
    <3> QED
      BY <3>1, <1>3, Zenon
  <2> HIDE DEF p, e
  <2> QED
    BY <2>1, <2>2, <2>3, <2>4, <2>5, <1>2, Zenon

<1>9. Fine(S, Q, c)
  <2>1. HeldInOrder(Q, c)
    BY <1>5, <1>6, <1>7, Zenon DEF HeldInOrder
  <2> QED
    BY <1>5, <1>6, <1>8, <2>1, Zenon DEF Fine
<1>10. Apart(c)
  BY <1>3, <1>5 DEF Apart, Delivers, Sound
<1>11. Len(c.pending) <= PendingCapacity
  <2>1. Len(p) <= PendingCapacity
    BY Zenon DEF Delivers, Sound
  <2> HIDE DEF p
  <2> QED
    BY <2>1, <1>2, <1>5, PendingAssumption
<1>12. Debt(c) = k + 1
  <2> DEFINE owed == Cardinality(Owing(b.retained, DOMAIN b.retained))
  <2>1. owed \in Nat
    BY <1>1, OwingFinite, Zenon
  <2>2. k = b.outstanding - Len(p) - owed
    BY Zenon DEF Delivers, Debt
  <2>3. Debt(c) = b.outstanding - (Len(p) - 1) - owed
    BY <1>2, <1>5, Zenon DEF Debt
  <2> HIDE DEF owed, p
  <2> QED
    BY <1>1, <1>2, <2>1, <2>2, <2>3
<1>13. \A s \in S : Bound(Q, c, s, level[s])
  BY <1>5, <1>7, Zenon DEF Bound, Delivers, P
<1>14. ASSUME Live(S, P, b, level), NEW s \in S
       PROVE  Carries(Q, c, s, level[s])
  <2>1. Carries(P, b, s, level[s])
    BY <1>14, Zenon DEF Live
  <2>2. CASE \E a \in P : IsLevel(a, s) /\ a.edge = level[s]
    BY <2>2, <1>2, Zenon DEF Carries
  <2>3. CASE HoldsEdge(b.retained[s], level[s])
    BY <2>3, <1>5, Zenon DEF Carries
  <2>4. ASSUME NEW i \in DOMAIN p, IsLevel(p[i], s), p[i].retain,
               p[i].edge = level[s]
        PROVE  Carries(Q, c, s, level[s])
    <3>1. CASE i = 1
      BY <3>1, <2>4, <1>2, Zenon DEF Carries
    <3>2. CASE i # 1
      <4> DEFINE h == i - 1
      <4>1. h \in DOMAIN c.pending /\ c.pending[h] = p[i]
        BY <3>2, <1>4, <1>5, Zenon
      <4> HIDE DEF h
      <4> QED
        BY <4>1, <2>4, Zenon DEF Carries
    <3> QED
      BY <3>1, <3>2, Zenon
  <2> QED
    BY <2>1, <2>2, <2>3, <2>4, Zenon DEF Carries
<1>15. ASSUME QueueInOrder(q, got)
       PROVE  QueueInOrder(r, got)
  <2>1. /\ DOMAIN r = 1 .. Len(q) + 1 /\ DOMAIN q = 1 .. Len(q)
        /\ \A i \in 1 .. Len(q) : r[i] = q[i]
        /\ r[Len(q) + 1] = e
    BY <1>2
  <2>2. \A a \in P : a.src = e.src => Before(a, e)
    BY <1>2, <1>6, Zenon DEF PendingInOrder
  <2>3. e.src \in S
    BY <1>2, Zenon DEF EventSet
  <2>4. Before(SeenEvent(got, e.src), e)
    <3>1. SeenEvent(got, e.src) \in P /\ SeenEvent(got, e.src).src = e.src
      BY <2>3, SeenEventType DEF Gone, P
    <3> QED
      BY <3>1, <2>2, Zenon
  <2>5. \A i \in 1 .. Len(q) : q[i].src = e.src => Before(q[i], e)
    BY <2>1, <2>2, Zenon DEF Gone, P
  <2> HIDE DEF e
  <2> SUFFICES ASSUME NEW j \in 1 .. Len(q) + 1
               PROVE  /\ Before(SeenEvent(got, r[j].src), r[j])
                      /\ \A i \in 1 .. j - 1 : r[i].src = r[j].src =>
                                                 Before(r[i], r[j])
    BY <2>1, Zenon DEF QueueInOrder
  <2>6. CASE j = Len(q) + 1
    <3>1. \A i \in 1 .. j - 1 : i \in 1 .. Len(q) /\ r[i] = q[i]
      BY <2>6, <2>1, <1>2
    <3> QED
      BY <3>1, <2>1, <2>4, <2>5, <2>6, Zenon
  <2>7. CASE j \in 1 .. Len(q)
    <3>1. \A i \in 1 .. j - 1 : i \in 1 .. Len(q) /\ r[i] = q[i]
      BY <2>7, <2>1, <1>2
    <3> QED
      BY <3>1, <2>1, <2>7, <1>15, Zenon DEF QueueInOrder
  <2>8. j = Len(q) + 1 \/ j \in 1 .. Len(q)
    BY <1>2
  <2> QED
    BY <2>6, <2>7, <2>8, Zenon
<1> QED
  BY <1>9, <1>10, <1>11, <1>12, <1>13, <1>14, <1>15, Zenon
  DEF Delivers, Sound, Live, Hands, P, Q

(* Every event of Q comes as late as one of P.                              *)
Alike(a, d) == d.src = a.src /\ d.kind = a.kind /\ d.edge = a.edge
Echoes(Q, P) == \A a \in Q : \E d \in P : Alike(a, d)

(* The main loop receives e, the head of the queue, and comes from got to   *)
(* now.                                                                     *)
Receives(S, q, got, e, now) ==
  /\ e \in EventSet(S) /\ e.src \in S /\ now \in [S -> Nat]
  /\ Tail(q) \in Seq(EventSet(S)) /\ Len(Tail(q)) = Len(q) - 1
  /\ e = q[1] /\ 1 \in DOMAIN q
  /\ \A i \in DOMAIN Tail(q) : Tail(q)[i] = q[i + 1] /\ i + 1 \in DOMAIN q
  /\ \A i \in DOMAIN q :
       i = 1 \/ (i - 1 \in DOMAIN Tail(q) /\ Tail(q)[i - 1] = q[i])
  /\ IsLevel(e, e.src) => Alike(SeenEvent(now, e.src), e)
  /\ \A s \in S : s # e.src \/ ~IsLevel(e, e.src) =>
                    SeenEvent(now, s) = SeenEvent(got, s)
  /\ Echoes(Gone(S, Tail(q), now), Gone(S, q, got))

(* What the main loop has seen after it received an event.                  *)
LEMMA ReceiveEchoes ==
  ASSUME NEW S, NEW got \in [S -> Nat], NEW q \in Seq(EventSet(S)),
         q # <<>>, NEW e, e = Head(q), NEW now, now = SeenNext(got, e)
  PROVE  Receives(S, q, got, e, now)
<1>1. /\ Len(q) \in Nat /\ Len(q) # 0 /\ DOMAIN q = 1 .. Len(q) /\ e = q[1]
  OBVIOUS
<1>2. 1 \in DOMAIN q /\ e \in EventSet(S)
  BY <1>1
<1>3. e.src \in S /\ e.edge \in Nat
  BY <1>2, Zenon DEF EventSet
<1>4. /\ Tail(q) \in Seq(EventSet(S)) /\ Len(Tail(q)) = Len(q) - 1
      /\ DOMAIN Tail(q) = 1 .. Len(q) - 1
      /\ \A i \in 1 .. Len(q) - 1 : Tail(q)[i] = q[i + 1]
  BY <1>1
<1>5. \A i \in DOMAIN Tail(q) : Tail(q)[i] = q[i + 1] /\ i + 1 \in DOMAIN q
  BY <1>1, <1>4
<1>6. \A i \in DOMAIN q : i = 1 \/ (i - 1 \in DOMAIN Tail(q)
                                    /\ Tail(q)[i - 1] = q[i])
  BY <1>1, <1>4
<1>7. now \in [S -> Nat]
  BY <1>3, Zenon DEF SeenNext
<1>8. \A s \in S : s # e.src => now[s] = got[s]
  BY <1>3, Zenon DEF SeenNext
<1>9. now[e.src] = IF e.kind \in {"down", "up"} THEN e.edge ELSE got[e.src]
  BY <1>3, Zenon DEF SeenNext
<1>10. ASSUME IsLevel(e, e.src)
       PROVE  Alike(SeenEvent(now, e.src), e)
  <2>1. now[e.src] = e.edge /\ e.kind \in {"down", "up"}
    BY <1>9, <1>10, Zenon DEF IsLevel
  <2>2. e.kind = IF Pressed(e.edge) THEN "down" ELSE "up"
    BY <1>2, <2>1, Zenon DEF EventSet
  <2> QED
    BY <2>1, <2>2, Zenon DEF Alike, SeenEvent, Event
<1>11. ASSUME NEW s \in S, s # e.src \/ ~IsLevel(e, e.src)
       PROVE  SeenEvent(now, s) = SeenEvent(got, s)
  <2>1. now[s] = got[s]
    BY <1>8, <1>9, <1>11, Zenon DEF IsLevel
  <2> QED
    BY <2>1, Zenon DEF SeenEvent
<1>12. ASSUME NEW a \in Gone(S, Tail(q), now)
       PROVE  \E d \in Gone(S, q, got) : Alike(a, d)
  <2>1. CASE a \in {Tail(q)[i] : i \in DOMAIN Tail(q)}
    BY <2>1, <1>5, Zenon DEF Gone, Alike
  <2>2. ASSUME NEW s \in S, a = SeenEvent(now, s)
        PROVE  \E d \in Gone(S, q, got) : Alike(a, d)
    <3>1. CASE s = e.src /\ IsLevel(e, e.src)
      <4>1. Alike(a, e)
        BY <3>1, <2>2, <1>10, Zenon
      <4>2. e \in Gone(S, q, got)
        BY <1>1, <1>2, Zenon DEF Gone
      <4> QED
        BY <4>1, <4>2, Zenon
    <3>2. CASE ~(s = e.src /\ IsLevel(e, e.src))
      <4>1. a = SeenEvent(got, s)
        BY <3>2, <2>2, <1>11, Zenon
      <4>2. a \in Gone(S, q, got) /\ Alike(a, a)
        BY <4>1, Zenon DEF Gone, Alike
      <4> QED
        BY <4>2, Zenon
    <3> QED
      BY <3>1, <3>2, Zenon
  <2> QED
    BY <2>1, <2>2, Zenon DEF Gone
<1> QED
  BY <1>1, <1>2, <1>3, <1>4, <1>5, <1>6, <1>7, <1>10, <1>11, <1>12, Zenon
  DEF Echoes, Receives

(* A receive keeps what is owed.                                            *)
LEMMA ReceiveDelivers ==
  ASSUME NEW S, IsFiniteSet(S), NEW got \in [S -> Nat],
         NEW q \in Seq(EventSet(S)), NEW b, NEW level, NEW k,
         \A s \in S : level[s] \in Nat,
         Delivers(S, Gone(S, q, got), b, level, k),
         QueueInOrder(q, got), q # <<>>,
         NEW e, e = Head(q), NEW now, now = SeenNext(got, e),
         NEW c, c = Received(b)
  PROVE  /\ Delivers(S, Gone(S, Tail(q), now), c, level, k - 1)
         /\ Live(S, Gone(S, q, got), b, level) =>
              Live(S, Gone(S, Tail(q), now), c, level)
         /\ QueueInOrder(Tail(q), now)
<1> DEFINE r == Tail(q)
           P == Gone(S, q, got)
           Q == Gone(S, r, now)
<1>1. /\ b \in ListsSet(S) /\ b.retained \in [S -> Seq(EdgeSet)]
      /\ b.outstanding \in Int /\ b.pending \in Seq(EventSet(S))
      /\ Len(b.pending) \in Nat
  BY DEF Delivers, Sound, Fine, ListsSet
<1>2. Receives(S, q, got, e, now)
  BY ReceiveEchoes, Zenon
<1>3. /\ c.pending = b.pending /\ c.retained = b.retained
      /\ c.outstanding = b.outstanding - 1 /\ c \in ListsSet(S)
  BY <1>1 DEF Received, ListsSet
<1>4. PendingInOrder(P, b) /\ HeldInOrder(P, b) /\ Fine(S, P, b)
  BY Zenon DEF Delivers, Sound, Fine
<1>5. Echoes(Q, P) /\ Echoes(Ahead(Q, c), Ahead(P, b))
  <2>1. Echoes(Q, P)
    BY <1>2, Zenon DEF Receives
  <2> HIDE DEF P, Q
  <2>2. ASSUME NEW a \in Ahead(Q, c)
        PROVE  \E d \in Ahead(P, b) : Alike(a, d)
    <3>1. CASE a \in Q
      BY <3>1, <2>1, Zenon DEF Echoes, Ahead
    <3>2. CASE a \in {c.pending[i] : i \in DOMAIN c.pending}
      BY <3>2, <1>3, Zenon DEF Ahead, Alike
    <3> QED
      BY <3>1, <3>2, Zenon DEF Ahead
  <2> QED
    BY <2>1, <2>2, Zenon DEF Echoes
<1>6. \A a, d, x : Alike(a, d) => /\ Before(d, x) <=> Before(a, x)
                                  /\ BeforeHeld(d, x) <=> BeforeHeld(a, x)
  BY Zenon DEF Alike, Before, BeforeHeld
<1> HIDE DEF P, Q
<1>7. PendingInOrder(Q, c)
  <2> SUFFICES ASSUME NEW j \in DOMAIN b.pending
               PROVE  /\ \A a \in Q : a.src = b.pending[j].src =>
                                        Before(a, b.pending[j])
                      /\ \A i \in 1 .. j - 1 :
                           b.pending[i].src = b.pending[j].src =>
                             Before(b.pending[i], b.pending[j])
    BY <1>3, Zenon DEF PendingInOrder
  <2>1. ASSUME NEW a \in Q, a.src = b.pending[j].src
        PROVE  Before(a, b.pending[j])
    <3>1. PICK d \in P : Alike(a, d)
      BY <1>5, Zenon DEF Echoes
    <3>2. Before(d, b.pending[j])
      BY <3>1, <2>1, <1>4, Zenon DEF PendingInOrder, Alike
    <3> QED
      BY <3>1, <3>2, <1>6, Zenon
  <2> QED
    BY <2>1, <1>4, Zenon DEF PendingInOrder
<1>8. HeldInOrder(Q, c)
  <2> SUFFICES ASSUME NEW s \in DOMAIN b.retained
               PROVE  Ordered(Ahead(Q, c), s, b.retained[s])
    BY <1>3, Zenon DEF HeldInOrder
  <2>1. Ordered(Ahead(P, b), s, b.retained[s])
    BY <1>4, Zenon DEF HeldInOrder
  <2>2. ASSUME NEW j \in DOMAIN b.retained[s], NEW a \in Ahead(Q, c), a.src = s
        PROVE  BeforeHeld(a, b.retained[s][j])
    <3>1. PICK d \in Ahead(P, b) : Alike(a, d)
      BY <1>5, Zenon DEF Echoes
    <3>2. BeforeHeld(d, b.retained[s][j])
      BY <3>1, <2>1, <2>2, Zenon DEF Ordered, Alike
    <3> QED
      BY <3>1, <3>2, <1>6, Zenon
  <2> QED
    BY <2>1, <2>2, Zenon DEF Ordered
<1>9. Sound(S, Q, c)
  BY <1>3, <1>4, <1>7, <1>8, Zenon DEF Sound, Fine, Delivers, Apart
<1>10. Debt(c) = k - 1
  <2> DEFINE owed == Cardinality(Owing(b.retained, DOMAIN b.retained))
  <2>1. owed \in Nat
    BY <1>1, OwingFinite, Zenon
  <2>2. k = b.outstanding - Len(b.pending) - owed
    BY Zenon DEF Delivers, Debt
  <2>3. Debt(c) = (b.outstanding - 1) - Len(b.pending) - owed
    BY <1>3, Zenon DEF Debt
  <2> HIDE DEF owed
  <2> QED
    BY <1>1, <2>1, <2>2, <2>3
<1>11. \A s \in S : Bound(Q, c, s, level[s])
  <2> TAKE s \in S
  <2>1. Bound(P, b, s, level[s])
    BY Zenon DEF Delivers, P
  <2> QED
    BY <2>1, <1>3, <1>5 DEF Bound, Echoes, Alike
<1>12. ASSUME Live(S, P, b, level), NEW s \in S
       PROVE  Carries(Q, c, s, level[s])
  <2>1. Carries(P, b, s, level[s]) /\ Bound(P, b, s, level[s])
    BY <1>12, Zenon DEF Live, Delivers, P
  <2>2. CASE \/ HoldsEdge(b.retained[s], level[s])
             \/ \E i \in DOMAIN b.pending : /\ IsLevel(b.pending[i], s)
                                            /\ b.pending[i].retain
                                            /\ b.pending[i].edge = level[s]
    BY <2>2, <1>3, Zenon DEF Carries
  <2>3. ASSUME NEW a \in P, IsLevel(a, s), a.edge = level[s]
        PROVE  Carries(Q, c, s, level[s])
    <3>0. \A d, n : Alike(n, d) => /\ IsLevel(d, s) <=> IsLevel(n, s)
                                   /\ n.edge = d.edge
      BY Zenon DEF Alike, IsLevel
    <3>1. ASSUME IsLevel(e, s), e.edge = level[s]
          PROVE  Carries(Q, c, s, level[s])
      <4>1. s = e.src /\ Alike(SeenEvent(now, s), e)
        BY <3>1, <1>2, Zenon DEF Receives, IsLevel
      <4>2. SeenEvent(now, s) \in Q
        BY Zenon DEF Gone, Q
      <4> QED
        BY <3>0, <3>1, <4>1, <4>2, Zenon DEF Carries
    <3>2. ASSUME NEW i \in DOMAIN q, a = q[i]
          PROVE  Carries(Q, c, s, level[s])
      <4>1. CASE i = 1
        BY <4>1, <3>1, <3>2, <2>3, <1>2, Zenon DEF Receives
      <4>2. CASE i # 1
        <5>1. i - 1 \in DOMAIN r /\ r[i - 1] = a
          BY <4>2, <3>2, <1>2, Zenon DEF Receives
        <5>2. a \in Q
          BY <5>1, Zenon DEF Gone, Q
        <5> QED
          BY <5>2, <2>3, Zenon DEF Carries
      <4> QED
        BY <4>1, <4>2, Zenon
    <3>3. ASSUME NEW t \in S, a = SeenEvent(got, t)
          PROVE  Carries(Q, c, s, level[s])
      <4>1. t = s /\ got[s] = level[s]
        BY <3>3, <2>3, SeenEventType DEF IsLevel
      <4>2. CASE s # e.src \/ ~IsLevel(e, e.src)
        <5>1. SeenEvent(now, s) = a
          BY <4>1, <4>2, <3>3, <1>2, Zenon DEF Receives
        <5>2. a \in Q
          BY <5>1, Zenon DEF Gone, Q
        <5> QED
          BY <5>2, <2>3, Zenon DEF Carries
      <4>3. CASE s = e.src /\ IsLevel(e, e.src)
        <5>1. e \in EventSet(S) /\ e = q[1] /\ 1 \in DOMAIN q
          BY <1>2, Zenon DEF Receives
        <5>2. e \in P
          BY <5>1, Zenon DEF Gone, P
        <5>3. e.edge <= level[s] /\ e.edge \in Nat /\ level[s] \in Nat
          BY <2>1, <4>3, <5>1, <5>2, Zenon DEF Bound, Ahead, EventSet
        <5>4. Before(SeenEvent(got, s), e)
          BY <4>3, <5>1, Zenon DEF QueueInOrder
        <5>5. SeenEvent(got, s).edge = level[s]
          BY <2>3, <3>3, <4>1, Zenon
        <5>6. e.edge = level[s]
          BY <5>3, <5>4, <5>5 DEF Before
        <5> QED
          BY <3>1, <4>3, <5>6, Zenon
      <4> QED
        BY <4>2, <4>3, Zenon
    <3> QED
      BY <3>2, <3>3, Zenon DEF Gone, P
  <2> QED
    BY <2>1, <2>2, <2>3, Zenon DEF Carries
<1>13. QueueInOrder(r, now)
  <2> SUFFICES ASSUME NEW j \in DOMAIN r
               PROVE  /\ Before(SeenEvent(now, r[j].src), r[j])
                      /\ \A i \in 1 .. j - 1 : r[i].src = r[j].src =>
                                                 Before(r[i], r[j])
    BY Zenon DEF QueueInOrder
  <2>1. /\ r[j] = q[j + 1] /\ j + 1 \in DOMAIN q /\ e = q[1]
        /\ r \in Seq(EventSet(S))
    BY <1>2, Zenon DEF Receives
  <2>2. /\ j \in Nat /\ j # 0 /\ j <= Len(r)
        /\ DOMAIN r = 1 .. Len(r) /\ Len(r) \in Nat
        /\ r[j].src \in S
    BY <2>1 DEF EventSet
  <2>3. \A i \in 1 .. j : q[i].src = r[j].src => Before(q[i], r[j])
    BY <2>1, <2>2 DEF QueueInOrder
  <2>4. ASSUME NEW i \in 1 .. j - 1
        PROVE  r[i].src = r[j].src => Before(r[i], r[j])
    <3>1. i \in DOMAIN r /\ i + 1 \in 1 .. j
      BY <2>2
    <3>2. r[i] = q[i + 1]
      BY <3>1, <1>2, Zenon DEF Receives
    <3> QED
      BY <3>1, <3>2, <2>3, Zenon
  <2>5. Before(SeenEvent(now, r[j].src), r[j])
    <3>1. CASE r[j].src = e.src /\ IsLevel(e, e.src)
      <4>1. Alike(SeenEvent(now, e.src), e)
        BY <3>1, <1>2, Zenon DEF Receives
      <4>2. 1 \in 1 .. j
        BY <2>2
      <4>3. Before(e, r[j])
        BY <3>1, <4>2, <2>1, <2>3, Zenon
      <4> QED
        BY <3>1, <4>1, <4>3, <1>6, Zenon
    <3>2. CASE ~(r[j].src = e.src /\ IsLevel(e, e.src))
      <4>1. SeenEvent(now, r[j].src) = SeenEvent(got, r[j].src)
        BY <3>2, <2>2, <1>2, Zenon DEF Receives
      <4> QED
        BY <4>1, <2>1, Zenon DEF QueueInOrder
    <3> QED
      BY <3>1, <3>2, Zenon
  <2> QED
    BY <2>4, <2>5, Zenon
<1> QED
  BY <1>9, <1>10, <1>11, <1>12, <1>13, Zenon DEF Delivers, Live, P, Q
==============================================================================
