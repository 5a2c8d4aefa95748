------------------------- MODULE GraphBuild_proofs -------------------------
(***************************************************************************)
(* Proofs about GraphEdges and GraphBuild for every number of nodes,       *)
(* screenshots and audited members, every set of actions and states and    *)
(* every limit on the length of a setup.                                   *)
(*                                                                         *)
(* The first part is about the operators: an edge holds one entry per      *)
(* action (Whole, Prepared), and joining edges, picking entries, adding an *)
(* entry, rewiring and reassigning carry entries over whole (In, Same).    *)
(* On it rest four invariants, each inductive over BuildSpec, so that they *)
(* hold of explorations, of builds and of audits:                          *)
(*                                                                         *)
(*   LoadsInv        what is saved loads again (GraphLoads);               *)
(*   KeptInv         each transition's action stays on the edge between    *)
(*                   its nodes (NoTransitionIsLost);                       *)
(*   TransitionsInv  with entries of one action kept apart, the edges are  *)
(*                   the transitions (EdgesAreTheTransitions);             *)
(*   SetupsInv       from the arrivals no covered input came after, the    *)
(*                   trail joins up, and so does every setup read off it   *)
(*                   (SetupsLeadToTheirAction).                            *)
(***************************************************************************)
EXTENDS GraphBuild, FiniteSetTheorems, SequenceTheorems, WellFoundedInduction, TLAPS

\* A set of numbers has a least one: induction over numbers, of which every proof by
\* induction below is an instance.
LEMMA Smallest ==
  ASSUME NEW T \in SUBSET Nat, T # {}
  PROVE  \E n \in T : \A m \in T : n <= m
<1>1. PICK n \in T : \A m \in T : ~(<<m, n>> \in OpToRel(<, Nat))
  BY WFMin, NatLessThanWellFounded
<1>2. \A m \in T : ~(m < n)
  BY <1>1 DEF OpToRel
<1> QED BY <1>2

-----------------------------------------------------------------------------
(* Sequences of whatever values.                                           *)

\* A sequence, of whatever values.
ASeq(s) == \E S : s \in Seq(S)

LEMMA SeqParts ==
  ASSUME NEW s, ASeq(s)
  PROVE  Len(s) \in Nat /\ DOMAIN s = 1..Len(s) /\ (s = <<>> <=> Len(s) = 0)
BY DEF ASeq

LEMMA ListIsSeq ==
  ASSUME NEW n \in Nat, NEW s, 
  DOMAIN s = 1..n, s = [i \in DOMAIN s |-> s[i]]
  PROVE  ASeq(s) /\ Len(s) = n
<1> DEFINE S == {s[i] : i \in 1..n}
<1>1. s \in [1..n -> S]
  OBVIOUS
<1>2. s \in Seq(S)
  BY <1>1
<1>3. DOMAIN s = 1..n /\ DOMAIN s = 1..Len(s) /\ Len(s) \in Nat
  BY <1>1, <1>2, LenProperties
<1>4. Len(s) = n
  <2> HIDE DEF S
  <2> QED BY <1>3
<1> QED BY <1>2, <1>4 DEF ASeq

LEMMA ConcatParts ==
  ASSUME NEW s, NEW t, ASeq(s), ASeq(t)
  PROVE  /\ ASeq(s \o t) /\ Len(s \o t) = Len(s) + Len(t)
         /\ \A i \in 1..Len(s) : (s \o t)[i] = s[i]
         /\ \A i \in 1..Len(t) : (s \o t)[Len(s) + i] = t[i]
<1>1. PICK S, T : s \in Seq(S) /\ t \in Seq(T)
  BY DEF ASeq
<1>2. s \in Seq(S \cup T) /\ t \in Seq(S \cup T)
  BY <1>1
<1> QED BY <1>2, ConcatProperties DEF ASeq

LEMMA AppendParts ==
  ASSUME NEW s, NEW x, ASeq(s)
  PROVE  /\ ASeq(Append(s, x)) /\ Len(Append(s, x)) = Len(s) + 1
         /\ \A i \in 1..Len(s) : Append(s, x)[i] = s[i]
         /\ Append(s, x)[Len(s) + 1] = x
<1>1. PICK S : s \in Seq(S)
  BY DEF ASeq
<1>2. s \in Seq(S \cup {x})
  BY <1>1
<1> QED BY <1>2, AppendProperties DEF ASeq

LEMMA ExceptParts ==
  ASSUME NEW s, NEW i, NEW x, ASeq(s)
  PROVE  /\ ASeq([s EXCEPT ![i] = x]) /\ Len([s EXCEPT ![i] = x]) = Len(s)
         /\ \A j \in 1..Len(s) : [s EXCEPT ![i] = x][j] = IF j = i THEN x ELSE s[j]
<1> DEFINE t == [s EXCEPT ![i] = x]
<1>1. Len(s) \in Nat /\ DOMAIN s = 1..Len(s) /\ s = [j \in 1..Len(s) |-> s[j]]
  BY DEF ASeq
<1>2. t = [j \in 1..Len(s) |-> t[j]] /\ \A j \in 1..Len(s) : t[j] = IF j = i THEN x ELSE s[j]
  BY <1>1
<1> HIDE DEF t
<1>3. ASeq(t) /\ Len(t) = Len(s)
  BY <1>1, <1>2, ListIsSeq
<1> QED BY <1>2, <1>3 DEF t

LEMMA SubSeqParts ==
  ASSUME NEW s, ASeq(s), NEW m \in 1..(Len(s) + 1), NEW n \in 0..Len(s)
  PROVE  /\ ASeq(SubSeq(s, m, n)) /\ Len(SubSeq(s, m, n)) = IF m <= n THEN n - m + 1 ELSE 0
         /\ \A i \in 1..(n - m + 1) : SubSeq(s, m, n)[i] = s[m + i - 1]
<1>1. PICK S : s \in Seq(S)
  BY DEF ASeq
<1>2. \A i \in m..n : s[i] \in S
  BY <1>1
<1>3. m \in Int /\ n \in Int
  BY SeqParts
<1>4. /\ SubSeq(s, m, n) \in Seq(S)
      /\ Len(SubSeq(s, m, n)) = IF m <= n THEN n - m + 1 ELSE 0
      /\ \A i \in 1..(n - m + 1) : SubSeq(s, m, n)[i] = s[m + i - 1]
  BY <1>2, <1>3, SubSeqProperties
<1> QED BY <1>4 DEF ASeq

LEMMA TailParts ==
  ASSUME NEW s, ASeq(s), s # <<>>
  PROVE  /\ ASeq(Tail(s)) /\ Len(Tail(s)) = Len(s) - 1 /\ DOMAIN Tail(s) = 1..(Len(s) - 1)
         /\ \A i \in 1..(Len(s) - 1) : Tail(s)[i] = s[i + 1] /\ i + 1 \in 1..Len(s)
<1>1. PICK S : s \in Seq(S)
  BY DEF ASeq
<1>2. Tail(s) \in Seq(S) /\ Len(Tail(s)) = Len(s) - 1 /\ Len(s) \in Nat
       /\ \A i \in 1..Len(Tail(s)) : Tail(s)[i] = s[i + 1]
  BY <1>1, HeadTailProperties
<1>3. DOMAIN Tail(s) = 1..(Len(s) - 1)
  BY <1>2
<1> QED BY <1>2, <1>3 DEF ASeq

-----------------------------------------------------------------------------
(* The order of entries is total, so InOrder lists them all.               *)

Slots == (Int \X Int) \X Int

LEMMA BeforeIsTotal ==
  ASSUME NEW x \in Slots, NEW y \in Slots
  PROVE  /\ ~Before(x, x)
         /\ x = y \/ Before(x, y) \/ Before(y, x)
         /\ \A z \in Slots : Before(x, y) /\ Before(y, z) => Before(x, z)
BY DEF Before, Slots

LEMMA InOrderLists ==
  ASSUME NEW S \in SUBSET Slots, IsFiniteSet(S)
  PROVE  /\ InOrder(S) \in Seq(S)
         /\ DOMAIN InOrder(S) = 1..Cardinality(S)
         /\ \A x \in S : \E k \in DOMAIN InOrder(S) : InOrder(S)[k] = x
<1> DEFINE n == Cardinality(S)
           Below(x) == {y \in S : Before(y, x)}
           rank == [x \in S |-> Cardinality(Below(x))]
<1>1. n \in Nat
  BY FS_CardinalityType
<1>2. ASSUME NEW x \in S PROVE IsFiniteSet(Below(x)) /\ rank[x] \in 0..(n - 1)
  <2>1. IsFiniteSet(S \ {x}) /\ Cardinality(S \ {x}) = n - 1
    BY FS_RemoveElement
  <2>2. Below(x) \in SUBSET (S \ {x})
    BY BeforeIsTotal
  <2> HIDE DEF Below
  <2>3. IsFiniteSet(Below(x)) /\ Cardinality(Below(x)) <= n - 1
    BY <2>1, <2>2, FS_Subset
  <2>4. Cardinality(Below(x)) \in Nat
    BY <2>3, FS_CardinalityType
  <2> QED BY <2>3, <2>4, <1>1
<1>3. ASSUME NEW x \in S, NEW y \in S, Before(x, y) PROVE rank[x] < rank[y]
  <2>1. x \notin Below(x) /\ Below(x) \cup {x} \in SUBSET Below(y)
    BY <1>3, BeforeIsTotal
  <2> HIDE DEF Below
  <2>2. Cardinality(Below(x) \cup {x}) = Cardinality(Below(x)) + 1
    BY <1>2, <2>1, FS_AddElement
  <2>3. Cardinality(Below(x) \cup {x}) <= Cardinality(Below(y))
    BY <1>2, <2>1, FS_Subset
  <2>4. \A z \in S : Cardinality(Below(z)) \in Nat
    BY <1>2, FS_CardinalityType
  <2> QED BY <2>2, <2>3, <2>4
<1>r. \A x \in S : rank[x] = Cardinality({y \in S : Before(y, x)})
  OBVIOUS
<1>d. \A x \in S, y \in S : Before(x, y) => rank[x] < rank[y]
  BY <1>3
<1>s. rank \in [S -> 0..(n - 1)]
  BY <1>2
<1> HIDE DEF rank
<1>i. \A x \in S : rank[x] \in Int
  BY <1>1, <1>s
<1>4. rank \in Surjection(S, 0..(n - 1))
  <2>2. ASSUME NEW x \in S, NEW y \in S, rank[x] = rank[y] PROVE x = y
    BY <1>i, <1>d, <2>2, BeforeIsTotal
  <2>3. rank \in Injection(S, 0..(n - 1))
    BY <1>s, <2>2 DEF Injection, IsInjective
  <2>4. IsFiniteSet(0..(n - 1)) /\ Cardinality(0..(n - 1)) = n
    BY <1>1, FS_Interval
  <2> QED BY <2>3, <2>4, FS_Injection
<1>5. ASSUME NEW k \in 1..n
      PROVE  InOrder(S)[k] \in S /\ rank[InOrder(S)[k]] = k - 1
  <2>1. \E x \in S : rank[x] = k - 1
    BY <1>1, <1>4 DEF Surjection
  <2>2. \E x \in S : Cardinality({y \in S : Before(y, x)}) = k - 1
    BY <1>r, <2>1
  <2>3. InOrder(S)[k] \in S
        /\ Cardinality({y \in S : Before(y, InOrder(S)[k])}) = k - 1
    BY <2>2 DEF InOrder
  <2> QED BY <1>r, <2>3
<1>6. InOrder(S) \in [1..n -> S]
  BY <1>5 DEF InOrder
<1>7. ASSUME NEW x \in S PROVE \E k \in 1..n : InOrder(S)[k] = x
  <2> DEFINE k == rank[x] + 1
  <2>1. k \in 1..n /\ rank[x] = k - 1
    BY <1>1, <1>s
  <2>2. InOrder(S)[k] \in S /\ rank[InOrder(S)[k]] = rank[x]
    BY <1>5, <2>1
  <2>4. InOrder(S)[k] = x
    <3> HIDE DEF k
    <3> QED BY <1>d, <1>i, <2>2, BeforeIsTotal
  <2> QED BY <2>1, <2>4
<1> QED BY <1>1, <1>6, <1>7

-----------------------------------------------------------------------------
(* Edges hold one entry per action; what joins or picks entries carries    *)
(* them over whole.                                                        *)

\* Entry i of edge x and entry j of edge y are one entry.
Same(x, i, y, j) ==
  /\ x.actions[i] = y.actions[j] /\ x.setups[i] = y.setups[j]
  /\ x.anchors[i] = y.anchors[j] /\ x.sources[i] = y.sources[j]
  /\ x.alternatives[i] = y.alternatives[j]

\* The lists of x hold one entry per action.
Whole(x) ==
  /\ x = [actions |-> x.actions, setups |-> x.setups, anchors |-> x.anchors,
          sources |-> x.sources, alternatives |-> x.alternatives]
  /\ ASeq(x.actions) /\ ASeq(x.setups) /\ ASeq(x.anchors) /\ ASeq(x.sources)
  /\ ASeq(x.alternatives)
  /\ Len(x.setups) = Len(x.actions) /\ Len(x.anchors) = Len(x.actions)
  /\ Len(x.sources) = Len(x.actions) /\ Len(x.alternatives) = Len(x.actions)

\* Entry i of edge x is an entry of edge y.
In(x, i, y) == \E j \in DOMAIN y.actions : Same(x, i, y, j)
AllIn(x, y) == \A i \in DOMAIN x.actions : In(x, i, y)

LEMMA NoEdgeWhole == Whole(NoEdge) /\ DOMAIN NoEdge.actions = {}
<1>1. ASeq(<<>>) /\ Len(<<>>) = 0
  BY EmptySeq DEF ASeq
<1> QED BY <1>1 DEF Whole, NoEdge

LEMMA WholeParts ==
  ASSUME NEW x, Whole(x)
  PROVE  /\ Len(x.actions) \in Nat /\ DOMAIN x.actions = 1..Len(x.actions)
         /\ DOMAIN x.setups = 1..Len(x.actions) /\ DOMAIN x.anchors = 1..Len(x.actions)
         /\ DOMAIN x.sources = 1..Len(x.actions) /\ DOMAIN x.alternatives = 1..Len(x.actions)
         /\ x.actions = <<>> <=> DOMAIN x.actions = {}
<1>1. /\ Len(x.actions) \in Nat /\ DOMAIN x.actions = 1..Len(x.actions)
      /\ x.actions = <<>> <=> Len(x.actions) = 0
  BY SeqParts DEF Whole
<1> QED BY <1>1, SeqParts DEF Whole

\* u is s followed by t.
IsConcat(u, s, t) ==
  /\ ASeq(u) /\ Len(u) = Len(s) + Len(t)
  /\ \A i \in 1..Len(s) : u[i] = s[i]
  /\ \A j \in 1..Len(t) : u[Len(s) + j] = t[j]

LEMMA ConcatOf ==
  ASSUME NEW s, NEW t, ASeq(s), ASeq(t), NEW u, u = s \o t
  PROVE  IsConcat(u, s, t)
BY ConcatParts DEF IsConcat

LEMMA JoinedParts ==
  ASSUME NEW x, NEW y, Whole(x), Whole(y), NEW z, z = Joined(x, y)
  PROVE  /\ Whole(z) /\ Len(z.actions) = Len(x.actions) + Len(y.actions)
         /\ \A i \in DOMAIN x.actions : i \in DOMAIN z.actions /\ Same(z, i, x, i)
         /\ \A j \in DOMAIN y.actions : /\ Len(x.actions) + j \in DOMAIN z.actions
                                        /\ Same(z, Len(x.actions) + j, y, j)
         /\ \A i \in DOMAIN z.actions : In(z, i, x) \/ In(z, i, y)
<1> DEFINE m == Len(x.actions)
           n == Len(y.actions)
<1>actions.
  /\ ASeq(z.actions) /\ Len(z.actions) = m + n
  /\ \A i \in 1..m : z.actions[i] = x.actions[i]
  /\ \A j \in 1..n : z.actions[m + j] = y.actions[j]
  <2>1. z.actions = x.actions \o y.actions
    BY DEF Joined
  <2>2. ASeq(x.actions) /\ ASeq(y.actions) /\ Len(x.actions) = m /\ Len(y.actions) = n
    BY DEF Whole
  <2> HIDE DEF m, n
  <2>3. IsConcat(z.actions, x.actions, y.actions)
    BY <2>1, <2>2, ConcatOf
  <2> QED BY <2>2, <2>3 DEF IsConcat
<1>setups.
  /\ ASeq(z.setups) /\ Len(z.setups) = m + n
  /\ \A i \in 1..m : z.setups[i] = x.setups[i]
  /\ \A j \in 1..n : z.setups[m + j] = y.setups[j]
  <2>1. z.setups = x.setups \o y.setups
    BY DEF Joined
  <2>2. ASeq(x.setups) /\ ASeq(y.setups) /\ Len(x.setups) = m /\ Len(y.setups) = n
    BY DEF Whole
  <2> HIDE DEF m, n
  <2>3. IsConcat(z.setups, x.setups, y.setups)
    BY <2>1, <2>2, ConcatOf
  <2> QED BY <2>2, <2>3 DEF IsConcat
<1>anchors.
  /\ ASeq(z.anchors) /\ Len(z.anchors) = m + n
  /\ \A i \in 1..m : z.anchors[i] = x.anchors[i]
  /\ \A j \in 1..n : z.anchors[m + j] = y.anchors[j]
  <2>1. z.anchors = x.anchors \o y.anchors
    BY DEF Joined
  <2>2. ASeq(x.anchors) /\ ASeq(y.anchors) /\ Len(x.anchors) = m /\ Len(y.anchors) = n
    BY DEF Whole
  <2> HIDE DEF m, n
  <2>3. IsConcat(z.anchors, x.anchors, y.anchors)
    BY <2>1, <2>2, ConcatOf
  <2> QED BY <2>2, <2>3 DEF IsConcat
<1>sources.
  /\ ASeq(z.sources) /\ Len(z.sources) = m + n
  /\ \A i \in 1..m : z.sources[i] = x.sources[i]
  /\ \A j \in 1..n : z.sources[m + j] = y.sources[j]
  <2>1. z.sources = x.sources \o y.sources
    BY DEF Joined
  <2>2. ASeq(x.sources) /\ ASeq(y.sources) /\ Len(x.sources) = m /\ Len(y.sources) = n
    BY DEF Whole
  <2> HIDE DEF m, n
  <2>3. IsConcat(z.sources, x.sources, y.sources)
    BY <2>1, <2>2, ConcatOf
  <2> QED BY <2>2, <2>3 DEF IsConcat
<1>alternatives.
  /\ ASeq(z.alternatives) /\ Len(z.alternatives) = m + n
  /\ \A i \in 1..m : z.alternatives[i] = x.alternatives[i]
  /\ \A j \in 1..n : z.alternatives[m + j] = y.alternatives[j]
  <2>1. z.alternatives = x.alternatives \o y.alternatives
    BY DEF Joined
  <2>2. ASeq(x.alternatives) /\ ASeq(y.alternatives) /\ Len(x.alternatives) = m /\ Len(y.alternatives) = n
    BY DEF Whole
  <2> HIDE DEF m, n
  <2>3. IsConcat(z.alternatives, x.alternatives, y.alternatives)
    BY <2>1, <2>2, ConcatOf
  <2> QED BY <2>2, <2>3 DEF IsConcat
<1>1. Whole(z) /\ Len(z.actions) = m + n
  BY <1>actions, <1>setups, <1>anchors, <1>sources, <1>alternatives DEF Whole, Joined
<1>2. ASSUME NEW i \in 1..m PROVE Same(z, i, x, i)
  BY <1>actions, <1>setups, <1>anchors, <1>sources, <1>alternatives DEF Same
<1>3. ASSUME NEW j \in 1..n PROVE Same(z, m + j, y, j)
  BY <1>actions, <1>setups, <1>anchors, <1>sources, <1>alternatives DEF Same
<1>4. /\ DOMAIN x.actions = 1..m /\ DOMAIN y.actions = 1..n /\ DOMAIN z.actions = 1..(m + n)
      /\ m \in Nat /\ n \in Nat
  BY <1>1, WholeParts
<1> HIDE DEF m, n
<1>5. ASSUME NEW i \in DOMAIN z.actions PROVE In(z, i, x) \/ In(z, i, y)
  <2>1. CASE i <= m
    BY <1>2, <1>4, <2>1 DEF In
  <2>2. CASE ~(i <= m)
    <3> DEFINE j == i - m
    <3>1. j \in DOMAIN y.actions /\ i = m + j
      BY <1>4, <2>2
    <3> QED BY <1>3, <1>4, <3>1 DEF In
  <2> QED BY <2>1, <2>2
<1>6. \A i \in 1..m : i \in 1..(m + n)
  BY <1>4
<1>7. \A j \in 1..n : m + j \in 1..(m + n)
  BY <1>4
<1> QED BY <1>1, <1>2, <1>3, <1>4, <1>5, <1>6, <1>7 DEF m, n

LEMMA JoinedAll ==
  ASSUME NEW x, NEW y, Whole(x), Whole(y)
  PROVE  AllIn(x, Joined(x, y)) /\ AllIn(y, Joined(x, y))
<1> DEFINE z == Joined(x, y)
<1>1. /\ \A i \in DOMAIN x.actions : i \in DOMAIN z.actions /\ Same(z, i, x, i)
      /\ \A j \in DOMAIN y.actions : /\ Len(x.actions) + j \in DOMAIN z.actions
                                     /\ Same(z, Len(x.actions) + j, y, j)
  BY JoinedParts
<1> QED BY <1>1 DEF AllIn, In, Same

LEMMA InTransitive ==
  ASSUME NEW x, NEW i, NEW y, NEW z, In(x, i, y), AllIn(y, z)
  PROVE  In(x, i, z)
BY DEF In, AllIn, Same

\* A set of entries of es.
EntriesFrom(S, es) ==
  /\ IsFiniteSet(S) /\ S \in SUBSET Slots
  /\ \A slot \in S : slot[1] \in DOMAIN es /\ slot[2] \in DOMAIN es[slot[1]].actions

LEMMA EntriesParts ==
  ASSUME NEW es, NEW S, EntriesFrom(S, es), NEW z, z = Entries(es, S)
  PROVE  /\ Whole(z) /\ Len(z.actions) = Cardinality(S)
         /\ \A k \in DOMAIN z.actions : \E slot \in S : Same(z, k, es[slot[1]], slot[2])
         /\ \A slot \in S : \E k \in DOMAIN z.actions : Same(z, k, es[slot[1]], slot[2])
<1> DEFINE slots == InOrder(S)
           n == Cardinality(S)
<1>1. /\ n \in Nat /\ DOMAIN slots = 1..n
      /\ \A x \in S : \E k \in 1..n : slots[k] = x
  BY InOrderLists, FS_CardinalityType DEF EntriesFrom
<1>2. \A k \in 1..n : slots[k] \in S
  <2>1. slots \in Seq(S)
    BY InOrderLists DEF EntriesFrom
  <2> HIDE DEF slots, n
  <2>2. Len(slots) \in Nat /\ 1..Len(slots) = 1..n
    BY <1>1, <2>1, LenProperties
  <2> QED BY <2>1, <2>2, ElementOfSeq
<1>3. z = [actions |-> [k \in 1..n |-> es[slots[k][1]].actions[slots[k][2]]],
           setups |-> [k \in 1..n |-> es[slots[k][1]].setups[slots[k][2]]],
           anchors |-> [k \in 1..n |-> es[slots[k][1]].anchors[slots[k][2]]],
           sources |-> [k \in 1..n |-> es[slots[k][1]].sources[slots[k][2]]],
           alternatives |-> [k \in 1..n |-> es[slots[k][1]].alternatives[slots[k][2]]]]
  BY <1>1 DEF Entries
<1> HIDE DEF slots, n
<1>4. Whole(z) /\ Len(z.actions) = n
  <2>1. /\ ASeq(z.actions) /\ Len(z.actions) = n /\ ASeq(z.setups) /\ Len(z.setups) = n
        /\ ASeq(z.anchors) /\ Len(z.anchors) = n /\ ASeq(z.sources) /\ Len(z.sources) = n
        /\ ASeq(z.alternatives) /\ Len(z.alternatives) = n
    BY <1>1, <1>3, ListIsSeq
  <2> QED BY <1>3, <2>1 DEF Whole
<1>5. \A k \in 1..n : Same(z, k, es[slots[k][1]], slots[k][2])
  BY <1>3 DEF Same
<1>6. DOMAIN z.actions = 1..n
  BY <1>4, WholeParts
<1> QED BY <1>1, <1>2, <1>4, <1>5, <1>6 DEF n

LEMMA ChangedParts ==
  ASSUME NEW s, ASeq(s), NEW t, DOMAIN t = DOMAIN s, t = [j \in DOMAIN s |-> t[j]]
  PROVE  ASeq(t) /\ Len(t) = Len(s)
<1>1. Len(s) \in Nat /\ DOMAIN s = 1..Len(s)
  BY SeqParts
<1> QED BY <1>1, ListIsSeq

-----------------------------------------------------------------------------
(* Searching a sequence.                                                   *)

LEMMA MinIs ==
  ASSUME NEW I \in SUBSET Nat, I # {}
  PROVE  Min(I) \in I /\ \A i \in I : Min(I) <= i
BY Smallest DEF Min

LEMMA MaxIs ==
  ASSUME NEW n \in Nat, NEW I \in SUBSET (1..n), I # {}
  PROVE  Max(I) \in I /\ \A i \in I : Max(I) >= i
<1> DEFINE J == {n - i : i \in I}
<1>1. PICK j \in J : \A k \in J : j <= k
  <2>1. \A i \in I : i \in Nat /\ n - i \in Nat
    OBVIOUS
  <2>3. J \in SUBSET Nat /\ J # {}
    BY <2>1
  <2> HIDE DEF J
  <2> QED BY <2>3, Smallest
<1>2. PICK i \in I : j = n - i
  BY <1>1
<1>3. \A k \in I : i >= k
  <2> SUFFICES ASSUME NEW k \in I PROVE i >= k
    OBVIOUS
  <2>1. n - i <= n - k
    BY <1>1, <1>2
  <2> QED BY <2>1
<1> QED BY <1>3 DEF Max

LEMMA IndexIs ==
  ASSUME NEW x, Whole(x), NEW action, NEW i, i = IndexOf(x, action)
  PROVE  \/ i = 0 /\ \A j \in DOMAIN x.actions : x.actions[j] # action
         \/ /\ i \in DOMAIN x.actions /\ x.actions[i] = action
            /\ \A j \in DOMAIN x.actions : x.actions[j] = action => i <= j
<1> DEFINE I == {j \in 1..Len(x.actions) : x.actions[j] = action}
<1>1. i = IF I # {} THEN Min(I) ELSE 0
  BY DEF IndexOf, SelectInSeq
<1>2. DOMAIN x.actions = 1..Len(x.actions) /\ Len(x.actions) \in Nat
  BY WholeParts
<1>3. I \in SUBSET Nat
  BY <1>2
<1>4. CASE I = {}
  BY <1>1, <1>2, <1>4
<1>5. CASE I # {}
  <2> HIDE DEF I
  <2>1. i \in I /\ \A j \in I : i <= j
    BY <1>1, <1>3, <1>5, MinIs
  <2> QED BY <1>2, <2>1 DEF I
<1> QED BY <1>4, <1>5

-----------------------------------------------------------------------------
(* add_edge and _retain_preparation.                                       *)

\* Every preparation beside the first is a record with an observation.
Alternatives(x, i) ==
  /\ ASeq(x.alternatives[i])
  /\ \A j \in DOMAIN x.alternatives[i] :
       x.alternatives[i][j] = [setup |-> x.alternatives[i][j].setup,
                               observation |-> x.alternatives[i][j].observation]

Prepared(x) == Whole(x) /\ \A i \in DOMAIN x.actions : Alternatives(x, i)

\* What a preparation (setup, anchor) that reaches entry i of edge x leaves there.
Offered(z, x, i, setup, anchor) ==
  /\ \/ z.setups[i] = x.setups[i] /\ z.anchors[i] = x.anchors[i]
     \/ z.setups[i] = setup /\ z.anchors[i] = anchor
  /\ \A j \in DOMAIN z.alternatives[i] :
       \/ \E k \in DOMAIN x.alternatives[i] : z.alternatives[i][j] = x.alternatives[i][k]
       \/ /\ z.alternatives[i][j] = [setup |-> setup, observation |-> anchor]
          /\ anchor # NoObservation
             \/ \E k \in DOMAIN x.alternatives[i] : x.alternatives[i][k].observation = anchor

LEMMA RetainedParts ==
  ASSUME NEW x, Prepared(x), NEW i \in DOMAIN x.actions,
         NEW setup, NEW anchor, NEW source,
         NEW z, z = Retained(x, i, setup, anchor, source)
  PROVE  /\ Prepared(z) /\ z.actions = x.actions
         /\ \A j \in DOMAIN x.actions : j # i => Same(z, j, x, j)
         /\ Offered(z, x, i, setup, anchor)
<1> DEFINE first == [setup |-> x.setups[i], observation |-> x.anchors[i]]
           preparations == <<first>> \o x.alternatives[i]
           same == SelectInSeq(preparations, LAMBDA p : p.observation = anchor)
           kept == IF same # 0
                   THEN IF Length(setup) < Length(preparations[same].setup)
                        THEN [preparations EXCEPT ![same].setup = setup] ELSE preparations
                   ELSE IF /\ anchor # NoObservation
                           /\ \A j \in DOMAIN preparations :
                                Length(setup) < Length(preparations[j].setup)
                        THEN Append(preparations, [setup |-> setup, observation |-> anchor])
                        ELSE preparations
           given0 == [setup |-> setup, observation |-> anchor]
           n == Len(preparations)
<1>1. /\ z = IF ~Known(x.setups[i])
             THEN [x EXCEPT !.setups[i] = setup, !.anchors[i] = anchor, !.sources[i] = source]
             ELSE [x EXCEPT !.setups[i] = kept[1].setup, !.alternatives[i] = Tail(kept),
                            !.sources[i] = IF kept[1] # preparations[1] THEN source ELSE @]
  BY DEF Retained
<1>2. /\ ASeq(x.alternatives[i]) /\ Whole(x)
      /\ \A j \in DOMAIN x.alternatives[i] :
           x.alternatives[i][j] = [setup |-> x.alternatives[i][j].setup,
                                   observation |-> x.alternatives[i][j].observation]
  BY DEF Prepared, Alternatives
<1>3. /\ ASeq(preparations) /\ n = Len(x.alternatives[i]) + 1 /\ n \in Nat \ {0}
      /\ preparations[1] = first
      /\ \A j \in DOMAIN x.alternatives[i] : preparations[1 + j] = x.alternatives[i][j]
      /\ DOMAIN preparations = 1..n
      /\ DOMAIN x.alternatives[i] = 1..(n - 1)
  <2> DEFINE one == <<first>>
             alts == x.alternatives[i]
  <2>1. ASeq(one) /\ Len(one) = 1 /\ one[1] = first
    <3>1. one \in Seq({first})
      OBVIOUS
    <3> QED BY <3>1 DEF ASeq
  <2>2. ASeq(alts) /\ Len(alts) \in Nat /\ DOMAIN alts = 1..Len(alts)
    BY <1>2, SeqParts
  <2> HIDE DEF one, alts
  <2>3. IsConcat(one \o alts, one, alts)
    BY <2>1, <2>2, ConcatOf
  <2>4. /\ ASeq(one \o alts) /\ Len(one \o alts) = Len(alts) + 1
        /\ (one \o alts)[1] = first
        /\ \A j \in 1..Len(alts) : (one \o alts)[1 + j] = alts[j]
    BY <2>1, <2>2, <2>3 DEF IsConcat
  <2>5. DOMAIN (one \o alts) = 1..(Len(alts) + 1)
    BY <2>2, <2>4, SeqParts
  <2> QED BY <2>2, <2>4, <2>5 DEF one, alts
<1> HIDE DEF preparations
<1>4. \A j \in 1..n : /\ preparations[j] = [setup |-> preparations[j].setup,
                                           observation |-> preparations[j].observation]
                      /\ j # 1 => j - 1 \in DOMAIN x.alternatives[i]
                                  /\ preparations[j] = x.alternatives[i][j - 1]
  <2>1. first = [setup |-> first.setup, observation |-> first.observation]
    OBVIOUS
  <2>2. ASSUME NEW j \in 1..n, j # 1
        PROVE  j - 1 \in 1..(n - 1) /\ preparations[1 + (j - 1)] = preparations[j]
    <3>1. 1 + (j - 1) = j /\ j - 1 \in 1..(n - 1)
      BY <1>3, <2>2
    <3> QED BY <3>1
  <2> HIDE DEF first, n
  <2> QED BY <1>2, <1>3, <2>1, <2>2
<1>5. same \in 0..n /\ (same # 0 => preparations[same].observation = anchor)
  <2> DEFINE I == {j \in 1..n : preparations[j].observation = anchor}
  <2>1. same = IF I # {} THEN Min(I) ELSE 0
    BY DEF SelectInSeq
  <2>2. I \in SUBSET Nat
    BY <1>3
  <2>3. I # {} => Min(I) \in I
    <3> HIDE DEF I
    <3> QED BY <2>2, MinIs
  <2> QED BY <1>3, <2>1, <2>3
<1> HIDE DEF same, first, n
\* Each preparation kept was there or is the given one.
<1>6. /\ ASeq(kept) /\ Len(kept) \in {n, n + 1}
      /\ kept[1] \in {preparations[1], given0} /\ kept[1].observation = preparations[1].observation
      /\ \A j \in 2..n : kept[j] = preparations[j]
                         \/ (kept[j] = given0 /\ preparations[j].observation = anchor)
      /\ \A j \in (n + 1)..Len(kept) : kept[j] = given0 /\ anchor # NoObservation
  <2>0. n \in Nat /\ n >= 1 /\ n = Len(preparations)
    BY <1>3 DEF n
  <2>g. given0.observation = anchor /\ given0.setup = setup
    OBVIOUS
  <2>1. CASE same # 0 /\ kept = [preparations EXCEPT ![same].setup = setup]
    <3>0. same \in 1..n /\ preparations[same].observation = anchor
      BY <1>5, <2>0, <2>1
    <3>1. [preparations[same] EXCEPT !.setup = setup] = given0
      <4> DEFINE p == preparations[same]
      <4>1. p = [setup |-> p.setup, observation |-> p.observation] /\ p.observation = anchor
        BY <1>4, <3>0
      <4> HIDE DEF p
      <4>2. [p EXCEPT !.setup = setup] = [setup |-> setup, observation |-> p.observation]
        BY <4>1
      <4> QED BY <4>1, <4>2 DEF p
    <3>2. kept = [preparations EXCEPT ![same] = given0]
      BY <2>1, <3>1
    <3> HIDE DEF kept, given0
    <3>3. /\ ASeq(kept) /\ Len(kept) = n
          /\ \A j \in 1..n : kept[j] = IF j = same THEN given0 ELSE preparations[j]
      <4>1. /\ DOMAIN kept = 1..n /\ kept = [j \in 1..n |-> kept[j]]
            /\ \A j \in 1..n : kept[j] = IF j = same THEN given0 ELSE preparations[j]
        BY <1>3, <3>2
      <4> QED BY <1>3, <2>0, <4>1, ChangedParts
    <3>4. 1 \in 1..n /\ (n + 1)..Len(kept) = {} /\ \A j \in 2..n : j \in 1..n
      BY <2>0, <3>3
    <3>5. kept[1] \in {preparations[1], given0} /\ kept[1].observation = preparations[1].observation
      BY <2>g, <3>0, <3>3, <3>4
    <3>6. \A j \in 2..n : kept[j] = preparations[j]
                          \/ (kept[j] = given0 /\ preparations[j].observation = anchor)
      BY <3>0, <3>3, <3>4
    <3> QED BY <3>3, <3>4, <3>5, <3>6
  <2>2. CASE kept = preparations
    <3> HIDE DEF kept, given0
    <3>1. (n + 1)..Len(kept) = {}
      BY <2>0, <2>2
    <3>2. ASeq(kept) /\ Len(kept) = n
      BY <1>3, <2>0, <2>2
    <3>3. \A j : kept[j] = preparations[j]
      BY <2>2
    <3> QED BY <3>1, <3>2, <3>3
  <2>3. CASE anchor # NoObservation /\ kept = Append(preparations, given0)
    <3> HIDE DEF kept, given0
    <3>1. /\ ASeq(kept) /\ Len(kept) = n + 1 /\ kept[n + 1] = given0
          /\ \A j \in 1..n : kept[j] = preparations[j]
      BY <1>3, <2>0, <2>3, AppendParts
    <3>2. 1 \in 1..n /\ (\A j \in 2..n : j \in 1..n) /\ \A j \in (n + 1)..Len(kept) : j = n + 1
      BY <2>0, <3>1
    <3>3. kept[1] = preparations[1] /\ \A j \in 2..n : kept[j] = preparations[j]
      BY <3>1, <3>2
    <3>4. \A j \in (n + 1)..Len(kept) : kept[j] = given0 /\ anchor # NoObservation
      BY <2>3, <3>1, <3>2
    <3> QED BY <3>1, <3>3, <3>4
  <2> QED BY <2>1, <2>2, <2>3
<1> HIDE DEF kept
<1>7. /\ ASeq(Tail(kept)) /\ DOMAIN Tail(kept) = 1..(Len(kept) - 1)
      /\ \A j \in 1..(Len(kept) - 1) : Tail(kept)[j] = kept[j + 1]
  <2>1. kept # <<>> /\ Len(kept) \in Nat
    BY <1>3, <1>6, SeqParts
  <2> QED BY <1>6, <2>1, TailParts
<1>8. ASSUME NEW j \in DOMAIN Tail(kept)
      PROVE  /\ Tail(kept)[j] = [setup |-> Tail(kept)[j].setup,
                                 observation |-> Tail(kept)[j].observation]
             /\ \/ \E k \in DOMAIN x.alternatives[i] : Tail(kept)[j] = x.alternatives[i][k]
                \/ /\ Tail(kept)[j] = given0
                   /\ anchor # NoObservation
                      \/ \E k \in DOMAIN x.alternatives[i] :
                           x.alternatives[i][k].observation = anchor
  <2>1. j \in 1..(Len(kept) - 1) /\ Tail(kept)[j] = kept[j + 1]
    BY <1>7
  <2>2. j + 1 \in 2..n \/ j + 1 \in (n + 1)..Len(kept)
    BY <1>3, <1>6, <2>1
  <2>3. given0 = [setup |-> given0.setup, observation |-> given0.observation]
    OBVIOUS
  <2> HIDE DEF given0
  <2>4. CASE j + 1 \in 2..n
    <3>1. /\ j + 1 \in 1..n /\ j + 1 # 1
          /\ preparations[j + 1] = [setup |-> preparations[j + 1].setup,
                                    observation |-> preparations[j + 1].observation]
          /\ (j + 1) - 1 \in DOMAIN x.alternatives[i]
          /\ preparations[j + 1] = x.alternatives[i][(j + 1) - 1]
      BY <1>3, <1>4, <2>4
    <3> QED BY <1>6, <2>1, <2>3, <2>4, <3>1
  <2>5. CASE j + 1 \in (n + 1)..Len(kept)
    BY <1>6, <2>1, <2>3, <2>5
  <2> QED BY <2>2, <2>4, <2>5
<1> DEFINE rest == Tail(kept)
<1> HIDE DEF given0, rest
<1>9. /\ i \in 1..Len(x.actions) /\ DOMAIN x.setups = 1..Len(x.actions)
      /\ DOMAIN x.anchors = 1..Len(x.actions) /\ DOMAIN x.sources = 1..Len(x.actions)
      /\ DOMAIN x.alternatives = 1..Len(x.actions) /\ DOMAIN x.actions = 1..Len(x.actions)
  BY <1>2, WholeParts
<1>10. /\ x = [actions |-> x.actions, setups |-> x.setups, anchors |-> x.anchors,
                sources |-> x.sources, alternatives |-> x.alternatives]
       /\ ASeq(x.actions) /\ ASeq(x.setups) /\ ASeq(x.anchors) /\ ASeq(x.sources)
       /\ ASeq(x.alternatives)
       /\ Len(x.setups) = Len(x.actions) /\ Len(x.anchors) = Len(x.actions)
       /\ Len(x.sources) = Len(x.actions) /\ Len(x.alternatives) = Len(x.actions)
  BY <1>2 DEF Whole
<1>11. CASE ~Known(x.setups[i])
  <2>1. z = [x EXCEPT !.setups[i] = setup, !.anchors[i] = anchor, !.sources[i] = source]
    BY <1>1, <1>11
  <2>2. z = [actions |-> x.actions, setups |-> [x.setups EXCEPT ![i] = setup],
             anchors |-> [x.anchors EXCEPT ![i] = anchor],
             sources |-> [x.sources EXCEPT ![i] = source], alternatives |-> x.alternatives]
    BY <1>10, <2>1
  <2>3. Whole(z)
    <3>1. ASeq(z.setups) /\ Len(z.setups) = Len(x.setups)
      BY <1>9, <1>10, <2>2, ChangedParts
    <3>2. ASeq(z.anchors) /\ Len(z.anchors) = Len(x.anchors)
      BY <1>9, <1>10, <2>2, ChangedParts
    <3>3. ASeq(z.sources) /\ Len(z.sources) = Len(x.sources)
      BY <1>9, <1>10, <2>2, ChangedParts
    <3> QED BY <1>10, <2>2, <3>1, <3>2, <3>3 DEF Whole
  <2>4. \A j \in DOMAIN x.actions : j # i => Same(z, j, x, j)
    BY <1>9, <2>2 DEF Same
  <2>5. z.setups[i] = setup /\ z.anchors[i] = anchor /\ z.alternatives = x.alternatives
    BY <1>9, <2>2
  <2>6. z.actions = x.actions
    BY <2>2
  <2>7. Offered(z, x, i, setup, anchor)
    BY <2>5 DEF Offered
  <2>8. Prepared(z)
    BY <2>3, <2>5, <2>6 DEF Prepared, Alternatives
  <2> QED BY <2>4, <2>6, <2>7, <2>8
<1>12. CASE Known(x.setups[i])
  <2> DEFINE newSource == IF kept[1] # preparations[1] THEN source ELSE x.sources[i]
  <2>1. z = [x EXCEPT !.setups[i] = kept[1].setup, !.alternatives[i] = rest,
                      !.sources[i] = IF kept[1] # preparations[1] THEN source ELSE @]
    BY <1>1, <1>12 DEF rest
  <2>2. z = [actions |-> x.actions, setups |-> [x.setups EXCEPT ![i] = kept[1].setup],
             anchors |-> x.anchors, sources |-> [x.sources EXCEPT ![i] = newSource],
             alternatives |-> [x.alternatives EXCEPT ![i] = rest]]
    BY <1>10, <2>1
  <2> HIDE DEF newSource
  <2>3. Whole(z)
    <3>1. /\ ASeq(z.setups) /\ Len(z.setups) = Len(x.setups)
          /\ ASeq(z.sources) /\ Len(z.sources) = Len(x.sources)
          /\ ASeq(z.alternatives) /\ Len(z.alternatives) = Len(x.alternatives)
      BY <1>9, <1>10, <2>2, ChangedParts
    <3> QED BY <1>10, <2>2, <3>1 DEF Whole
  <2>4. \A j \in DOMAIN x.actions : j # i => Same(z, j, x, j)
    BY <1>9, <2>2 DEF Same
  <2>5. z.setups[i] = kept[1].setup /\ z.anchors = x.anchors /\ z.alternatives[i] = rest
    BY <1>9, <2>2
  <2>6. z.actions = x.actions
    BY <2>2
  <2>7. \/ z.setups[i] = x.setups[i] /\ z.anchors[i] = x.anchors[i]
        \/ z.setups[i] = setup /\ z.anchors[i] = anchor
    BY <1>3, <1>6, <2>5 DEF first, given0
  <2>8. Offered(z, x, i, setup, anchor)
    BY <1>8, <2>5, <2>7 DEF Offered, given0, rest
  <2>9. \A j \in DOMAIN x.actions : Alternatives(z, j)
    <3> SUFFICES ASSUME NEW j \in DOMAIN x.actions PROVE Alternatives(z, j)
      OBVIOUS
    <3>1. CASE j = i
      BY <1>7, <1>8, <2>5, <3>1 DEF Alternatives, rest
    <3>2. CASE j # i
      <4>1. z.alternatives[j] = x.alternatives[j]
        BY <2>4, <3>2 DEF Same
      <4> QED BY <4>1 DEF Prepared, Alternatives
    <3> QED BY <3>1, <3>2
  <2> QED BY <2>3, <2>4, <2>6, <2>8, <2>9 DEF Prepared
<1> QED BY <1>11, <1>12

PreparedAll(es) == \A e \in DOMAIN es : Prepared(es[e])

LEMMA InAlternatives ==
  ASSUME NEW y, Prepared(y), NEW z, NEW i, In(z, i, y)
  PROVE  Alternatives(z, i)
<1>1. PICK j \in DOMAIN y.actions : Same(z, i, y, j)
  BY DEF In
<1>2. Alternatives(y, j) /\ z.alternatives[i] = y.alternatives[j]
  BY <1>1 DEF Prepared, Same
<1> QED BY <1>2 DEF Alternatives

LEMMA JoinedPrepared ==
  ASSUME NEW x, NEW y, Prepared(x), Prepared(y)
  PROVE  /\ Prepared(Joined(x, y)) /\ AllIn(x, Joined(x, y)) /\ AllIn(y, Joined(x, y))
         /\ \A i \in DOMAIN Joined(x, y).actions : In(Joined(x, y), i, x) \/ In(Joined(x, y), i, y)
<1> DEFINE z == Joined(x, y)
<1>1. Whole(x) /\ Whole(y)
  BY DEF Prepared
<1>2. Whole(z) /\ \A i \in DOMAIN z.actions : In(z, i, x) \/ In(z, i, y)
  BY <1>1, JoinedParts
<1>3. \A i \in DOMAIN z.actions : Alternatives(z, i)
  <2> HIDE DEF z
  <2> QED BY <1>2, InAlternatives
<1> QED BY <1>1, <1>2, <1>3, JoinedAll DEF Prepared

LEMMA NoEdgePrepared == Prepared(NoEdge)
BY NoEdgeWhole DEF Prepared

LEMMA EdgeOfPrepared ==
  ASSUME NEW es, PreparedAll(es), NEW e
  PROVE  /\ Prepared(EdgeOf(es, e))
         /\ e \in DOMAIN es => EdgeOf(es, e) = es[e]
         /\ DOMAIN EdgeOf(es, e).actions # {} => e \in DOMAIN es
BY NoEdgePrepared, NoEdgeWhole DEF EdgeOf, PreparedAll

-----------------------------------------------------------------------------
\* Entry i of z is new; or it was entry i of x, and the setup was offered to it.
Fresh(z, i, action, setup, anchor) ==
  /\ z.actions[i] = action /\ z.setups[i] = setup /\ z.anchors[i] = anchor
  /\ z.alternatives[i] = <<>>

Repeated(z, x, i, action, setup, anchor) ==
  /\ i \in DOMAIN x.actions /\ x.actions[i] = action /\ z.actions[i] = action
  /\ Known(setup) /\ Offered(z, x, i, setup, anchor)

\* What add_edge leaves on edge e, which was x.
Added(ns, es, e, x, action, setup, anchor) ==
         /\ DOMAIN ns = DOMAIN es \cup {e} /\ PreparedAll(ns)
         /\ \A f \in DOMAIN es : f # e => ns[f] = es[f]
         /\ ns[e].actions = IF IndexOf(x, action) = 0 THEN x.actions \o <<action>> ELSE x.actions
         /\ \A i \in DOMAIN ns[e].actions :
              \/ In(ns[e], i, x)
              \/ Fresh(ns[e], i, action, setup, anchor)
              \/ Repeated(ns[e], x, i, action, setup, anchor)
         /\ \E i \in DOMAIN ns[e].actions : ns[e].actions[i] = action
         /\ \A i \in DOMAIN x.actions : \E j \in DOMAIN ns[e].actions :
              ns[e].actions[j] = x.actions[i]
         /\ \A i \in DOMAIN ns[e].actions : ns[e].actions[i] = action
              \/ \E j \in DOMAIN x.actions : ns[e].actions[i] = x.actions[j]
         /\ ns = [f \in DOMAIN ns |-> ns[f]]

LEMMA AddEdgeParts ==
  ASSUME NEW es, PreparedAll(es), NEW e, NEW action, NEW setup, NEW anchor, NEW source,
         NEW ns, ns = AddEdge(es, e, action, setup, anchor, source),
         NEW x, x = EdgeOf(es, e)
  PROVE  Added(ns, es, e, x, action, setup, anchor)
<1> DEFINE i == IndexOf(x, action)
           new == [actions |-> <<action>>, setups |-> <<setup>>, anchors |-> <<anchor>>,
                   sources |-> <<source>>, alternatives |-> << <<>> >>]
           z == IF i = 0 THEN Joined(x, new)
                ELSE IF Known(setup) THEN Retained(x, i, setup, anchor, source) ELSE x
<1>1. ns = [f \in DOMAIN es \cup {e} |-> IF f = e THEN z ELSE es[f]]
  BY DEF AddEdge, Put
<1>2. Prepared(x) /\ Whole(x)
  BY EdgeOfPrepared DEF Prepared
<1>3. Prepared(new) /\ DOMAIN new.actions = {1} /\ Fresh(new, 1, action, setup, anchor)
      /\ new.actions = <<action>>
  <2>1. \A v : ASeq(<<v>>) /\ Len(<<v>>) = 1
    <3> TAKE v
    <3>1. <<v>> \in Seq({v})
      OBVIOUS
    <3> QED BY <3>1 DEF ASeq
  <2>2. ASeq(<<>>) /\ DOMAIN <<>> = {}
    BY EmptySeq DEF ASeq
  <2>3. Whole(new)
    BY <2>1 DEF Whole
  <2>4. Fresh(new, 1, action, setup, anchor) /\ DOMAIN new.actions = {1} /\ new.actions = <<action>>
    BY DEF Fresh
  <2>5. Alternatives(new, 1)
    BY <2>2, <2>4 DEF Fresh, Alternatives
  <2> QED BY <2>3, <2>4, <2>5 DEF Prepared
<1>4. \/ i = 0 /\ \A j \in DOMAIN x.actions : x.actions[j] # action
      \/ /\ i \in DOMAIN x.actions /\ x.actions[i] = action
         /\ \A j \in DOMAIN x.actions : x.actions[j] = action => i <= j
  BY <1>2, IndexIs
<1>5. 0 \notin DOMAIN x.actions
  BY <1>2, WholeParts
<1> HIDE DEF i, new
<1>6. /\ Prepared(z) /\ z.actions = IF i = 0 THEN x.actions \o <<action>> ELSE x.actions
      /\ \A k \in DOMAIN z.actions : \/ In(z, k, x) \/ Fresh(z, k, action, setup, anchor)
                                     \/ Repeated(z, x, k, action, setup, anchor)
      /\ \E k \in DOMAIN z.actions : z.actions[k] = action
      /\ \A k \in DOMAIN x.actions : \E j \in DOMAIN z.actions : z.actions[j] = x.actions[k]
  <2>1. CASE i = 0
    <3>1. z = Joined(x, new)
      BY <2>1
    <3> HIDE DEF z
    <3>2. /\ Prepared(z) /\ AllIn(x, z) /\ AllIn(new, z)
          /\ \A k \in DOMAIN z.actions : In(z, k, x) \/ In(z, k, new)
      BY <1>2, <1>3, <3>1, JoinedPrepared
    <3>3. \A k \in DOMAIN z.actions : In(z, k, new) => Fresh(z, k, action, setup, anchor)
      BY <1>3 DEF In, Same, Fresh
    <3>4. \E k \in DOMAIN z.actions : z.actions[k] = action
      BY <1>3, <3>2 DEF AllIn, In, Same, Fresh
    <3>5. \A k \in DOMAIN x.actions : \E j \in DOMAIN z.actions : z.actions[j] = x.actions[k]
      BY <3>2 DEF AllIn, In, Same
    <3>6. z.actions = x.actions \o <<action>>
      BY <1>3, <3>1 DEF Joined
    <3> QED BY <2>1, <3>2, <3>3, <3>4, <3>5, <3>6
  <2>2. CASE i # 0 /\ Known(setup)
    <3>1. z = Retained(x, i, setup, anchor, source) /\ i \in DOMAIN x.actions /\ x.actions[i] = action
      BY <1>4, <2>2
    <3> HIDE DEF z
    <3>2. /\ Prepared(z) /\ z.actions = x.actions
          /\ \A j \in DOMAIN x.actions : j # i => Same(z, j, x, j)
          /\ Offered(z, x, i, setup, anchor)
      BY <1>2, <3>1, RetainedParts
    <3>3. Repeated(z, x, i, action, setup, anchor)
      BY <2>2, <3>1, <3>2 DEF Repeated
    <3> QED BY <2>2, <3>1, <3>2, <3>3 DEF In
  <2>3. CASE i # 0 /\ ~Known(setup)
    <3>1. z = x /\ i \in DOMAIN x.actions /\ x.actions[i] = action
      BY <1>4, <2>3
    <3> HIDE DEF z
    <3> QED BY <1>2, <2>3, <3>1 DEF In, Same
  <2> QED BY <2>1, <2>2, <2>3
<1>7. \A k \in DOMAIN z.actions : z.actions[k] = action
              \/ \E j \in DOMAIN x.actions : z.actions[k] = x.actions[j]
  <2> HIDE DEF z
  <2> QED BY <1>6 DEF In, Same, Fresh, Repeated
<1> HIDE DEF z
<1>8. ns[e] = z /\ DOMAIN ns = DOMAIN es \cup {e} /\ \A f \in DOMAIN es : f # e => ns[f] = es[f]
  BY <1>1
<1>9. PreparedAll(ns)
  BY <1>6, <1>8 DEF PreparedAll
<1> QED BY <1>1, <1>6, <1>7, <1>8, <1>9 DEF i, Added

-----------------------------------------------------------------------------
\* The name of a node, and of an edge, once remove is merged into keep.
Kept(n, keep, remove) == IF n = remove THEN keep ELSE n
KeptEdge(f, keep, remove) == <<Kept(f[1], keep, remove), Kept(f[2], keep, remove)>>

\* What _rewire_edges makes of the edges es.
RewiredAs(ns, es, keep, remove) ==
  /\ DOMAIN ns = {KeptEdge(f, keep, remove) : f \in DOMAIN es}
  /\ PreparedAll(ns) /\ ns = [f \in DOMAIN ns |-> ns[f]]
  /\ \A e \in DOMAIN ns : \A i \in DOMAIN ns[e].actions :
       \E f \in DOMAIN es : KeptEdge(f, keep, remove) = e /\ In(ns[e], i, es[f])
  /\ \A f \in DOMAIN es : AllIn(es[f], ns[KeptEdge(f, keep, remove)])

LEMMA RewiredParts ==
  ASSUME NEW es, PreparedAll(es), NEW keep, NEW remove, keep # remove,
         NEW N, DOMAIN es \subseteq N \X N,
         NEW ns, ns = Rewired(es, keep, remove)
  PROVE  RewiredAs(ns, es, keep, remove)
<1> DEFINE Old(x) == IF x = keep THEN {keep, remove} ELSE {x}
           Part(e, x) == IF x \in Old(e[1]) \X Old(e[2]) THEN EdgeOf(es, x) ELSE NoEdge
           a(e) == EdgeOf(es, e)
           b(e) == Part(e, <<e[1], remove>>)
           c(e) == Part(e, <<remove, e[2]>>)
           d(e) == Part(e, <<remove, remove>>)
           Sum(e) == Joined(Joined(Joined(a(e), b(e)), c(e)), d(e))
<1>1. ns = [e \in {KeptEdge(f, keep, remove) : f \in DOMAIN es} |-> Sum(e)]
  BY DEF Rewired, KeptEdge, Kept
<1>2. \A e, x : Prepared(Part(e, x))
  BY EdgeOfPrepared, NoEdgePrepared
<1>3. \A e, x : DOMAIN Part(e, x).actions # {} =>
        x \in DOMAIN es /\ Part(e, x) = es[x] /\ x \in Old(e[1]) \X Old(e[2])
  BY EdgeOfPrepared, NoEdgeWhole
<1>4. \A e : /\ Prepared(Sum(e))
             /\ \A i \in DOMAIN Sum(e).actions : \/ In(Sum(e), i, a(e)) \/ In(Sum(e), i, b(e))
                                                 \/ In(Sum(e), i, c(e)) \/ In(Sum(e), i, d(e))
             /\ AllIn(a(e), Sum(e)) /\ AllIn(b(e), Sum(e)) /\ AllIn(c(e), Sum(e)) /\ AllIn(d(e), Sum(e))
  <2> TAKE e
  <2>1. Prepared(a(e)) /\ Prepared(b(e)) /\ Prepared(c(e)) /\ Prepared(d(e))
    BY <1>2, EdgeOfPrepared
  <2> DEFINE p == a(e)
             q == b(e)
             r == c(e)
             s == d(e)
             pq == Joined(p, q)
             pqr == Joined(pq, r)
             all == Joined(pqr, s)
  <2> HIDE DEF p, q, r, s
  <2>2. Prepared(p) /\ Prepared(q) /\ Prepared(r) /\ Prepared(s)
    BY <2>1 DEF p, q, r, s
  <2>3. /\ Prepared(pq) /\ AllIn(p, pq) /\ AllIn(q, pq)
        /\ \A i \in DOMAIN pq.actions : In(pq, i, p) \/ In(pq, i, q)
    BY <2>2, JoinedPrepared
  <2> HIDE DEF pq
  <2>4. /\ Prepared(pqr) /\ AllIn(pq, pqr) /\ AllIn(r, pqr)
        /\ \A i \in DOMAIN pqr.actions : In(pqr, i, pq) \/ In(pqr, i, r)
    BY <2>2, <2>3, JoinedPrepared
  <2> HIDE DEF pqr
  <2>5. /\ Prepared(all) /\ AllIn(pqr, all) /\ AllIn(s, all)
        /\ \A i \in DOMAIN all.actions : In(all, i, pqr) \/ In(all, i, s)
    BY <2>2, <2>4, JoinedPrepared
  <2> HIDE DEF all
  <2>6. \A x, y, z : AllIn(x, y) /\ AllIn(y, z) => AllIn(x, z)
    BY InTransitive DEF AllIn
  <2>7. AllIn(p, all) /\ AllIn(q, all) /\ AllIn(r, all) /\ AllIn(s, all)
    BY <2>3, <2>4, <2>5, <2>6
  <2>8. \A i \in DOMAIN all.actions : In(all, i, p) \/ In(all, i, q) \/ In(all, i, r) \/ In(all, i, s)
    <3>1. \A i : In(all, i, pqr) => In(all, i, pq) \/ In(all, i, r)
      BY <2>4 DEF In, Same
    <3>2. \A i : In(all, i, pq) => In(all, i, p) \/ In(all, i, q)
      BY <2>3 DEF In, Same
    <3> QED BY <2>5, <3>1, <3>2
  <2> QED BY <2>5, <2>7, <2>8 DEF all, pqr, pq, p, q, r, s
<1>5. \A f \in DOMAIN es : f = <<f[1], f[2]>>
  OBVIOUS
<1> HIDE DEF Sum
<1>6. ASSUME NEW e \in DOMAIN ns, NEW i \in DOMAIN ns[e].actions
      PROVE  \E f \in DOMAIN es : KeptEdge(f, keep, remove) = e /\ In(ns[e], i, es[f])
  <2>1. PICK g \in DOMAIN es : e = KeptEdge(g, keep, remove)
    BY <1>1
  <2>2. e = <<e[1], e[2]>> /\ e[1] # remove /\ e[2] # remove
    BY <2>1 DEF KeptEdge, Kept
  <2>3. \A x : x \in Old(e[1]) \X Old(e[2]) => KeptEdge(x, keep, remove) = e
    BY <2>2 DEF KeptEdge, Kept
  <2>4. e \in Old(e[1]) \X Old(e[2])
    BY <2>2
  <2>5. ns[e] = Sum(e)
    BY <1>1
  <2>6. \A x : In(ns[e], i, Part(e, x)) => x \in DOMAIN es /\ Part(e, x) = es[x]
                                          /\ KeptEdge(x, keep, remove) = e
    <3> HIDE DEF Part, Old
    <3> QED BY <1>3, <2>3 DEF In
  <2>7. In(ns[e], i, a(e)) \/ In(ns[e], i, b(e)) \/ In(ns[e], i, c(e)) \/ In(ns[e], i, d(e))
    <3> HIDE DEF a, b, c, d
    <3> QED BY <1>4, <2>5
  <2>8. a(e) = Part(e, e)
    BY <2>4
  <2> HIDE DEF Part, Old
  <2> QED BY <2>6, <2>7, <2>8
<1>7. ASSUME NEW f \in DOMAIN es PROVE AllIn(es[f], ns[KeptEdge(f, keep, remove)])
  <2> DEFINE e == KeptEdge(f, keep, remove)
  <2>1. ns[e] = Sum(e)
    BY <1>1
  <2>2. /\ e[1] = Kept(f[1], keep, remove) /\ e[2] = Kept(f[2], keep, remove)
        /\ e = <<e[1], e[2]>> /\ f = <<f[1], f[2]>>
    BY <1>5 DEF KeptEdge
  <2> HIDE DEF e
  <2>3. f \in Old(e[1]) \X Old(e[2])
    BY <2>2 DEF Kept
  <2>4. f = e \/ f = <<e[1], remove>> \/ f = <<remove, e[2]>> \/ f = <<remove, remove>>
    BY <2>2 DEF Kept
  <2>5. es[f] = Part(e, f) /\ es[f] = EdgeOf(es, f)
    BY <2>3, EdgeOfPrepared
  <2>6. es[f] = a(e) \/ es[f] = b(e) \/ es[f] = c(e) \/ es[f] = d(e)
    <3> HIDE DEF Part, Old
    <3> QED BY <2>4, <2>5
  <2>7. AllIn(a(e), Sum(e)) /\ AllIn(b(e), Sum(e)) /\ AllIn(c(e), Sum(e)) /\ AllIn(d(e), Sum(e))
    BY <1>4
  <2> HIDE DEF a, b, c, d
  <2> QED BY <2>1, <2>6, <2>7 DEF e
<1>8. PreparedAll(ns)
  <2> HIDE DEF a, b, c, d, Part, Old
  <2>1. \A e \in DOMAIN ns : ns[e] = Sum(e)
    BY <1>1
  <2>2. \A e : Prepared(Sum(e))
    BY <1>4
  <2> QED BY <2>1, <2>2 DEF PreparedAll
<1> QED BY <1>1, <1>6, <1>7, <1>8 DEF RewiredAs

-----------------------------------------------------------------------------
(* _reassign_actions and _drop_actions.                                    *)

\* Where the transitions behind an entry lead once the members are ms, the entries that
\* stay on edge e, and those that other edges had.
Now(ms, slot) == {Ends(ms, t) : t \in Backing(slot[1], slot[2])}
Stays(n, ms, e) == {slot \in EntriesOf(e) : slot \in Matched(n) => e \in Now(ms, slot)}
Comes(n, ms, e) == {slot \in Matched(n) : e # slot[1] /\ e \in Now(ms, slot)}

LEMMA EntriesAre ==
  ASSUME PreparedAll(edges), DOMAIN edges \subseteq Ids \X Ids, MaxNode \in Nat
  PROVE  /\ \A e, slot : slot \in EntriesOf(e) =>
              /\ slot = <<e, slot[2]>> /\ slot[1] = e /\ e \in DOMAIN edges
              /\ slot[2] \in DOMAIN edges[e].actions /\ slot \in Slots
         /\ \A e : IsFiniteSet(EntriesOf(e)) /\ EntriesFrom(EntriesOf(e), edges)
         /\ \A n : EntriesFrom(Matched(n), edges)
         /\ \A e \in DOMAIN edges : \A i \in DOMAIN edges[e].actions : <<e, i>> \in EntriesOf(e)
<1>1. \A e : /\ Whole(EdgeOf(edges, e)) /\ (e \in DOMAIN edges => EdgeOf(edges, e) = edges[e])
             /\ DOMAIN EdgeOf(edges, e).actions # {} => e \in DOMAIN edges
  BY EdgeOfPrepared DEF Prepared
<1>2. \A e : /\ DOMAIN EdgeOf(edges, e).actions = 1..Len(EdgeOf(edges, e).actions)
             /\ Len(EdgeOf(edges, e).actions) \in Nat
  BY <1>1, WholeParts
<1>3. \A e, slot : slot \in EntriesOf(e) =>
              /\ slot = <<e, slot[2]>> /\ slot[1] = e /\ e \in DOMAIN edges
              /\ slot[2] \in DOMAIN edges[e].actions /\ slot[2] \in Int
  BY <1>1, <1>2 DEF EntriesOf
<1>4. \A e \in DOMAIN edges : e \in Int \X Int
  BY DEF Ids
<1>5. \A e, slot : slot \in EntriesOf(e) => slot \in Slots
  <2> TAKE e, slot
  <2> HAVE slot \in EntriesOf(e)
  <2>1. slot = <<e, slot[2]>> /\ e \in Int \X Int /\ slot[2] \in Int
    BY <1>3, <1>4
  <2> QED BY <2>1 DEF Slots
<1>6. \A e : IsFiniteSet(EntriesOf(e))
  <2> TAKE e
  <2>0. IsFiniteSet({e})
    BY FS_Singleton
  <2>1. IsFiniteSet(DOMAIN EdgeOf(edges, e).actions)
    <3> DEFINE l == Len(EdgeOf(edges, e).actions)
    <3>1. l \in Int /\ 1 \in Int /\ DOMAIN EdgeOf(edges, e).actions = 1..l
      BY <1>2
    <3> HIDE DEF l
    <3> QED BY <3>1, FS_Interval
  <2> QED BY <2>0, <2>1, FS_Product DEF EntriesOf
<1>7. \A e : EntriesFrom(EntriesOf(e), edges)
  BY <1>3, <1>5, <1>6 DEF EntriesFrom
<1>8. \A n : EntriesFrom(Matched(n), edges)
  <2> TAKE n
  <2> DEFINE E == {x \in DOMAIN edges : n \in {x[1], x[2]}}
             U == UNION {EntriesOf(e) : e \in E}
  <2>0. IsFiniteSet(Ids)
    <3>1. 0 \in Int /\ MaxNode \in Int
      OBVIOUS
    <3> QED BY <3>1, FS_Interval DEF Ids
  <2>1. IsFiniteSet(Ids \X Ids)
    BY <2>0, FS_Product
  <2>2. IsFiniteSet(E)
    <3>1. E \subseteq Ids \X Ids
      OBVIOUS
    <3> QED BY <2>1, <3>1, FS_Subset
  <2> HIDE DEF E
  <2>3. IsFiniteSet({EntriesOf(e) : e \in E})
    <3> DEFINE f == [e \in E |-> EntriesOf(e)]
               R == {EntriesOf(e) : e \in E}
    <3>1. f \in Surjection(E, R)
      BY DEF Surjection
    <3> HIDE DEF f, R
    <3>2. IsFiniteSet(R)
      BY <2>2, <3>1, FS_Surjection
    <3> QED BY <3>2 DEF R
  <2>4. IsFiniteSet(U)
    BY <1>6, <2>3, FS_UNION
  <2>5. Matched(n) \subseteq U
    BY DEF Matched, E
  <2>6. IsFiniteSet(Matched(n))
    BY <2>4, <2>5, FS_Subset
  <2>7. \A slot \in Matched(n) : \E e : slot \in EntriesOf(e)
    BY <2>5
  <2> QED BY <1>3, <1>5, <2>6, <2>7 DEF EntriesFrom
<1>9. \A e \in DOMAIN edges : \A i \in DOMAIN edges[e].actions : <<e, i>> \in EntriesOf(e)
  BY <1>1 DEF EntriesOf
<1> QED BY <1>3, <1>5, <1>6, <1>7, <1>8, <1>9

LEMMA ReassignedParts ==
  ASSUME PreparedAll(edges), DOMAIN edges \subseteq Ids \X Ids, MaxNode \in Nat,
         NEW n, NEW ms, NEW ns, ns = Reassigned(n, ms)
  PROVE  /\ ns = [e \in DOMAIN ns |-> ns[e]]
         /\ \A e : e \in DOMAIN ns <=> Stays(n, ms, e) \cup Comes(n, ms, e) # {}
         /\ PreparedAll(ns)
         /\ \A e \in DOMAIN ns :
              /\ ns[e].actions # <<>>
              /\ \A i \in DOMAIN ns[e].actions :
                   \E slot \in Stays(n, ms, e) \cup Comes(n, ms, e) :
                     Same(ns[e], i, edges[slot[1]], slot[2])
              /\ \A slot \in Stays(n, ms, e) \cup Comes(n, ms, e) :
                   \E i \in DOMAIN ns[e].actions : Same(ns[e], i, edges[slot[1]], slot[2])
         /\ \A e : \A slot \in Stays(n, ms, e) \cup Comes(n, ms, e) :
              slot[1] \in DOMAIN edges /\ slot[2] \in DOMAIN edges[slot[1]].actions
<1> DEFINE S(e) == Stays(n, ms, e)
           C(e) == Comes(n, ms, e)
           touched == DOMAIN edges \cup UNION {Now(ms, slot) : slot \in Matched(n)}
           J(e) == Joined(Entries(edges, S(e)), Entries(edges, C(e)))
<1>1. ns = [e \in {x \in touched : S(x) \cup C(x) # {}} |-> J(e)]
  BY DEF Reassigned, Stays, Comes, Now
<1>2. \A e : EntriesFrom(S(e), edges) /\ EntriesFrom(C(e), edges)
  <2> TAKE e
  <2>1. \A T, R : T \subseteq R /\ EntriesFrom(R, edges) => EntriesFrom(T, edges)
    BY FS_Subset DEF EntriesFrom
  <2>2. S(e) \subseteq EntriesOf(e) /\ C(e) \subseteq Matched(n)
    BY DEF Stays, Comes
  <2>3. EntriesFrom(EntriesOf(e), edges) /\ EntriesFrom(Matched(n), edges)
    BY EntriesAre
  <2> HIDE DEF S, C
  <2> QED BY <2>1, <2>2, <2>3
<1>3. \A e : S(e) \cup C(e) # {} => e \in touched
  <2> TAKE e
  <2>1. ASSUME NEW slot \in S(e) PROVE e \in touched
    BY <2>1, EntriesAre DEF Stays
  <2>2. ASSUME NEW slot \in C(e) PROVE e \in touched
    BY <2>2 DEF Comes
  <2> HIDE DEF S, C, touched
  <2> QED BY <2>1, <2>2
<1>4. ASSUME NEW e
      PROVE  /\ Whole(J(e))
             /\ \A i \in DOMAIN J(e).actions : \E slot \in S(e) \cup C(e) :
                  Same(J(e), i, edges[slot[1]], slot[2])
             /\ \A slot \in S(e) \cup C(e) : \E i \in DOMAIN J(e).actions :
                  Same(J(e), i, edges[slot[1]], slot[2])
  <2> DEFINE x == Entries(edges, S(e))
             y == Entries(edges, C(e))
  <2>0. EntriesFrom(S(e), edges) /\ EntriesFrom(C(e), edges)
    BY <1>2
  <2> HIDE DEF S, C
  <2>1. /\ Whole(x)
        /\ \A k \in DOMAIN x.actions : \E slot \in S(e) : Same(x, k, edges[slot[1]], slot[2])
        /\ \A slot \in S(e) : \E k \in DOMAIN x.actions : Same(x, k, edges[slot[1]], slot[2])
    BY <2>0, EntriesParts
  <2>2. /\ Whole(y)
        /\ \A k \in DOMAIN y.actions : \E slot \in C(e) : Same(y, k, edges[slot[1]], slot[2])
        /\ \A slot \in C(e) : \E k \in DOMAIN y.actions : Same(y, k, edges[slot[1]], slot[2])
    BY <2>0, EntriesParts
  <2> HIDE DEF x, y
  <2> DEFINE z == Joined(x, y)
  <2>3. /\ Whole(z) /\ AllIn(x, z) /\ AllIn(y, z)
        /\ \A i \in DOMAIN z.actions : In(z, i, x) \/ In(z, i, y)
    BY <2>1, <2>2, JoinedParts, JoinedAll
  <2> HIDE DEF z
  <2>4. \A i \in DOMAIN z.actions : \E slot \in S(e) \cup C(e) :
          Same(z, i, edges[slot[1]], slot[2])
    <3>1. ASSUME NEW i, In(z, i, x)
          PROVE  \E slot \in S(e) \cup C(e) : Same(z, i, edges[slot[1]], slot[2])
      BY <2>1, <3>1 DEF In, Same
    <3>2. ASSUME NEW i, In(z, i, y)
          PROVE  \E slot \in S(e) \cup C(e) : Same(z, i, edges[slot[1]], slot[2])
      BY <2>2, <3>2 DEF In, Same
    <3> QED BY <2>3, <3>1, <3>2
  <2>5. \A slot \in S(e) \cup C(e) : \E i \in DOMAIN z.actions :
          Same(z, i, edges[slot[1]], slot[2])
    <3>1. ASSUME NEW slot \in S(e)
          PROVE  \E i \in DOMAIN z.actions : Same(z, i, edges[slot[1]], slot[2])
      BY <2>1, <2>3, <3>1 DEF In, AllIn, Same
    <3>2. ASSUME NEW slot \in C(e)
          PROVE  \E i \in DOMAIN z.actions : Same(z, i, edges[slot[1]], slot[2])
      BY <2>2, <2>3, <3>2 DEF In, AllIn, Same
    <3> QED BY <3>1, <3>2
  <2> QED BY <2>3, <2>4, <2>5 DEF z, x, y
<1>5. \A e : e \in DOMAIN ns <=> S(e) \cup C(e) # {}
  <2> HIDE DEF S, C, touched, J
  <2> QED BY <1>1, <1>3
<1>6. \A e \in DOMAIN ns : ns[e] = J(e)
  BY <1>1
<1>7. ns = [e \in DOMAIN ns |-> ns[e]]
  BY <1>1
<1>8. \A e : \A slot \in S(e) \cup C(e) :
        slot[1] \in DOMAIN edges /\ slot[2] \in DOMAIN edges[slot[1]].actions
  BY <1>2 DEF EntriesFrom
<1> HIDE DEF S, C, touched, J
<1>9. ASSUME NEW e \in DOMAIN ns PROVE ns[e].actions # <<>> /\ Prepared(ns[e])
  <2> DEFINE z == ns[e]
  <2>1. /\ Whole(z)
        /\ \A i \in DOMAIN z.actions : \E slot \in S(e) \cup C(e) :
             Same(z, i, edges[slot[1]], slot[2])
        /\ \A slot \in S(e) \cup C(e) : \E i \in DOMAIN z.actions :
             Same(z, i, edges[slot[1]], slot[2])
    BY <1>4, <1>6
  <2>2. S(e) \cup C(e) # {}
    BY <1>5
  <2> HIDE DEF z
  <2>3. z.actions # <<>>
    BY <2>1, <2>2, WholeParts
  <2>4. ASSUME NEW i \in DOMAIN z.actions PROVE Alternatives(z, i)
    <3>1. PICK slot \in S(e) \cup C(e) : Same(z, i, edges[slot[1]], slot[2])
      BY <2>1
    <3>2. Alternatives(edges[slot[1]], slot[2])
      BY <1>8, <3>1 DEF PreparedAll, Prepared
    <3> QED BY <3>1, <3>2 DEF Alternatives, Same
  <2> QED BY <2>1, <2>3, <2>4 DEF Prepared, z
<1> QED BY <1>4, <1>5, <1>6, <1>7, <1>8, <1>9 DEF S, C, PreparedAll

-----------------------------------------------------------------------------
(* What is saved loads again: the inductive invariant.                     *)

\* The observations some node lists.
Listed(ms) == UNION {ms[n] : n \in Ids}

\* Nodes are numbered below next, and a merged node's name leads to one that is there.
NodesHold ==
  /\ phase \in {"explore", "build", "split", "move", "done"}
  /\ ASeq(screens) /\ Seen >= 1
  /\ members \in [Ids -> SUBSET (1..Seen)] /\ alias \in [Ids -> Ids] /\ next \in 1..(MaxNode + 1)
  /\ alias[Outside] = Outside /\ \A n \in Ids : alias[alias[n]] = alias[n]
  /\ \A n \in Ids : n >= next => members[n] = {} /\ alias[n] = n

\* The position is on the node that lists the latest observation, if one does.
PositionHolds ==
  Growing =>
    /\ at = [node |-> at.node, observation |-> at.observation]
    /\ at.node \in Ids /\ members[at.node] # {}
    /\ at.observation \in 1..Seen
    /\ \A n \in Ids : at.observation \in members[n] => n = at.node

\* A member apart from its node's home has a home to leave.
HomesHold ==
  /\ apart \in [Ids -> SUBSET (1..Seen)]
  /\ \A n \in Ids : apart[n] \subseteq members[n]
  /\ \A n \in Ids : members[n] # {} => members[n] \ apart[n] # {}
  /\ Growing => \A n \in Ids : apart[n] = {}

\* A transition was taken between nodes that are still there.  The screen it was taken on stays
\* inside the app, or outside.
LogHolds ==
  /\ ASeq(log)
  /\ \A t \in DOMAIN log :
       /\ log[t].from \in Ids /\ log[t].to \in Ids
       /\ members[alias[log[t].from]] # {} /\ members[alias[log[t].to]] # {}
       /\ log[t].before \in 1..Seen /\ log[t].after \in 1..Seen
       /\ alias[log[t].from] # Outside => log[t].before \notin members[Outside]
       /\ alias[log[t].from] = Outside =>
            \A n \in Ids : log[t].before \in members[n] => n = Outside

\* The edges are whole, and between nodes with members.
EdgesHold(es, ms) ==
  /\ es = [e \in DOMAIN es |-> es[e]]
  /\ DOMAIN es \subseteq Ids \X Ids /\ PreparedAll(es)
  /\ \A e \in DOMAIN es :
       es[e].actions # <<>> /\ ms[e[1]] # {} /\ ms[e[2]] # {} /\ e[1] # Outside

\* A preparation starts from a listed observation.
Anchored(x, i, L) ==
  /\ x.anchors[i] # NoObservation => Known(x.setups[i]) /\ x.anchors[i] \in L
  /\ \A j \in DOMAIN x.alternatives[i] : x.alternatives[i][j].observation \in L
AnchorsHold(es, L) ==
  \A e \in DOMAIN es : \A i \in DOMAIN es[e].actions : Anchored(es[e], i, L)

\* The trail enters nodes with listed observations.
TrailHolds(tr, L) ==
  /\ ASeq(tr.arrivals)
  /\ \A k \in DOMAIN tr.arrivals :
       /\ tr.arrivals[k] = [node |-> tr.arrivals[k].node, states |-> tr.arrivals[k].states,
                            observation |-> tr.arrivals[k].observation]
       /\ tr.arrivals[k].observation \in L \cup {NoObservation}

LoadsInv ==
  /\ NodesHold /\ NodesHaveMembers /\ PositionHolds /\ HomesHold /\ LogHolds
  /\ EdgesHold(edges, members) /\ AnchorsHold(edges, Listed(members))
  /\ TrailHolds(trail, Listed(members))

-----------------------------------------------------------------------------
(* The setup trail.                                                        *)

LEMMA PositionIs ==
  ASSUME NEW tr, ASeq(tr.arrivals), NEW names, NEW node, NEW p, p = Position(tr, names, node)
  PROVE  /\ \/ p = 0 /\ \A k \in DOMAIN tr.arrivals : names[tr.arrivals[k].node] # names[node]
            \/ /\ p \in DOMAIN tr.arrivals /\ names[tr.arrivals[p].node] = names[node]
               /\ \A k \in DOMAIN tr.arrivals : names[tr.arrivals[k].node] = names[node] => k <= p
         /\ p \in 0..Len(tr.arrivals) /\ 0 \notin DOMAIN tr.arrivals
         /\ DOMAIN tr.arrivals = 1..Len(tr.arrivals) /\ Len(tr.arrivals) \in Nat
<1> DEFINE n == Len(tr.arrivals)
           I == {k \in 1..n : names[tr.arrivals[k].node] = names[node]}
<1>1. n \in Nat /\ DOMAIN tr.arrivals = 1..n
  BY SeqParts
<1>2. p = IF I # {} THEN Max(I) ELSE 0
  BY DEF Position, SelectLastInSeq
<1>3. CASE I = {}
  BY <1>1, <1>2, <1>3
<1>4. CASE I # {}
  <2>1. I \in SUBSET (1..n)
    OBVIOUS
  <2> HIDE DEF I, n
  <2>2. p \in I /\ \A k \in I : p >= k
    BY <1>1, <1>2, <1>4, <2>1, MaxIs
  <2>3. p \in 1..n
    BY <2>1, <2>2
  <2>4. \A k \in 1..n : k \in I => k <= p
    BY <1>1, <2>2, <2>3
  <2> QED BY <1>1, <2>2, <2>3, <2>4 DEF I, n
<1> QED BY <1>3, <1>4

LEMMA BegunHolds ==
  ASSUME NEW node, NEW state, NEW known, NEW observation, NEW L, NEW tr,
         tr = Begun(node, state, known, observation), known => observation \in L \cup {NoObservation}
  PROVE  TrailHolds(tr, L)
<1> DEFINE a == [node |-> node,
                 states |-> IF known THEN << [start |-> 0, state |-> state] >> ELSE <<>>,
                 observation |-> IF known THEN observation ELSE NoObservation]
<1>1. a = [node |-> a.node, states |-> a.states, observation |-> a.observation]
      /\ a.observation \in L \cup {NoObservation}
  OBVIOUS
<1>2. tr.arrivals = <<a>>
  BY DEF Begun
<1> HIDE DEF a
<1>3. tr.arrivals \in Seq({a}) /\ DOMAIN tr.arrivals = {1} /\ tr.arrivals[1] = a
  BY <1>2
<1> QED BY <1>1, <1>3 DEF TrailHolds, ASeq

LEMMA SteppedHolds ==
  ASSUME NEW tr, NEW L, TrailHolds(tr, L), NEW names, NEW step, NEW reached, NEW state,
         NEW observation, NEW M, L \subseteq M, observation \in M \cup {NoObservation},
         NEW ns, ns = Stepped(tr, names, step, reached, state, observation)
  PROVE  TrailHolds(ns, M)
<1> DEFINE sent == Append(tr.sent, step)
           found == [start |-> Len(sent), state |-> state]
           p == Position(tr, names, reached)
           kept == SubSeq(tr.arrivals, 1, p)
           new == [node |-> reached, states |-> <<found>>, observation |-> observation]
           n == Len(tr.arrivals)
<1>1. /\ ASeq(tr.arrivals)
      /\ \A k \in DOMAIN tr.arrivals :
       /\ tr.arrivals[k] = [node |-> tr.arrivals[k].node, states |-> tr.arrivals[k].states,
                            observation |-> tr.arrivals[k].observation]
       /\ tr.arrivals[k].observation \in L \cup {NoObservation}
  BY DEF TrailHolds
<1>2. p \in 0..n /\ n \in Nat /\ DOMAIN tr.arrivals = 1..n
  BY <1>1, PositionIs
<1>3. ns.arrivals = IF p = 0 THEN Append(tr.arrivals, new)
                    ELSE IF kept[p].states = <<>> THEN kept
                    ELSE [kept EXCEPT ![p].states = Append(@, found)]
  BY DEF Stepped
<1>4. new = [node |-> new.node, states |-> new.states, observation |-> new.observation]
      /\ new.observation \in M \cup {NoObservation}
  OBVIOUS
<1> HIDE DEF p, new
<1>5. CASE p = 0
  <2> DEFINE t == ns.arrivals
  <2>1. t = Append(tr.arrivals, new)
    BY <1>3, <1>5
  <2> HIDE DEF t
  <2>2. /\ ASeq(t) /\ Len(t) = n + 1 /\ t[n + 1] = new /\ \A i \in 1..n : t[i] = tr.arrivals[i]
    BY <1>1, <2>1, AppendParts
  <2>3. DOMAIN t = 1..(n + 1)
    BY <2>2, SeqParts
  <2>4. \A k \in 1..(n + 1) : k \in 1..n \/ k = n + 1
    BY <1>2
  <2> QED BY <1>1, <1>2, <1>4, <2>2, <2>3, <2>4 DEF TrailHolds, t
<1>6. CASE p # 0
  <2>1. /\ ASeq(kept) /\ Len(kept) = p /\ \A i \in 1..p : kept[i] = tr.arrivals[i]
        /\ p \in 1..n
    <3>1. 1 \in 1..(n + 1) /\ p \in 0..n /\ p \in 1..n
      BY <1>2, <1>6
    <3>2. /\ ASeq(kept) /\ Len(kept) = IF 1 <= p THEN p - 1 + 1 ELSE 0
          /\ \A i \in 1..(p - 1 + 1) : kept[i] = tr.arrivals[1 + i - 1]
      BY <1>1, <3>1, SubSeqParts
    <3>3. p - 1 + 1 = p /\ \A i \in 1..p : 1 + i - 1 = i
      BY <3>1
    <3> HIDE DEF kept
    <3> QED BY <3>1, <3>2, <3>3
  <2> HIDE DEF kept
  <2>2. DOMAIN kept = 1..p /\ p \in Nat
    BY <1>2, <2>1, SeqParts
  <2>3. \A k \in 1..p :
       /\ kept[k] = [node |-> kept[k].node, states |-> kept[k].states,
                     observation |-> kept[k].observation]
       /\ kept[k].observation \in M \cup {NoObservation}
    <3>1. \A k \in 1..p : k \in 1..n
      BY <2>1
    <3> QED BY <1>1, <1>2, <2>1, <3>1
  <2>4. CASE ns.arrivals = kept
    BY <2>1, <2>2, <2>3, <2>4 DEF TrailHolds
  <2>5. CASE ns.arrivals = [kept EXCEPT ![p].states = Append(@, found)]
    <3> DEFINE t == ns.arrivals
               last == [node |-> kept[p].node, states |-> Append(kept[p].states, found),
                        observation |-> kept[p].observation]
    <3>0. p \in 1..p
      BY <2>1
    <3>1. t = [kept EXCEPT ![p] = last]
      BY <2>3, <2>5, <3>0
    <3>2. last = [node |-> last.node, states |-> last.states, observation |-> last.observation]
          /\ last.observation \in M \cup {NoObservation}
      BY <2>3, <3>0
    <3> HIDE DEF t, last
    <3>3. t = [k \in 1..p |-> t[k]] /\ \A k \in 1..p : t[k] = IF k = p THEN last ELSE kept[k]
      BY <2>2, <3>1
    <3>4. ASeq(t) /\ DOMAIN t = 1..p
      BY <2>1, <2>2, <3>3, ChangedParts
    <3> QED BY <2>3, <3>2, <3>3, <3>4 DEF TrailHolds, t
  <2> QED BY <1>3, <1>6, <2>4, <2>5
<1> QED BY <1>5, <1>6

LEMMA SetupObservationIn ==
  ASSUME NEW tr, NEW L, TrailHolds(tr, L), NEW names, NEW node
  PROVE  SetupObservation(tr, names, node) \in L \cup {NoObservation}
<1> DEFINE p == Position(tr, names, node)
<1>1. p = 0 \/ p \in DOMAIN tr.arrivals
  BY PositionIs DEF TrailHolds
<1> HIDE DEF p
<1> QED BY <1>1 DEF SetupObservation, TrailHolds, p

-----------------------------------------------------------------------------
(* Entries that are carried over stay anchored.                            *)

LEMMA SameAnchored ==
  ASSUME NEW x, NEW i, NEW y, NEW j, Same(x, i, y, j), NEW L, Anchored(y, j, L)
  PROVE  Anchored(x, i, L)
BY DEF Same, Anchored

LEMMA MoreAnchored ==
  ASSUME NEW x, NEW i, NEW L, Anchored(x, i, L), NEW M, L \subseteq M
  PROVE  Anchored(x, i, M)
BY DEF Anchored

\* add_edge adds an anchored entry, or a preparation from an observation that is listed.
LEMMA AddedHolds ==
  ASSUME NEW es, NEW ms, EdgesHold(es, ms), NEW L, AnchorsHold(es, L),
         NEW e \in Ids \X Ids, NEW ps, \A n \in Ids : ms[n] # {} => ps[n] # {},
         ps[e[1]] # {}, ps[e[2]] # {}, e[1] # Outside, NEW M, L \subseteq M,
         NEW action, NEW setup, NEW anchor, NEW source,
         anchor # NoObservation => Known(setup) /\ anchor \in M,
         NEW ns, ns = AddEdge(es, e, action, setup, anchor, source)
  PROVE  EdgesHold(ns, ps) /\ AnchorsHold(ns, M)
<1> DEFINE x == EdgeOf(es, e)
<1>0. PreparedAll(es) /\ x = EdgeOf(es, e)
  BY DEF EdgesHold
<1>2. /\ e \in DOMAIN es => x = es[e]
      /\ DOMAIN x.actions # {} => e \in DOMAIN es
  BY <1>0, EdgeOfPrepared
<1> HIDE DEF x
<1>1. /\ DOMAIN ns = DOMAIN es \cup {e} /\ PreparedAll(ns) /\ ns = [f \in DOMAIN ns |-> ns[f]]
      /\ \A f \in DOMAIN es : f # e => ns[f] = es[f]
      /\ \A i \in DOMAIN ns[e].actions :
              \/ In(ns[e], i, x)
              \/ Fresh(ns[e], i, action, setup, anchor)
              \/ Repeated(ns[e], x, i, action, setup, anchor)
      /\ \E i \in DOMAIN ns[e].actions : ns[e].actions[i] = action
  <2>1. Added(ns, es, e, x, action, setup, anchor)
    BY <1>0, AddEdgeParts
  <2> QED BY <2>1 DEF Added
<1>3. \A k \in DOMAIN x.actions : Anchored(x, k, L)
  BY <1>2 DEF AnchorsHold
<1>4. ns[e].actions # <<>>
  BY <1>1, WholeParts DEF PreparedAll, Prepared
<1>5. EdgesHold(ns, ps)
  <2> SUFFICES ASSUME NEW f \in DOMAIN ns
               PROVE  ns[f].actions # <<>> /\ ps[f[1]] # {} /\ ps[f[2]] # {} /\ f[1] # Outside
    BY <1>1 DEF EdgesHold
  <2>1. CASE f = e
    BY <1>4, <2>1
  <2>2. CASE f # e
    BY <1>1, <2>2 DEF EdgesHold
  <2> QED BY <2>1, <2>2
<1>6. ASSUME NEW i \in DOMAIN ns[e].actions PROVE Anchored(ns[e], i, M)
  <2> DEFINE z == ns[e]
  <2> HIDE DEF z
  <2>1. CASE In(z, i, x)
    <3>1. PICK k \in DOMAIN x.actions : Same(z, i, x, k)
      BY <2>1 DEF In
    <3> QED BY <1>3, <3>1, SameAnchored, MoreAnchored DEF z
  <2>2. CASE Fresh(z, i, action, setup, anchor)
    <3>1. DOMAIN z.alternatives[i] = {}
      BY <2>2 DEF Fresh
    <3> QED BY <2>2, <3>1 DEF Fresh, Anchored, z
  <2>3. CASE Repeated(z, x, i, action, setup, anchor)
    <3>1. i \in DOMAIN x.actions /\ Known(setup) /\ Offered(z, x, i, setup, anchor)
      BY <2>3 DEF Repeated
    <3>2. Anchored(x, i, M)
      BY <1>3, <3>1, MoreAnchored
    <3>3. z.anchors[i] # NoObservation => Known(z.setups[i]) /\ z.anchors[i] \in M
      BY <3>1, <3>2 DEF Offered, Anchored
    <3>4. \A j \in DOMAIN z.alternatives[i] : z.alternatives[i][j].observation \in M
      <4> TAKE j \in DOMAIN z.alternatives[i]
      <4>1. CASE \E k \in DOMAIN x.alternatives[i] : z.alternatives[i][j] = x.alternatives[i][k]
        BY <3>2, <4>1 DEF Anchored
      <4>2. CASE /\ z.alternatives[i][j] = [setup |-> setup, observation |-> anchor]
                 /\ anchor # NoObservation
                    \/ \E k \in DOMAIN x.alternatives[i] : x.alternatives[i][k].observation = anchor
        BY <3>2, <4>2 DEF Anchored
      <4> QED BY <3>1, <4>1, <4>2 DEF Offered
    <3> QED BY <3>3, <3>4 DEF Anchored, z
  <2> QED BY <1>1, <2>1, <2>2, <2>3 DEF z
<1>7. AnchorsHold(ns, M)
  <2> SUFFICES ASSUME NEW f \in DOMAIN ns, NEW i \in DOMAIN ns[f].actions
               PROVE  Anchored(ns[f], i, M)
    BY DEF AnchorsHold
  <2>1. CASE f = e
    BY <1>6, <2>1
  <2>2. CASE f # e
    BY <1>1, <2>2, MoreAnchored DEF AnchorsHold
  <2> QED BY <2>1, <2>2
<1> QED BY <1>5, <1>7

-----------------------------------------------------------------------------
(* A screen is identified, and a step is recorded.                         *)

\* A screen that was just identified as node n lists observation o there; the screen the run
\* came back from, if any, is listed outside.
Identified(n, o, out) ==
  /\ Growing /\ phase' = phase /\ alias' = alias /\ apart' = apart
  /\ n \in Screens \cup {Outside} /\ Numbered(n)
  /\ members' = [k \in Ids |-> (members[k] \cup (IF k = n THEN {o} ELSE {}))
                               \cup (IF k = Outside THEN out ELSE {})]
  /\ at' = [node |-> n, observation |-> o]
  /\ ASeq(screens') /\ Seen' >= Seen /\ Seen' \in Nat
  /\ o \in (Seen + 1)..Seen' /\ out \subseteq (Seen + 1)..Seen' /\ o \notin out

LEMMA ScreensAre ==
  ASSUME LoadsInv, NEW n \in Screens
  PROVE  /\ n \in Ids /\ n # Outside /\ alias[n] = n /\ (members[n] # {} \/ n = next)
         /\ (n # next => n < next)
<1>1. next \in 1..(MaxNode + 1) /\ MaxNode \in Nat
  BY EdgesAssumption DEF LoadsInv, NodesHold
<1>2. CASE n \in InApp
  BY <1>1, <1>2 DEF LoadsInv, NodesHold, NodesHaveMembers, InApp, Ids
<1>3. CASE n = next /\ next <= MaxNode
  BY <1>1, <1>3 DEF LoadsInv, NodesHold, Ids, Outside
<1> QED BY <1>2, <1>3 DEF Screens

LEMMA PlacesAre ==
  ASSUME LoadsInv, NEW n \in Screens \cup {Outside}
  PROVE  /\ n \in Ids /\ alias[n] = n /\ (members[n] # {} \/ n = next \/ n = Outside)
         /\ n # next => n < next
<1>1. next \in 1..(MaxNode + 1) /\ MaxNode \in Nat /\ alias[Outside] = Outside
  BY EdgesAssumption DEF LoadsInv, NodesHold
<1>2. Outside \in Ids /\ Outside < next
  BY <1>1 DEF Ids, Outside
<1> QED BY <1>1, <1>2, ScreensAre

LEMMA IdentifiedHolds ==
  ASSUME LoadsInv, NEW n, NEW o, NEW out, Identified(n, o, out)
  PROVE  /\ NodesHold' /\ NodesHaveMembers' /\ PositionHolds' /\ HomesHold'
         /\ \A k \in Ids : members[k] \subseteq members'[k]
         /\ \A k \in Ids : members[k] # {} => members'[k] # {}
         /\ o \in members'[n] /\ n \in Ids /\ alias[n] = n
         /\ Listed(members) \subseteq Listed(members') /\ o \in Listed(members')
<1>1. /\ n \in Ids /\ alias[n] = n /\ (members[n] # {} \/ n = next \/ n = Outside)
      /\ n # next => n < next
  <2>1. n \in Screens \cup {Outside}
    BY DEF Identified
  <2> QED BY <2>1, PlacesAre
<1>2. /\ next \in 1..(MaxNode + 1) /\ MaxNode \in Nat /\ Seen \in Nat /\ Seen >= 1
      /\ members \in [Ids -> SUBSET (1..Seen)] /\ Seen' \in Nat /\ Seen' >= Seen
      /\ \A k \in Ids : k \in Int
  <2>1. NodesHold
    BY DEF LoadsInv
  <2>2. Seen \in Nat
    BY <2>1, SeqParts DEF NodesHold, Seen
  <2>3. MaxNode \in Nat
    BY EdgesAssumption
  <2>4. \A k \in Ids : k \in Int
    BY DEF Ids
  <2>5. Seen' \in Nat /\ Seen' >= Seen
    BY DEF Identified
  <2> QED BY <2>1, <2>2, <2>3, <2>4, <2>5 DEF NodesHold
<1>3. \A k \in Ids : members'[k] = (members[k] \cup (IF k = n THEN {o} ELSE {}))
                               \cup (IF k = Outside THEN out ELSE {})
  BY DEF Identified
<1>4. /\ o \in (Seen + 1)..Seen' /\ out \subseteq (Seen + 1)..Seen' /\ o \notin out
      /\ next' = IF n = next THEN next + 1 ELSE next
  BY DEF Identified, Numbered
<1>5. \A k \in Ids : /\ members[k] \subseteq members'[k]
                     /\ \A p \in members'[k] : p \in members[k] \/ (p = o /\ k = n)
                                               \/ (p \in out /\ k = Outside)
  BY <1>3
<1>6. \A k \in Ids : o \notin members[k] /\ members[k] \cap out = {}
  <2> SUFFICES ASSUME NEW k \in Ids, NEW p \in members[k] PROVE p # o /\ p \notin out
    OBVIOUS
  <2>1. p \in 1..Seen
    BY <1>2
  <2>2. \A q \in (Seen + 1)..Seen' : q # p
    BY <1>2, <2>1
  <2> QED BY <1>4, <2>2
<1>7. o \in 1..Seen' /\ out \subseteq 1..Seen' /\ \A p \in 1..Seen : p \in 1..Seen'
  BY <1>2, <1>4
<1>8. members' \in [Ids -> SUBSET (1..Seen')]
  <2>1. \A k \in Ids : members'[k] \in SUBSET (1..Seen')
    BY <1>2, <1>5, <1>7
  <2>2. members' = [k \in Ids |-> members'[k]]
    BY DEF Identified
  <2> QED BY <2>1, <2>2
<1>9. /\ next' \in 1..(MaxNode + 1) /\ next' >= next
      /\ \A k \in Ids : k >= next' => k >= next /\ k # n
  BY <1>1, <1>2, <1>4 DEF Ids
<1>10. NodesHold'
  <2>1. \A k \in Ids : k >= next' => members'[k] = {} /\ alias'[k] = k
    <3> SUFFICES ASSUME NEW k \in Ids, k >= next' PROVE members'[k] = {} /\ alias'[k] = k
      OBVIOUS
    <3>1. members[k] = {} /\ alias[k] = k /\ k # n
      BY <1>9 DEF LoadsInv, NodesHold
    <3>2. k # Outside
      BY <1>2, <1>9 DEF Outside
    <3> QED BY <1>3, <3>1, <3>2 DEF Identified
  <2>2. Seen' >= 1 /\ ASeq(screens')
    BY <1>2 DEF Identified
  <2> QED BY <1>8, <1>9, <2>1, <2>2 DEF NodesHold, LoadsInv, Identified
<1>11. NodesHaveMembers'
  <2>1. \A k \in Ids : members'[k] # {} => alias'[k] = k
    <3> SUFFICES ASSUME NEW k \in Ids, NEW p \in members'[k] PROVE alias[k] = k
      BY DEF Identified
    <3>1. p \in members[k] \/ k = n \/ k = Outside
      BY <1>5
    <3> QED BY <1>1, <3>1 DEF LoadsInv, NodesHaveMembers, NodesHold
  <2>2. \A k \in Ids : alias'[k] < next' => members'[alias'[k]] # {} \/ alias'[k] = Outside
    <3> SUFFICES ASSUME NEW k \in Ids, alias[k] < next'
                 PROVE  members'[alias[k]] # {} \/ alias[k] = Outside
      BY DEF Identified
    <3>1. alias[k] \in Ids
      BY DEF LoadsInv, NodesHold
    <3>2. CASE alias[k] = n
      BY <1>1, <1>3, <3>2
    <3>3. CASE alias[k] # n
      <4>1. alias[k] < next
        BY <1>2, <1>4, <3>1, <3>3
      <4> QED BY <1>5, <3>1, <4>1 DEF LoadsInv, NodesHaveMembers
    <3> QED BY <3>2, <3>3
  <2>3. \A k, m \in Ids : k # m => members'[k] \cap members'[m] = {}
    <3> SUFFICES ASSUME NEW k \in Ids, NEW m \in Ids, k # m, NEW p \in members'[k], p \in members'[m]
                 PROVE  FALSE
      OBVIOUS
    <3>1. members[k] \cap members[m] = {}
      BY DEF LoadsInv, NodesHaveMembers
    <3> QED BY <1>1, <1>4, <1>5, <1>6, <3>1
  <2> QED BY <2>1, <2>2, <2>3 DEF NodesHaveMembers
<1>12. PositionHolds'
  <2>1. at'.node = n /\ at'.observation = o /\ at' = [node |-> at'.node, observation |-> at'.observation]
    BY DEF Identified
  <2>2. \A k \in Ids : o \in members'[k] => k = n
    BY <1>4, <1>5, <1>6
  <2>3. members'[n] # {}
    BY <1>1, <1>3
  <2> QED BY <1>1, <1>7, <2>1, <2>2, <2>3 DEF PositionHolds
<1>13. HomesHold'
  <2>1. apart' \in [Ids -> SUBSET (1..Seen')] /\ \A k \in Ids : apart'[k] = {}
    BY <1>7 DEF Identified, LoadsInv, HomesHold
  <2> QED BY <2>1 DEF HomesHold
<1>14. o \in members'[n]
  BY <1>1, <1>3
<1>15. Listed(members) \subseteq Listed(members') /\ o \in Listed(members')
  BY <1>1, <1>5, <1>14 DEF Listed
<1>16. \A k \in Ids : members[k] # {} => members'[k] # {}
  BY <1>5
<1> QED BY <1>1, <1>5, <1>10, <1>11, <1>12, <1>13, <1>14, <1>15, <1>16

\* The screen identified by Identify.
LEMMA IdentifyIs ==
  ASSUME LoadsInv, Growing, NEW n \in Screens \cup {Outside}, NEW s, Identify(n, s)
  PROVE  /\ Identified(n, Latest, {}) /\ Seen \in Nat /\ Seen' = Seen + 1 /\ Latest = Seen + 1
         /\ alias' = alias /\ phase' = phase /\ Growing'
         /\ \A k \in Ids : \A p \in members'[k] : p \in members[k] \/ (p = Latest /\ k = n)
<1>1. ASeq(screens') /\ Seen' = Seen + 1 /\ Seen \in Nat
  BY AppendParts, SeqParts DEF LoadsInv, NodesHold, Identify, Seen
<1>2. n \in Ids
  BY PlacesAre
<1>3. Latest = Seen + 1 /\ Latest \in (Seen + 1)..Seen'
  BY <1>1 DEF Latest
<1>4. members' = [k \in Ids |-> (members[k] \cup (IF k = n THEN {Latest} ELSE {}))
                               \cup (IF k = Outside THEN {} ELSE {})]
  <2>1. members = [k \in Ids |-> members[k]]
    BY DEF LoadsInv, NodesHold
  <2> QED BY <1>2, <2>1 DEF Identify, Place
<1>5. /\ phase' = phase /\ alias' = alias /\ apart' = apart
      /\ Numbered(n) /\ at' = [node |-> n, observation |-> Latest]
  BY DEF Identify
<1>6. Seen' >= Seen /\ Seen' \in Nat /\ {} \subseteq (Seen + 1)..Seen'
  BY <1>1
<1>7. Identified(n, Latest, {})
  BY <1>1, <1>3, <1>4, <1>5, <1>6 DEF Identified
<1>8. \A k \in Ids : \A p \in members'[k] : p \in members[k] \/ (p = Latest /\ k = n)
  BY <1>4
<1> QED BY <1>1, <1>3, <1>5, <1>7, <1>8 DEF Growing

\* What a transition is recorded as.
LEMMA LogGrows ==
  ASSUME LoadsInv, Growing, alias' = alias, Seen' \in Nat, Seen' >= Seen,
         \A k \in Ids : members[k] \subseteq members'[k],
         \A k \in Ids : \A p \in members'[k] : p \in members[k] \/ p > Seen,
         NEW action, NEW target \in Ids, members'[alias[target]] # {},
         NEW after \in 1..Seen',
         log' = Append(log, [before |-> at.observation, after |-> after, action |-> action,
                             from |-> at.node, to |-> target])
  PROVE  LogHolds'
<1> DEFINE t == [before |-> at.observation, after |-> after, action |-> action,
                 from |-> at.node, to |-> target]
<1>1. /\ ASeq(log') /\ Len(log') = Len(log) + 1 /\ log'[Len(log) + 1] = t
      /\ \A i \in 1..Len(log) : log'[i] = log[i]
  BY AppendParts DEF LoadsInv, LogHolds
<1>2. DOMAIN log = 1..Len(log) /\ Len(log) \in Nat /\ DOMAIN log' = 1..(Len(log) + 1)
  BY <1>1, SeqParts DEF LoadsInv, LogHolds
<1>3. /\ at.node \in Ids /\ alias[at.node] = at.node /\ members[at.node] # {}
      /\ at.observation \in 1..Seen /\ Seen \in Nat
      /\ \A n \in Ids : at.observation \in members[n] => n = at.node
  <2>1. Seen \in Nat
    BY SeqParts DEF LoadsInv, NodesHold, Seen
  <2>2. PositionHolds /\ NodesHaveMembers
    BY DEF LoadsInv
  <2> QED BY <2>1, <2>2 DEF PositionHolds, NodesHaveMembers
<1>o. Outside \in Ids
  <2>1. MaxNode \in Nat
    BY EdgesAssumption
  <2> QED BY <2>1 DEF Outside, Ids
\* Screens that were there are listed where they were.
<1>s. \A k \in Ids : \A p \in 1..Seen : p \in members'[k] => p \in members[k]
  <2>1. \A p \in 1..Seen : ~(p > Seen)
    BY <1>3
  <2> QED BY <2>1
<1>4. ASSUME NEW i \in 1..(Len(log) + 1)
      PROVE  /\ log'[i].from \in Ids /\ log'[i].to \in Ids
             /\ members'[alias[log'[i].from]] # {} /\ members'[alias[log'[i].to]] # {}
             /\ log'[i].before \in 1..Seen' /\ log'[i].after \in 1..Seen'
             /\ alias[log'[i].from] # Outside => log'[i].before \notin members'[Outside]
             /\ alias[log'[i].from] = Outside =>
                  \A n \in Ids : log'[i].before \in members'[n] => n = Outside
  <2>0. \A p \in 1..Seen : p \in 1..Seen'
    BY <1>3
  <2>1. CASE i = Len(log) + 1
    <3>1. log'[i] = t
      BY <1>1, <2>1
    <3>2. /\ t.from = at.node /\ t.to = target /\ t.before = at.observation /\ t.after = after
      OBVIOUS
    <3> HIDE DEF t
    <3>3. members'[at.node] # {} /\ \A n \in Ids : at.observation \in members'[n] => n = at.node
      BY <1>3, <1>s
    <3> QED BY <1>3, <1>o, <2>0, <3>1, <3>2, <3>3
  <2>2. CASE i # Len(log) + 1
    <3>0. i \in 1..Len(log)
      <4> DEFINE l == Len(log)
      <4>1. l \in Nat /\ i \in 1..(l + 1) /\ i # l + 1
        BY <1>2, <2>2
      <4> HIDE DEF l
      <4>2. i \in 1..l
        BY <4>1
      <4> QED BY <4>2 DEF l
    <3>1. /\ log'[i] = log[i] /\ i \in DOMAIN log
      BY <1>1, <1>2, <3>0
    <3>2. /\ log[i].from \in Ids /\ log[i].to \in Ids
          /\ members[alias[log[i].from]] # {} /\ members[alias[log[i].to]] # {}
          /\ log[i].before \in 1..Seen /\ log[i].after \in 1..Seen
          /\ alias[log[i].from] # Outside => log[i].before \notin members[Outside]
          /\ alias[log[i].from] = Outside =>
               \A n \in Ids : log[i].before \in members[n] => n = Outside
      BY <3>1 DEF LoadsInv, LogHolds
    <3>3. alias[log[i].from] \in Ids /\ alias[log[i].to] \in Ids
      BY <3>2 DEF LoadsInv, NodesHold
    <3>4. \A k \in Ids : log[i].before \in members'[k] => log[i].before \in members[k]
      BY <1>s, <3>2
    <3> QED BY <1>o, <2>0, <3>1, <3>2, <3>3, <3>4
  <2> QED BY <2>1, <2>2
<1> QED BY <1>1, <1>2, <1>4 DEF LogHolds

-----------------------------------------------------------------------------
(* What exploring keeps (LoadsInv).                                        *)

\* Edges stay whole and anchored while nodes keep members and more is listed.
LEMMA EdgesStillHold ==
  ASSUME LoadsInv, NEW ms, \A k \in Ids : members[k] # {} => ms[k] # {},
         Listed(members) \subseteq Listed(ms)
  PROVE  EdgesHold(edges, ms) /\ AnchorsHold(edges, Listed(ms))
<1>1. EdgesHold(edges, ms)
  <2>1. \A e \in DOMAIN edges : e[1] \in Ids /\ e[2] \in Ids
    BY DEF LoadsInv, EdgesHold
  <2> QED BY <2>1 DEF LoadsInv, EdgesHold
<1>2. AnchorsHold(edges, Listed(ms))
  BY MoreAnchored DEF LoadsInv, AnchorsHold
<1> QED BY <1>1, <1>2

LEMMA RecordHolds ==
  ASSUME LoadsInv, Growing, NEW tr, TrailHolds(tr, Listed(members)),
         NEW ms, NEW action, NEW target \in Ids, Record(tr, action, target),
         \A k \in Ids : members[k] # {} => ms[k] # {},
         ms[target] # {}, Listed(members) \subseteq Listed(ms)
  PROVE  EdgesHold(edges', ms) /\ AnchorsHold(edges', Listed(ms))
<1> DEFINE sent == Recorded(Setup(tr, alias, at.node))
           anchor == IF sent = Unknown THEN NoObservation
                     ELSE SetupObservation(tr, alias, at.node)
           setup == [sent |-> sent, step |-> Len(log) + 1]
           L == Listed(members)
           e == <<at.node, target>>
<1>1. edges' = IF at.node = Outside THEN edges
               ELSE AddEdge(edges, e, action, setup, anchor, at.observation)
  BY DEF Record
<1>2. at.node \in Ids /\ members[at.node] # {}
  BY DEF LoadsInv, PositionHolds
<1>3. e \in Ids \X Ids /\ e[1] = at.node /\ ms[e[1]] # {} /\ ms[e[2]] # {}
  BY <1>2
<1>4. anchor # NoObservation => Known(setup) /\ anchor \in L
  <2>1. SetupObservation(tr, alias, at.node) \in L \cup {NoObservation}
    BY SetupObservationIn
  <2> HIDE DEF sent, L
  <2> QED BY <2>1 DEF Known
<1>5. EdgesHold(edges, members) /\ AnchorsHold(edges, L)
  BY DEF LoadsInv
<1>6. CASE at.node = Outside
  BY <1>1, <1>6, EdgesStillHold
<1>7. CASE at.node # Outside
  <2> HIDE DEF anchor, setup, e
  <2> QED BY <1>1, <1>3, <1>4, <1>5, <1>7, AddedHolds
<1> QED BY <1>6, <1>7

LEMMA TakeStepLoads ==
  ASSUME LoadsInv, Growing, NEW tr, TrailHolds(tr, Listed(members)),
         NEW n \in Screens, NEW s, NEW action, NEW observation \in {Latest, NoObservation},
         TakeStep(tr, action, n, s, observation)
  PROVE  LoadsInv'
<1>1. /\ Identify(n, s) /\ Record(tr, action, n)
      /\ trail' = Stepped(tr, alias, Len(log) + 1, n, s, observation)
  BY DEF TakeStep
<1>2. /\ Identified(n, Latest, {}) /\ Seen \in Nat /\ Seen' = Seen + 1 /\ Latest = Seen + 1
      /\ alias' = alias /\ phase' = phase
      /\ \A k \in Ids : \A p \in members'[k] : p \in members[k] \/ (p = Latest /\ k = n)
  BY <1>1, IdentifyIs
<1>3. /\ NodesHold' /\ NodesHaveMembers' /\ PositionHolds' /\ HomesHold'
      /\ \A k \in Ids : members[k] \subseteq members'[k]
      /\ \A k \in Ids : members[k] # {} => members'[k] # {}
      /\ Latest \in members'[n] /\ n \in Ids /\ alias[n] = n
      /\ Listed(members) \subseteq Listed(members') /\ Latest \in Listed(members')
  BY <1>2, IdentifiedHolds
<1>4. members'[n] # {}
  BY <1>3
<1>5. EdgesHold(edges', members') /\ AnchorsHold(edges', Listed(members'))
  BY <1>1, <1>3, <1>4, RecordHolds
<1>6. LogHolds'
  <2>1. Latest \in 1..Seen' /\ Seen' \in Nat /\ Seen' >= Seen /\ Latest > Seen
    BY <1>2
  <2>2. \A k \in Ids : \A p \in members'[k] : p \in members[k] \/ p > Seen
    BY <1>2, <2>1
  <2>3. log' = Append(log, [before |-> at.observation, after |-> Latest, action |-> action,
                             from |-> at.node, to |-> n])
    BY <1>1 DEF Record
  <2> QED BY <1>2, <1>3, <1>4, <2>1, <2>2, <2>3, LogGrows
<1>7. TrailHolds(trail', Listed(members'))
  <2>1. observation \in Listed(members') \cup {NoObservation}
    BY <1>3
  <2> QED BY <1>1, <1>3, <2>1, SteppedHolds
<1> QED BY <1>3, <1>5, <1>6, <1>7 DEF LoadsInv

\* The screens of a step outside: the one it led to, and the one the run came back to.
LEMMA LeaveAppIs ==
  ASSUME LoadsInv, Growing, NEW tr, NEW n \in Screens \cup {Outside}, NEW s, NEW action,
         LeaveApp(tr, action, n, s)
  PROVE  /\ Identified(n, Latest + 1, {Latest})
         /\ Seen \in Nat /\ Seen' = Seen + 2 /\ Latest = Seen + 1
         /\ Outside \in Ids /\ alias[Outside] = Outside /\ Latest \in members'[Outside]
         /\ \A k \in Ids : \A p \in members'[k] : \/ p \in members[k] \/ (p = Latest /\ k = Outside)
                                                  \/ (p = Latest + 1 /\ k = n)
<1>1. ASeq(screens') /\ Seen' = Seen + 2 /\ Seen \in Nat
  <2> DEFINE one == << Shown(Outside, s), Shown(n, s) >>
  <2>1. ASeq(one) /\ Len(one) = 2
    <3>1. one \in Seq({Shown(Outside, s), Shown(n, s)})
      OBVIOUS
    <3> QED BY <3>1 DEF ASeq
  <2>2. ASeq(screens) /\ screens' = screens \o one
    BY DEF LoadsInv, NodesHold, LeaveApp
  <2> HIDE DEF one
  <2>3. IsConcat(screens', screens, one)
    BY <2>1, <2>2, ConcatOf
  <2>4. Len(screens) \in Nat
    BY <2>2, SeqParts
  <2> QED BY <2>1, <2>3, <2>4 DEF Seen, IsConcat
<1>2. n \in Ids
  BY PlacesAre
<1>o. Outside \in Ids /\ alias[Outside] = Outside
  <2>1. MaxNode \in Nat
    BY EdgesAssumption
  <2> QED BY <2>1 DEF LoadsInv, NodesHold, Outside, Ids
<1>3. /\ Latest = Seen + 1 /\ Latest \in (Seen + 1)..Seen' /\ Latest + 1 \in (Seen + 1)..Seen'
      /\ Latest + 1 # Latest
  BY <1>1 DEF Latest
<1>4. members' = [k \in Ids |-> (members[k] \cup (IF k = n THEN {Latest + 1} ELSE {}))
                               \cup (IF k = Outside THEN {Latest} ELSE {})]
  <2> DEFINE p == Latest
             q == Latest + 1
             new == [k \in Ids |-> (members[k] \cup (IF k = n THEN {q} ELSE {}))
                               \cup (IF k = Outside THEN {p} ELSE {})]
  <2>1. members = [k \in Ids |-> members[k]]
    BY DEF LoadsInv, NodesHold
  <2>2. members' = Place(Place(members, p, Outside), q, n)
    BY DEF LeaveApp
  <2> HIDE DEF p, q
  <2>3. DOMAIN Place(members, p, Outside) = Ids /\ DOMAIN members' = Ids
    BY <2>1, <2>2 DEF Place
  <2>4. \A k \in Ids : Place(members, p, Outside)[k]
                         = members[k] \cup (IF k = Outside THEN {p} ELSE {})
    BY <1>o, <2>1 DEF Place
  <2>5. \A k \in Ids : members'[k]
          = Place(members, p, Outside)[k] \cup (IF k = n THEN {q} ELSE {})
    BY <1>2, <2>2, <2>3 DEF Place
  <2>6. \A k \in Ids : members'[k] = new[k]
    <3> SUFFICES ASSUME NEW k \in Ids PROVE members'[k] = new[k]
      OBVIOUS
    <3>1. members'[k] = (members[k] \cup (IF k = Outside THEN {p} ELSE {}))
                          \cup (IF k = n THEN {q} ELSE {})
      BY <2>4, <2>5
    <3> QED BY <3>1
  <2>7. members' = [k \in Ids |-> members'[k]]
    BY <1>2, <2>2, <2>3 DEF Place
  <2>8. members' = new
    BY <2>6, <2>7
  <2> QED BY <2>8 DEF p, q
<1>5. /\ phase' = phase /\ alias' = alias /\ apart' = apart
      /\ Numbered(n) /\ at' = [node |-> n, observation |-> Latest + 1]
  BY DEF LeaveApp
<1>6. Seen' >= Seen /\ Seen' \in Nat /\ {Latest} \subseteq (Seen + 1)..Seen' /\ Latest + 1 \notin {Latest}
  BY <1>1, <1>3
<1>7. Identified(n, Latest + 1, {Latest})
  BY <1>1, <1>3, <1>4, <1>5, <1>6 DEF Identified
<1>8. /\ Latest \in members'[Outside]
      /\ \A k \in Ids : \A p \in members'[k] : \/ p \in members[k] \/ (p = Latest /\ k = Outside)
                                               \/ (p = Latest + 1 /\ k = n)
  <2> HIDE DEF Latest
  <2> QED BY <1>4, <1>o
<1> QED BY <1>1, <1>3, <1>o, <1>7, <1>8

LEMMA LeaveAppLoads ==
  ASSUME LoadsInv, Growing, NEW tr, TrailHolds(tr, Listed(members)),
         NEW n \in Screens \cup {Outside}, NEW s, NEW action, LeaveApp(tr, action, n, s),
         TrailHolds(trail', Listed(members))
  PROVE  LoadsInv'
<1>1. /\ Identified(n, Latest + 1, {Latest})
      /\ Seen \in Nat /\ Seen' = Seen + 2 /\ Latest = Seen + 1
      /\ Outside \in Ids /\ alias[Outside] = Outside /\ Latest \in members'[Outside]
      /\ \A k \in Ids : \A p \in members'[k] : \/ p \in members[k] \/ (p = Latest /\ k = Outside)
                                               \/ (p = Latest + 1 /\ k = n)
  BY LeaveAppIs
<1>2. Record(tr, action, Outside) /\ alias' = alias
  BY DEF LeaveApp
<1>3. /\ NodesHold' /\ NodesHaveMembers' /\ PositionHolds' /\ HomesHold'
      /\ \A k \in Ids : members[k] \subseteq members'[k]
      /\ \A k \in Ids : members[k] # {} => members'[k] # {}
      /\ Listed(members) \subseteq Listed(members')
  BY <1>1, IdentifiedHolds
<1>4. members'[Outside] # {}
  BY <1>1
<1>5. EdgesHold(edges', members') /\ AnchorsHold(edges', Listed(members'))
  BY <1>1, <1>2, <1>3, <1>4, RecordHolds
<1>6. LogHolds'
  <2>1. Latest \in 1..Seen' /\ Seen' \in Nat /\ Seen' >= Seen /\ Latest > Seen /\ Latest + 1 > Seen
    BY <1>1
  <2>2. \A k \in Ids : \A p \in members'[k] : p \in members[k] \/ p > Seen
    BY <1>1, <2>1
  <2>3. log' = Append(log, [before |-> at.observation, after |-> Latest, action |-> action,
                             from |-> at.node, to |-> Outside])
    BY <1>2 DEF Record
  <2> QED BY <1>1, <1>2, <1>3, <1>4, <2>1, <2>2, <2>3, LogGrows
<1>7. TrailHolds(trail', Listed(members'))
  BY <1>3 DEF TrailHolds
<1> QED BY <1>3, <1>5, <1>6, <1>7 DEF LoadsInv

\* What holds of the log when screens are listed and nothing else changes.
LEMMA LogStillHolds ==
  ASSUME LoadsInv, UNCHANGED <<log, alias>>, Seen' \in Nat, Seen' >= Seen,
         \A k \in Ids : members[k] # {} => members'[k] # {},
         \A k \in Ids : \A p \in members'[k] : p \in members[k] \/ p > Seen
  PROVE  LogHolds'
<1>1. \A t \in DOMAIN log : alias[log[t].from] \in Ids /\ alias[log[t].to] \in Ids
  BY DEF LoadsInv, LogHolds, NodesHold
<1>2. Outside \in Ids /\ \A p \in 1..Seen : p \in 1..Seen' /\ ~(p > Seen)
  <2>1. Seen \in Nat /\ MaxNode \in Nat
    BY EdgesAssumption, SeqParts DEF LoadsInv, NodesHold, Seen
  <2> QED BY <2>1 DEF Outside, Ids
<1>3. \A t \in DOMAIN log : \A k \in Ids : log[t].before \in members'[k] => log[t].before \in members[k]
  BY <1>2 DEF LoadsInv, LogHolds
<1> QED BY <1>1, <1>2, <1>3 DEF LoadsInv, LogHolds

\* A screen is identified, and nothing is recorded.
LEMMA IdentifyLoads ==
  ASSUME LoadsInv, Growing, NEW n \in Screens \cup {Outside}, NEW s, Identify(n, s),
         UNCHANGED <<edges, log>>, TrailHolds(trail', Listed(members) \cup {Latest})
  PROVE  LoadsInv'
<1>1. /\ Identified(n, Latest, {}) /\ Seen \in Nat /\ Seen' = Seen + 1 /\ Latest = Seen + 1
      /\ alias' = alias /\ phase' = phase
      /\ \A k \in Ids : \A p \in members'[k] : p \in members[k] \/ (p = Latest /\ k = n)
  BY IdentifyIs
<1>2. /\ NodesHold' /\ NodesHaveMembers' /\ PositionHolds' /\ HomesHold'
      /\ \A k \in Ids : members[k] # {} => members'[k] # {}
      /\ Listed(members) \subseteq Listed(members') /\ Latest \in Listed(members')
  BY <1>1, IdentifiedHolds
<1>3. EdgesHold(edges', members') /\ AnchorsHold(edges', Listed(members'))
  BY <1>2, EdgesStillHold
<1>4. LogHolds'
  <2>1. Seen' \in Nat /\ Seen' >= Seen /\ Latest > Seen
    BY <1>1
  <2>2. \A k \in Ids : \A p \in members'[k] : p \in members[k] \/ p > Seen
    BY <1>1, <2>1
  <2> QED BY <1>1, <1>2, <2>1, <2>2, LogStillHolds
<1>5. TrailHolds(trail', Listed(members'))
  BY <1>2 DEF TrailHolds
<1> QED BY <1>2, <1>3, <1>4, <1>5 DEF LoadsInv

LEMMA WaitLoads ==
  ASSUME LoadsInv, Wait
  PROVE  LoadsInv'
<1>1. ASeq(screens') /\ Seen' = Seen + 1 /\ Seen \in Nat
  BY AppendParts, SeqParts DEF LoadsInv, NodesHold, Wait, Seen
<1>2. /\ Growing /\ UNCHANGED <<phase, members, alias, next, edges, log, trail, apart>>
      /\ at' = [at EXCEPT !.observation = Latest]
  BY DEF Wait, graphVars
<1>3. \A p \in 1..Seen : p \in 1..Seen' /\ p # Latest
  BY <1>1 DEF Latest
<1>4. Latest \in 1..Seen' /\ Seen' \in Nat /\ Seen' >= Seen /\ (Seen >= 1 => Seen' >= 1)
  BY <1>1 DEF Latest
<1>5. NodesHold' /\ NodesHaveMembers'
  BY <1>1, <1>2, <1>3, <1>4 DEF LoadsInv, NodesHold, NodesHaveMembers
<1>6. PositionHolds'
  <2>1. at' = [node |-> at.node, observation |-> Latest]
    BY <1>2 DEF LoadsInv, PositionHolds
  <2>2. \A k \in Ids : Latest \notin members[k]
    BY <1>3 DEF LoadsInv, NodesHold
  <2>3. at'.node = at.node /\ at'.observation = Latest
        /\ at' = [node |-> at'.node, observation |-> at'.observation]
    BY <2>1
  <2> QED BY <1>2, <1>4, <2>2, <2>3 DEF LoadsInv, PositionHolds
<1>7. HomesHold'
  <2>1. Growing' = Growing
    BY <1>2 DEF Growing
  <2> QED BY <1>2, <1>3, <2>1 DEF LoadsInv, HomesHold
<1>8. LogHolds'
  BY <1>2, <1>4, LogStillHolds
<1>9. EdgesHold(edges', members') /\ AnchorsHold(edges', Listed(members'))
      /\ TrailHolds(trail', Listed(members'))
  BY <1>2 DEF LoadsInv
<1> QED BY <1>5, <1>6, <1>7, <1>8, <1>9 DEF LoadsInv

-----------------------------------------------------------------------------
LEMMA StepLoads ==
  ASSUME LoadsInv, NEW n \in Screens, NEW s, NEW action, Step(action, n, s)
  PROVE  LoadsInv'
<1>1. Growing /\ TakeStep(trail, action, n, s, Latest)
  BY DEF Step, Growing
<1>2. TrailHolds(trail, Listed(members))
  BY DEF LoadsInv
<1> QED BY <1>1, <1>2, TakeStepLoads

LEMMA StepOutsideLoads ==
  ASSUME LoadsInv, NEW n \in Screens \cup {Outside}, NEW s, NEW action, StepOutside(action, n, s)
  PROVE  LoadsInv'
<1>1. Growing /\ LeaveApp(trail, action, n, s) /\ trail' = Begun(n, s, FALSE, NoObservation)
  BY DEF StepOutside, Growing
<1>2. TrailHolds(trail, Listed(members))
  BY DEF LoadsInv
<1>3. TrailHolds(trail', Listed(members))
  BY <1>1, BegunHolds
<1> QED BY <1>1, <1>2, <1>3, LeaveAppLoads

LEMMA ArriveLoads ==
  ASSUME LoadsInv, NEW n \in Screens \cup {Outside}, NEW s, NEW known \in BOOLEAN,
         Arrive(n, s, known)
  PROVE  LoadsInv'
<1>1. /\ Growing /\ Identify(n, s) /\ UNCHANGED <<edges, log>>
      /\ trail' = Begun(n, s, known, Latest)
  BY DEF Arrive, Growing
<1>2. TrailHolds(trail', Listed(members) \cup {Latest})
  BY <1>1, BegunHolds
<1> QED BY <1>1, <1>2, IdentifyLoads

LEMMA OverlayStepLoads ==
  ASSUME LoadsInv, NEW n \in Screens \cup {Outside}, NEW s, OverlayStep(n, s)
  PROVE  LoadsInv'
<1>1. /\ Growing /\ Identify(n, s) /\ UNCHANGED <<edges, log, trail>>
  BY DEF OverlayStep, Growing
<1>2. TrailHolds(trail', Listed(members) \cup {Latest})
  BY <1>1 DEF LoadsInv, TrailHolds
<1> QED BY <1>1, <1>2, IdentifyLoads

\* The steps of a build.
LEMMA StartedTrailHolds ==
  ASSUME LoadsInv
  PROVE  TrailHolds(StartedTrail, Listed(members))
<1>1. CASE run.head = run.match
  BY <1>1 DEF StartedTrail, LoadsInv
<1>2. CASE run.head # run.match
  BY <1>2, BegunHolds DEF StartedTrail
<1> QED BY <1>1, <1>2

LEMMA BuildStepLoads ==
  ASSUME LoadsInv, NEW n \in Screens, NEW s, NEW action, BuildStep(action, n, s)
  PROVE  LoadsInv'
<1>1. Growing /\ TakeStep(StartedTrail, action, n, s, NoObservation)
  BY DEF BuildStep, Growing
<1> QED BY <1>1, StartedTrailHolds, TakeStepLoads

LEMMA BuildStepOutsideLoads ==
  ASSUME LoadsInv, NEW n \in Screens \cup {Outside}, NEW s, NEW action,
         BuildStepOutside(action, n, s)
  PROVE  LoadsInv'
<1>1. Growing /\ LeaveApp(StartedTrail, action, n, s) /\ trail' = StartedTrail
  BY DEF BuildStepOutside, Growing
<1> QED BY <1>1, StartedTrailHolds, LeaveAppLoads

LEMMA MatchLoads ==
  ASSUME LoadsInv, NEW n \in Screens \cup {Outside}, NEW s, NEW known, Match(n, s, known)
  PROVE  LoadsInv'
<1>1. /\ Growing /\ Identify(n, s) /\ UNCHANGED <<edges, log, trail>>
  BY DEF Match, Growing
<1>2. TrailHolds(trail', Listed(members) \cup {Latest})
  BY <1>1 DEF LoadsInv, TrailHolds
<1> QED BY <1>1, <1>2, IdentifyLoads

-----------------------------------------------------------------------------
(* What a merge and a move keep (LoadsInv).                                *)

LEMMA InAppAre ==
  ASSUME LoadsInv, NEW n \in InApp
  PROVE  n \in Ids /\ n # Outside /\ alias[n] = n /\ members[n] # {} /\ n < next
<1>1. n \in Ids \ {Outside} /\ members[n] # {} /\ n \in Int
  BY DEF InApp, Ids
<1>2. next \in Int /\ NodesHold /\ NodesHaveMembers
  BY DEF LoadsInv, NodesHold
<1> QED BY <1>1, <1>2 DEF NodesHold, NodesHaveMembers

LEMMA MergeLoads ==
  ASSUME LoadsInv, NEW keep \in InApp, NEW remove \in InApp, Merge(keep, remove)
  PROVE  LoadsInv'
<1>1. /\ keep \in Ids /\ keep # Outside /\ alias[keep] = keep /\ members[keep] # {} /\ keep < next
      /\ remove \in Ids /\ remove # Outside /\ alias[remove] = remove /\ members[remove] # {}
      /\ remove < next /\ keep # remove
  <2>1. keep < remove /\ keep \in Int
    BY DEF Merge, InApp, Ids
  <2>2. keep # remove
    BY <2>1
  <2> QED BY <2>2, InAppAre
<1>2. /\ Growing /\ Growing' /\ UNCHANGED <<phase, next, log, trail, apart, screens>>
      /\ edges' = Rewired(edges, keep, remove)
      /\ members' = [members EXCEPT ![keep] = @ \cup members[remove], ![remove] = {}]
      /\ alias' = [n \in Ids |-> IF alias[n] = remove THEN keep ELSE alias[n]]
      /\ at' = [at EXCEPT !.node = IF @ = remove THEN keep ELSE @]
  BY DEF Merge, Growing
<1>3. NodesHold /\ NodesHaveMembers /\ PositionHolds /\ HomesHold /\ LogHolds
  BY DEF LoadsInv
<1>4. /\ members \in [Ids -> SUBSET (1..Seen)] /\ alias \in [Ids -> Ids] /\ Seen' = Seen
      /\ \A n \in Ids : members'[n] = IF n = keep THEN members[keep] \cup members[remove]
                                      ELSE IF n = remove THEN {} ELSE members[n]
      /\ members' \in [Ids -> SUBSET (1..Seen)]
      /\ \A n \in Ids : alias'[n] = IF alias[n] = remove THEN keep ELSE alias[n]
      /\ alias' \in [Ids -> Ids]
  BY <1>1, <1>2, <1>3 DEF NodesHold, Seen
\* The name of every node with members.
<1>5. \A n \in Ids : /\ members[n] # {} => members'[Kept(n, keep, remove)] # {}
                     /\ alias'[n] = Kept(alias[n], keep, remove)
                     /\ Kept(n, keep, remove) \in Ids
                     /\ n # Outside <=> Kept(n, keep, remove) # Outside
  BY <1>1, <1>4 DEF Kept
<1>6. NodesHold'
  <2>1. \A n \in Ids : alias'[alias'[n]] = alias'[n]
    BY <1>1, <1>3, <1>4 DEF NodesHold
  <2>2. \A n \in Ids : n >= next => members'[n] = {} /\ alias'[n] = n
    <3>1. \A n \in Ids : n \in Int
      BY DEF Ids
    <3>2. \A n \in Ids : n >= next => n # keep /\ n # remove
      BY <1>1, <1>3, <3>1 DEF NodesHold
    <3> QED BY <1>3, <1>4, <3>2 DEF NodesHold
  <2>3. Outside \in Ids
    <3>1. MaxNode \in Nat
      BY EdgesAssumption
    <3> QED BY <3>1 DEF Outside, Ids
  <2>4. alias'[Outside] = Outside
    BY <1>1, <1>3, <1>4, <2>3 DEF NodesHold
  <2> QED BY <1>2, <1>3, <1>4, <2>1, <2>2, <2>4 DEF NodesHold
<1>7. NodesHaveMembers'
  <2>1. \A n \in Ids : members'[n] # {} => alias'[n] = n
    BY <1>1, <1>3, <1>4 DEF NodesHaveMembers
  <2>2. \A n \in Ids : alias'[n] < next' => members'[alias'[n]] # {} \/ alias'[n] = Outside
    <3> SUFFICES ASSUME NEW n \in Ids, alias'[n] < next
                 PROVE  members'[alias'[n]] # {} \/ alias'[n] = Outside
      BY <1>2
    <3>1. CASE alias[n] = remove
      BY <1>1, <1>4, <3>1
    <3>2. CASE alias[n] # remove
      <4>1. alias'[n] = alias[n] /\ alias[n] \in Ids /\ alias[n] < next
        BY <1>4, <3>2
      <4>2. members[alias[n]] # {} \/ alias[n] = Outside
        BY <1>3, <4>1 DEF NodesHaveMembers
      <4> QED BY <1>4, <3>2, <4>1, <4>2
    <3> QED BY <3>1, <3>2
  <2>3. \A n, m \in Ids : n # m => members'[n] \cap members'[m] = {}
    <3> SUFFICES ASSUME NEW n \in Ids, NEW m \in Ids, n # m, NEW p \in members'[n], p \in members'[m]
                 PROVE  FALSE
      OBVIOUS
    <3>1. \A i, j \in Ids : p \in members[i] /\ p \in members[j] => i = j
      BY <1>3 DEF NodesHaveMembers
    <3> QED BY <1>1, <1>4, <3>1
  <2> QED BY <2>1, <2>2, <2>3 DEF NodesHaveMembers
<1>8. PositionHolds'
  <2>1. /\ at = [node |-> at.node, observation |-> at.observation]
        /\ at.node \in Ids /\ members[at.node] # {}
        /\ at.observation \in 1..Seen
        /\ \A n \in Ids : at.observation \in members[n] => n = at.node
    BY <1>2, <1>3 DEF PositionHolds
  <2>2. at' = [node |-> Kept(at.node, keep, remove), observation |-> at.observation]
    BY <1>2, <2>1 DEF Kept
  <2>3. /\ at'.node = Kept(at.node, keep, remove) /\ at'.observation = at.observation
        /\ at' = [node |-> at'.node, observation |-> at'.observation]
    BY <2>2
  <2>4. \A n \in Ids : at.observation \in members'[n] => n = Kept(at.node, keep, remove)
    BY <1>1, <1>4, <2>1 DEF Kept
  <2> QED BY <1>4, <1>5, <2>1, <2>3, <2>4 DEF PositionHolds
<1>9. HomesHold'
  <2>1. apart' = apart /\ apart \in [Ids -> SUBSET (1..Seen)] /\ \A n \in Ids : apart[n] = {}
    BY <1>2, <1>3 DEF HomesHold
  <2> QED BY <1>4, <2>1 DEF HomesHold
<1>10. LogHolds'
  <2> SUFFICES ASSUME NEW t \in DOMAIN log
        PROVE  /\ members'[alias'[log[t].from]] # {} /\ members'[alias'[log[t].to]] # {}
               /\ alias'[log[t].from] # Outside => log[t].before \notin members'[Outside]
               /\ alias'[log[t].from] = Outside =>
                    \A n \in Ids : log[t].before \in members'[n] => n = Outside
    BY <1>2, <1>3, <1>4 DEF LogHolds
  <2>1. /\ log[t].from \in Ids /\ log[t].to \in Ids
        /\ members[alias[log[t].from]] # {} /\ members[alias[log[t].to]] # {}
        /\ alias[log[t].from] # Outside => log[t].before \notin members[Outside]
        /\ alias[log[t].from] = Outside =>
             \A n \in Ids : log[t].before \in members[n] => n = Outside
    BY <1>3 DEF LogHolds
  <2>2. alias[log[t].from] \in Ids /\ alias[log[t].to] \in Ids
    BY <1>4, <2>1
  <2>3. Outside \in Ids
    <3>1. MaxNode \in Nat
      BY EdgesAssumption
    <3> QED BY <3>1 DEF Outside, Ids
  <2>4. members'[Outside] = members[Outside]
    BY <1>1, <1>4, <2>3
  <2>5. alias'[log[t].from] # Outside <=> alias[log[t].from] # Outside
    BY <1>5, <2>1, <2>2
  <2>6. \A n \in Ids : log[t].before \in members'[n] => \E m \in Ids : log[t].before \in members[m]
                                                       /\ (m = n \/ (m = remove /\ n = keep))
    BY <1>1, <1>4
  <2>7. alias[log[t].from] = Outside =>
          \A n \in Ids : log[t].before \in members'[n] => n = Outside
    BY <1>1, <2>1, <2>6
  <2> QED BY <1>5, <2>1, <2>2, <2>4, <2>5, <2>7
<1>e. /\ edges = [e \in DOMAIN edges |-> edges[e]]
      /\ DOMAIN edges \subseteq Ids \X Ids /\ PreparedAll(edges)
      /\ \A e \in DOMAIN edges :
           edges[e].actions # <<>> /\ members[e[1]] # {} /\ members[e[2]] # {} /\ e[1] # Outside
  BY DEF LoadsInv, EdgesHold
<1> DEFINE K(f) == KeptEdge(f, keep, remove)
<1>r. /\ DOMAIN edges' = {K(f) : f \in DOMAIN edges}
      /\ PreparedAll(edges') /\ edges' = [f \in DOMAIN edges' |-> edges'[f]]
      /\ \A e \in DOMAIN edges' : \A i \in DOMAIN edges'[e].actions :
           \E f \in DOMAIN edges : K(f) = e /\ In(edges'[e], i, edges[f])
      /\ \A f \in DOMAIN edges : AllIn(edges[f], edges'[K(f)])
  <2>1. RewiredAs(edges', edges, keep, remove)
    BY <1>1, <1>2, <1>e, RewiredParts
  <2> QED BY <2>1 DEF RewiredAs
<1>11. EdgesHold(edges', members')
  <2> SUFFICES ASSUME NEW e \in DOMAIN edges'
        PROVE  /\ edges'[e].actions # <<>> /\ e \in Ids \X Ids /\ e[1] # Outside
               /\ members'[e[1]] # {} /\ members'[e[2]] # {}
    BY <1>r DEF EdgesHold
  <2>0. PICK f \in DOMAIN edges : e = K(f)
    BY <1>r
  <2>1. /\ f[1] \in Ids /\ f[2] \in Ids /\ f[1] # Outside /\ members[f[1]] # {} /\ members[f[2]] # {}
    BY <1>e
  <2>2. edges'[K(f)].actions # <<>>
    <3>1. Whole(edges[f]) /\ edges[f].actions # <<>> /\ K(f) \in DOMAIN edges'
      BY <1>e, <1>r DEF PreparedAll, Prepared
    <3>2. PICK i \in DOMAIN edges[f].actions : TRUE
      BY <3>1, WholeParts
    <3>3. Whole(edges'[K(f)]) /\ AllIn(edges[f], edges'[K(f)])
      BY <1>r, <3>1 DEF PreparedAll, Prepared
    <3> HIDE DEF K
    <3>4. DOMAIN edges'[K(f)].actions # {}
      BY <3>2, <3>3 DEF AllIn, In
    <3> QED BY <3>3, <3>4, WholeParts
  <2> QED BY <1>5, <2>0, <2>1, <2>2 DEF KeptEdge
<1>12. Listed(members) = Listed(members')
  <2>1. ASSUME NEW n \in Ids, NEW p \in members[n] PROVE p \in Listed(members')
    <3>1. p \in members'[Kept(n, keep, remove)]
      BY <1>1, <1>4 DEF Kept
    <3> QED BY <1>5, <3>1 DEF Listed
  <2>2. ASSUME NEW n \in Ids, NEW p \in members'[n] PROVE p \in Listed(members)
    BY <1>1, <1>4, <2>2 DEF Listed
  <2> QED BY <2>1, <2>2 DEF Listed
<1>13. AnchorsHold(edges', Listed(members'))
  <2> DEFINE L == Listed(members)
  <2> HIDE DEF L, K
  <2> SUFFICES ASSUME NEW e \in DOMAIN edges', NEW i \in DOMAIN edges'[e].actions
        PROVE  Anchored(edges'[e], i, L)
    BY <1>12 DEF AnchorsHold, L
  <2>1. PICK f \in DOMAIN edges : In(edges'[e], i, edges[f])
    BY <1>r
  <2>2. PICK j \in DOMAIN edges[f].actions : Same(edges'[e], i, edges[f], j)
    BY <2>1 DEF In
  <2>3. Anchored(edges[f], j, L)
    BY DEF LoadsInv, AnchorsHold, L
  <2> QED BY <2>2, <2>3, SameAnchored
<1>14. TrailHolds(trail', Listed(members'))
  BY <1>2, <1>12 DEF LoadsInv
<1> QED BY <1>6, <1>7, <1>8, <1>9, <1>10, <1>11, <1>13, <1>14 DEF LoadsInv

-----------------------------------------------------------------------------
\* The screen a transition was taken on is inside the app or outside, as when it was recorded.
LEMMA SourceInside ==
  ASSUME LogHolds, NEW t \in DOMAIN log
  PROVE  Ends(members, t)[1] # Outside <=> alias[log[t].from] # Outside
<1> DEFINE listed == {n \in Ids : log[t].before \in members[n]}
<1>1. Ends(members, t)[1] = IF listed = {} THEN alias[log[t].from] ELSE CHOOSE n \in listed : TRUE
  BY DEF Ends, NodeOf
<1>2. listed # {} => (CHOOSE n \in listed : TRUE) \in listed
  OBVIOUS
<1>3. /\ alias[log[t].from] # Outside => log[t].before \notin members[Outside]
      /\ alias[log[t].from] = Outside =>
           \A n \in Ids : log[t].before \in members[n] => n = Outside
  BY DEF LogHolds
<1> QED BY <1>1, <1>2, <1>3

\* A part of the members apart from home moves, and home stays.
Relocated(from, group, to) ==
  /\ phase \in {"split", "move"} /\ phase' = phase
  /\ from \in InApp /\ to \in Screens /\ to # from /\ group # {} /\ group \subseteq apart[from]
  /\ Relocate(from, group, to) /\ apart' = [apart EXCEPT ![from] = @ \ group]
  /\ UNCHANGED <<alias, log, trail, screens>>

LEMMA RelocatedHolds ==
  ASSUME LoadsInv, NEW from, NEW group, NEW to, Relocated(from, group, to)
  PROVE  LoadsInv'
<1>1. /\ from \in Ids /\ from # Outside /\ alias[from] = from /\ members[from] # {} /\ from < next
      /\ to \in Ids /\ to # Outside /\ alias[to] = to /\ (members[to] # {} \/ to = next)
      /\ (to # next => to < next) /\ to # from
  <2>1. from \in InApp /\ to \in Screens /\ to # from
    BY DEF Relocated
  <2> QED BY <2>1, InAppAre, ScreensAre
<1> DEFINE ms == [members EXCEPT ![from] = @ \ group, ![to] = @ \cup group]
<1>2. /\ phase' = phase /\ ~Growing /\ ~Growing' /\ UNCHANGED <<alias, log, trail, screens>>
      /\ members' = ms /\ edges' = Reassigned(from, ms)
      /\ next' = IF to = next THEN next + 1 ELSE next
      /\ apart' = [apart EXCEPT ![from] = @ \ group]
      /\ group # {} /\ group \subseteq apart[from]
  BY DEF Relocated, Relocate, Numbered, Growing
<1>3. NodesHold /\ NodesHaveMembers /\ HomesHold /\ LogHolds
  BY DEF LoadsInv
<1>4. /\ members \in [Ids -> SUBSET (1..Seen)] /\ alias \in [Ids -> Ids] /\ Seen' = Seen
      /\ apart \in [Ids -> SUBSET (1..Seen)] /\ group \subseteq members[from]
      /\ \A n \in Ids : ms[n] = IF n = from THEN members[from] \ group
                                ELSE IF n = to THEN members[to] \cup group ELSE members[n]
      /\ members' \in [Ids -> SUBSET (1..Seen)]
      /\ \A n \in Ids : apart'[n] = IF n = from THEN apart[from] \ group ELSE apart[n]
      /\ apart' \in [Ids -> SUBSET (1..Seen)]
  <2>1. /\ members \in [Ids -> SUBSET (1..Seen)] /\ alias \in [Ids -> Ids] /\ Seen' = Seen
        /\ apart \in [Ids -> SUBSET (1..Seen)] /\ group \subseteq members[from]
        /\ group \subseteq 1..Seen
    BY <1>1, <1>2, <1>3 DEF NodesHold, HomesHold, Seen
  <2>2. \A n \in Ids : ms[n] = IF n = from THEN members[from] \ group
                              ELSE IF n = to THEN members[to] \cup group ELSE members[n]
    BY <1>1, <2>1
  <2>3. ms \in [Ids -> SUBSET (1..Seen)]
    BY <1>1, <2>1
  <2>4. \A n \in Ids : apart'[n] = IF n = from THEN apart[from] \ group ELSE apart[n]
    BY <1>1, <1>2, <2>1
  <2>5. apart' \in [Ids -> SUBSET (1..Seen)]
    BY <1>1, <1>2, <2>1
  <2> QED BY <1>2, <2>1, <2>2, <2>3, <2>4, <2>5
<1>h. members[from] \ apart[from] # {} /\ ms[from] # {} /\ ms[to] # {}
  BY <1>1, <1>2, <1>3, <1>4 DEF HomesHold
<1>5. \A n \in Ids : members[n] # {} => ms[n] # {}
  BY <1>4, <1>h
<1>n. /\ next \in 1..(MaxNode + 1) /\ next' \in 1..(MaxNode + 1) /\ MaxNode \in Nat
      /\ \A n \in Ids : n \in Int /\ n <= MaxNode
      /\ next' >= next /\ (to = next => next' = next + 1)
  <2>1. MaxNode \in Nat /\ next \in 1..(MaxNode + 1)
    BY <1>3, EdgesAssumption DEF NodesHold
  <2>2. \A n \in Ids : n \in Int /\ n <= MaxNode
    BY <2>1 DEF Ids
  <2> QED BY <1>1, <1>2, <2>1, <2>2
<1>o. Outside \in Ids /\ ms[Outside] = members[Outside]
  <2>1. Outside \in Ids
    BY <1>n DEF Outside, Ids
  <2> QED BY <1>1, <1>4, <2>1
<1>6. NodesHold'
  <2>1. \A n \in Ids : n >= next' => members'[n] = {} /\ alias'[n] = n
    <3> SUFFICES ASSUME NEW n \in Ids, n >= next' PROVE ms[n] = {} /\ alias[n] = n
      BY <1>2
    <3>1. n # to /\ n # from /\ n >= next
      BY <1>1, <1>n
    <3> QED BY <1>3, <1>4, <3>1 DEF NodesHold
  <2> QED BY <1>2, <1>3, <1>4, <1>n, <2>1 DEF NodesHold
<1>7. NodesHaveMembers'
  <2>1. \A n \in Ids : ms[n] # {} => alias[n] = n
    BY <1>1, <1>3, <1>4 DEF NodesHaveMembers
  <2>2. \A n \in Ids : alias[n] < next' => ms[alias[n]] # {} \/ alias[n] = Outside
    <3> SUFFICES ASSUME NEW n \in Ids, alias[n] < next'
                 PROVE  ms[alias[n]] # {} \/ alias[n] = Outside
      OBVIOUS
    <3>1. alias[n] \in Ids /\ alias[n] \in Int
      BY <1>4, <1>n
    <3>2. CASE alias[n] = to
      BY <1>h, <3>2
    <3>3. CASE alias[n] # to
      <4>1. alias[n] < next
        BY <1>1, <1>2, <1>n, <3>1, <3>3
      <4> QED BY <1>3, <1>5, <3>1, <4>1 DEF NodesHaveMembers
    <3> QED BY <3>2, <3>3
  <2>3. \A n, m \in Ids : n # m => ms[n] \cap ms[m] = {}
    <3> SUFFICES ASSUME NEW n \in Ids, NEW m \in Ids, n # m, NEW p \in ms[n], p \in ms[m]
                 PROVE  FALSE
      OBVIOUS
    <3>1. \A i, j \in Ids : p \in members[i] /\ p \in members[j] => i = j
      BY <1>3 DEF NodesHaveMembers
    <3> QED BY <1>1, <1>4, <3>1
  <2> QED BY <1>2, <2>1, <2>2, <2>3 DEF NodesHaveMembers
<1>8. PositionHolds'
  BY <1>2 DEF PositionHolds
<1>9. HomesHold'
  <2>1. \A n \in Ids : apart'[n] \subseteq ms[n]
    BY <1>3, <1>4 DEF HomesHold
  <2>2. \A n \in Ids : ms[n] # {} => ms[n] \ apart'[n] # {}
    <3> SUFFICES ASSUME NEW n \in Ids, ms[n] # {} PROVE ms[n] \ apart'[n] # {}
      OBVIOUS
    <3>1. CASE n = from
      BY <1>4, <1>h, <1>2, <3>1
    <3>2. CASE n = to
      <4>1. group \cap apart[to] = {}
        BY <1>1, <1>3, <1>4 DEF NodesHaveMembers, HomesHold
      <4> QED BY <1>1, <1>2, <1>4, <3>2, <4>1
    <3>3. CASE n # from /\ n # to
      BY <1>3, <1>4, <3>3 DEF HomesHold
    <3> QED BY <3>1, <3>2, <3>3
  <2> QED BY <1>2, <1>4, <2>1, <2>2 DEF HomesHold
<1>10. LogHolds'
  <2>1. \A t \in DOMAIN log : alias[log[t].from] \in Ids /\ alias[log[t].to] \in Ids
    BY <1>3 DEF LogHolds, NodesHold
  <2>2. ASSUME NEW o, \A n \in Ids : o \in members[n] => n = Outside
        PROVE  \A n \in Ids : o \in ms[n] => n = Outside
    <3>1. o \notin group
      BY <1>1, <1>4, <2>2
    <3> QED BY <1>1, <1>4, <2>2, <3>1
  <2>3. \A t \in DOMAIN log : alias[log[t].from] = Outside =>
          \A n \in Ids : log[t].before \in ms[n] => n = Outside
    BY <1>3, <2>2 DEF LogHolds
  <2> QED BY <1>2, <1>3, <1>4, <1>5, <1>o, <2>1, <2>3 DEF LogHolds
<1>11. Listed(members) = Listed(ms)
  <2>1. ASSUME NEW n \in Ids, NEW p \in members[n] PROVE p \in Listed(ms)
    BY <1>1, <1>4, <2>1 DEF Listed
  <2>2. ASSUME NEW n \in Ids, NEW p \in ms[n] PROVE p \in Listed(members)
    BY <1>1, <1>4, <2>2 DEF Listed
  <2> QED BY <2>1, <2>2 DEF Listed
<1>e. /\ DOMAIN edges \subseteq Ids \X Ids /\ PreparedAll(edges) /\ MaxNode \in Nat
      /\ \A e \in DOMAIN edges :
           edges[e].actions # <<>> /\ members[e[1]] # {} /\ members[e[2]] # {} /\ e[1] # Outside
  BY <1>n DEF LoadsInv, EdgesHold
<1> HIDE DEF ms
\* The ends a transition gives are nodes that are there.
<1>12. ASSUME NEW t \in DOMAIN log
       PROVE  LET e == Ends(ms, t)
              IN e \in Ids \X Ids /\ ms[e[1]] # {} /\ ms[e[2]] # {}
  <2>1. \A o : \A r \in Ids : ms[alias[r]] # {} =>
          NodeOf(ms, o, r) \in Ids /\ ms[NodeOf(ms, o, r)] # {}
    <3> TAKE o
    <3> TAKE r \in Ids
    <3> HAVE ms[alias[r]] # {}
    <3> DEFINE listed == {n \in Ids : o \in ms[n]}
    <3>1. NodeOf(ms, o, r) = IF listed = {} THEN alias[r] ELSE CHOOSE n \in listed : TRUE
      BY DEF NodeOf
    <3>2. CASE listed = {}
      BY <1>4, <3>1, <3>2
    <3>3. CASE listed # {}
      BY <3>1, <3>3
    <3> QED BY <3>2, <3>3
  <2>2. /\ log[t].from \in Ids /\ log[t].to \in Ids
        /\ members[alias[log[t].from]] # {} /\ members[alias[log[t].to]] # {}
    BY <1>3 DEF LogHolds
  <2>3. alias[log[t].from] \in Ids /\ alias[log[t].to] \in Ids
    BY <1>4, <2>2
  <2>4. ms[alias[log[t].from]] # {} /\ ms[alias[log[t].to]] # {}
    BY <1>5, <2>2, <2>3
  <2>5. /\ NodeOf(ms, log[t].before, log[t].from) \in Ids
        /\ ms[NodeOf(ms, log[t].before, log[t].from)] # {}
    BY <2>1, <2>2, <2>4
  <2>6. /\ NodeOf(ms, log[t].after, log[t].to) \in Ids
        /\ ms[NodeOf(ms, log[t].after, log[t].to)] # {}
    BY <2>1, <2>2, <2>4
  <2> QED BY <2>5, <2>6 DEF Ends
\* A transition that starts inside the app still does.
<1>i. \A t \in DOMAIN log : Ends(members, t)[1] # Outside => Ends(ms, t)[1] # Outside
  <2> TAKE t \in DOMAIN log
  <2>1. Ends(members, t)[1] # Outside => alias[log[t].from] # Outside
    BY SourceInside DEF LoadsInv
  <2>2. ms = members' /\ LogHolds'
    BY <1>2, <1>10
  <2>3. alias[log[t].from] # Outside => Ends(ms, t)[1] # Outside
    <3>1. alias[log[t].from] # Outside => log[t].before \notin ms[Outside]
      BY <1>2, <2>2 DEF LogHolds
    <3>2. Ends(ms, t)[1] = NodeOf(ms, log[t].before, log[t].from)
      BY DEF Ends
    <3> DEFINE listed == {n \in Ids : log[t].before \in ms[n]}
    <3>3. Ends(ms, t)[1] = IF listed = {} THEN alias[log[t].from] ELSE CHOOSE n \in listed : TRUE
      BY <3>2 DEF NodeOf
    <3>4. listed # {} => (CHOOSE n \in listed : TRUE) \in listed
      OBVIOUS
    <3> QED BY <3>1, <3>3, <3>4
  <2> QED BY <2>1, <2>3
<1>r. /\ edges' = [e \in DOMAIN edges' |-> edges'[e]]
      /\ \A e : e \in DOMAIN edges' <=> Stays(from, ms, e) \cup Comes(from, ms, e) # {}
      /\ PreparedAll(edges')
      /\ \A e \in DOMAIN edges' :
           /\ edges'[e].actions # <<>>
           /\ \A i \in DOMAIN edges'[e].actions :
                \E slot \in Stays(from, ms, e) \cup Comes(from, ms, e) :
                  Same(edges'[e], i, edges[slot[1]], slot[2])
      /\ \A e : \A slot \in Stays(from, ms, e) \cup Comes(from, ms, e) :
           slot[1] \in DOMAIN edges /\ slot[2] \in DOMAIN edges[slot[1]].actions
  BY <1>2, <1>e, ReassignedParts
<1>13. EdgesHold(edges', members')
  <2> SUFFICES ASSUME NEW e \in DOMAIN edges'
        PROVE  e \in Ids \X Ids /\ ms[e[1]] # {} /\ ms[e[2]] # {} /\ e[1] # Outside
    BY <1>2, <1>r DEF EdgesHold
  <2>1. PICK slot \in Stays(from, ms, e) \cup Comes(from, ms, e) : TRUE
    BY <1>r
  <2>2. CASE e \in Now(ms, slot)
    <3>1. PICK t \in DOMAIN log : e = Ends(ms, t) /\ Ends(members, t) = slot[1]
      BY <2>2 DEF Now, Backing
    <3>2. slot[1] \in DOMAIN edges
      BY <1>r, <2>1
    <3>3. Ends(members, t)[1] # Outside
      BY <1>e, <3>1, <3>2
    <3> QED BY <1>12, <1>i, <3>1, <3>3
  <2>3. CASE slot \in EntriesOf(e)
    <3>1. e \in DOMAIN edges
      BY <1>e, <2>3, EntriesAre
    <3>2. e[1] \in Ids /\ e[2] \in Ids /\ e \in Ids \X Ids
      BY <1>e, <3>1
    <3> QED BY <1>5, <1>e, <3>1, <3>2
  <2> QED BY <2>1, <2>2, <2>3 DEF Stays, Comes
<1>14. AnchorsHold(edges', Listed(members'))
  <2> DEFINE L == Listed(members)
  <2>0. L = Listed(members')
    BY <1>2, <1>11
  <2>1. AnchorsHold(edges, L)
    BY DEF LoadsInv
  <2> HIDE DEF L
  <2> SUFFICES ASSUME NEW e \in DOMAIN edges', NEW i \in DOMAIN edges'[e].actions
        PROVE  Anchored(edges'[e], i, L)
    BY <2>0 DEF AnchorsHold
  <2>2. PICK slot \in Stays(from, ms, e) \cup Comes(from, ms, e) :
          Same(edges'[e], i, edges[slot[1]], slot[2])
    BY <1>r
  <2>3. Anchored(edges[slot[1]], slot[2], L)
    BY <1>r, <2>1 DEF AnchorsHold
  <2> QED BY <2>2, <2>3, SameAnchored
<1>15. TrailHolds(trail', Listed(members'))
  BY <1>2, <1>11 DEF LoadsInv
<1> QED BY <1>6, <1>7, <1>8, <1>9, <1>10, <1>13, <1>14, <1>15 DEF LoadsInv

-----------------------------------------------------------------------------
(* LoadsInv is inductive, and what is saved loads again.                   *)

LEMMA BeginChecksLoads ==
  ASSUME LoadsInv, NEW outside, BeginChecks(outside)
  PROVE  LoadsInv'
<1>1. /\ phase' = "split" /\ UNCHANGED <<members, alias, next, edges, log>> /\ ~Growing'
      /\ trail' = [sent |-> <<>>, arrivals |-> <<>>]
      /\ screens' = [o \in DOMAIN screens |-> screens[1]]
      /\ \A n \in InApp : ~(members[n] \subseteq outside)
      /\ apart' = [n \in Ids |-> IF n \in InApp THEN members[n] \cap outside ELSE {}]
  BY DEF BeginChecks, graphVars, Growing
<1>2. ASeq(screens') /\ Seen' = Seen /\ Seen \in Nat
  <2>1. ASeq(screens) /\ Seen \in Nat /\ DOMAIN screens = 1..Seen
    BY SeqParts DEF LoadsInv, NodesHold, Seen
  <2>2. screens' = [o \in 1..Seen |-> screens[1]]
    BY <1>1, <2>1
  <2>3. ASeq(screens') /\ Len(screens') = Seen
    BY <2>1, <2>2, ListIsSeq
  <2> QED BY <2>1, <2>3 DEF Seen
<1>3. HomesHold'
  BY <1>1, <1>2 DEF HomesHold, InApp, LoadsInv, NodesHold
<1>4. NodesHold' /\ NodesHaveMembers' /\ PositionHolds' /\ LogHolds'
  BY <1>1, <1>2 DEF LoadsInv, NodesHold, NodesHaveMembers, PositionHolds, LogHolds
<1>5. TrailHolds(trail', Listed(members))
  BY <1>1, EmptySeq DEF TrailHolds, ASeq
<1> QED BY <1>1, <1>3, <1>4, <1>5 DEF LoadsInv

LEMMA PhaseLoads ==
  ASSUME LoadsInv, BeginMoves \/ EndChecks \/ UNCHANGED vars
  PROVE  LoadsInv'
<1>1. /\ UNCHANGED <<at, members, alias, next, edges, log, trail, screens>>
      /\ \/ apart' = apart \/ apart' = [n \in Ids |-> {}]
      /\ phase' \in {"move", "done"} \/ UNCHANGED <<phase, apart>>
  BY DEF BeginMoves, EndChecks, vars, graphVars
<1>2. Seen' = Seen
  BY <1>1 DEF Seen
<1>3. HomesHold'
  <2>1. CASE phase' = phase /\ apart' = apart
    BY <1>1, <1>2, <2>1 DEF LoadsInv, HomesHold, Growing
  <2>2. CASE phase' \in {"move", "done"} /\ apart' = apart
    BY <1>1, <1>2, <2>2 DEF LoadsInv, HomesHold, Growing
  <2>3. CASE phase' \in {"move", "done"} /\ apart' = [n \in Ids |-> {}]
    BY <1>1, <1>2, <2>3 DEF LoadsInv, HomesHold, Growing
  <2> QED BY <1>1, <2>1, <2>2, <2>3
<1>4. PositionHolds'
  <2>1. CASE phase' \in {"move", "done"}
    BY <2>1 DEF PositionHolds, Growing
  <2>2. CASE phase' = phase
    BY <1>1, <1>2, <2>2 DEF LoadsInv, PositionHolds, Growing
  <2> QED BY <1>1, <2>1, <2>2
<1>5. NodesHold' /\ NodesHaveMembers' /\ LogHolds'
  BY <1>1, <1>2 DEF LoadsInv, NodesHold, NodesHaveMembers, LogHolds
<1> QED BY <1>1, <1>3, <1>4, <1>5 DEF LoadsInv

LEMMA SplitRelocates ==
  ASSUME LoadsInv, NEW n \in InApp, NEW group \in SUBSET apart[n], Split(n, group)
  PROVE  Relocated(n, group, next)
<1>1. next \in Screens /\ next # n
  <2>1. next <= MaxNode /\ n < next /\ n \in Int
    BY InAppAre DEF Split, Ids
  <2> QED BY <2>1 DEF Screens
<1>2. group # {}
  BY FS_EmptySet DEF Split
<1> QED BY <1>1, <1>2 DEF Split, Relocated

LEMMA SplitLoads ==
  ASSUME LoadsInv, NEW n \in InApp, NEW group \in SUBSET apart[n], Split(n, group)
  PROVE  LoadsInv'
BY SplitRelocates, RelocatedHolds

LEMMA MoveLoads ==
  ASSUME LoadsInv, NEW n \in InApp, NEW o \in apart[n], NEW to \in Screens, Move(n, o, to)
  PROVE  LoadsInv'
<1>1. Relocated(n, {o}, to)
  BY DEF Move, Relocated
<1> QED BY <1>1, RelocatedHolds

LEMMA InitLoads ==
  ASSUME Init
  PROVE  LoadsInv
<1> PICK first \in {1, Outside}, s \in States :
    /\ phase \in {"explore", "build"} /\ at = [node |-> first, observation |-> 1]
    /\ members = [n \in Ids |-> IF n = first THEN {1} ELSE {}]
    /\ alias = [n \in Ids |-> n] /\ next = IF first = 1 THEN 2 ELSE 1
    /\ edges = <<>> /\ log = <<>> /\ trail = Begun(first, s, TRUE, 1)
    /\ apart = [n \in Ids |-> {}]
    /\ screens = << [node |-> first, state |-> s] >>
  BY DEF Init
<1>1. /\ 1 \in Ids /\ Outside \in Ids /\ Outside = 0 /\ first \in Ids
      /\ next \in 1..(MaxNode + 1) /\ \A n \in Ids : n \in Nat
  <2>1. MaxNode \in Nat \ {0}
    BY EdgesAssumption
  <2> QED BY <2>1 DEF Ids, Outside
<1>2. ASeq(screens) /\ Seen = 1
  <2>1. screens \in Seq({[node |-> first, state |-> s]})
    OBVIOUS
  <2> QED BY <2>1 DEF ASeq, Seen
<1>3. ASeq(log) /\ DOMAIN log = {} /\ DOMAIN edges = {}
  BY EmptySeq DEF ASeq
<1>m. /\ \A n \in Ids : members[n] = (IF n = first THEN {1} ELSE {}) /\ alias[n] = n
      /\ 1 \in 1..Seen /\ alias \in [Ids -> Ids]
  BY <1>2
<1>4. NodesHold /\ NodesHaveMembers
  <2>1. members \in [Ids -> SUBSET (1..Seen)]
    BY <1>m
  <2>2. \A n \in Ids : n >= next => n # first
    BY <1>1
  <2>3. NodesHold
    BY <1>1, <1>2, <1>m, <2>1, <2>2 DEF NodesHold
  <2>4. \A n \in Ids : n < next => n = Outside \/ n = first
    BY <1>1
  <2>5. NodesHaveMembers
    BY <1>m, <2>4 DEF NodesHaveMembers
  <2> QED BY <2>3, <2>5
<1>5. PositionHolds
  <2>1. /\ at.node = first /\ at.observation = 1
        /\ at = [node |-> at.node, observation |-> at.observation]
    OBVIOUS
  <2>2. members[first] = {1} /\ \A n \in Ids : 1 \in members[n] => n = first
    BY <1>1, <1>m
  <2> QED BY <1>1, <1>m, <2>1, <2>2 DEF PositionHolds
<1>6. HomesHold /\ LogHolds
  BY <1>1, <1>2, <1>3 DEF HomesHold, LogHolds
<1>7. EdgesHold(edges, members) /\ AnchorsHold(edges, Listed(members))
  <2>1. edges = [e \in DOMAIN edges |-> edges[e]]
    <3>1. edges \in Seq({})
      BY EmptySeq
    <3> QED BY <1>3, <3>1
  <2> QED BY <1>3, <2>1 DEF EdgesHold, AnchorsHold, PreparedAll
<1>8. TrailHolds(trail, Listed(members))
  <2>1. 1 \in Listed(members) /\ trail = Begun(first, s, TRUE, 1)
    BY <1>1, <1>m DEF Listed
  <2> QED BY <2>1, BegunHolds
<1> QED BY <1>4, <1>5, <1>6, <1>7, <1>8 DEF LoadsInv

LEMMA ExploreLoads ==
  ASSUME LoadsInv, Explore
  PROVE  LoadsInv'
<1>1. ASSUME NEW n \in Screens, NEW s \in States, NEW a \in Actions, Step(a, n, s) PROVE LoadsInv'
  BY <1>1, StepLoads
<1>2. ASSUME NEW n \in Screens \cup {Outside}, NEW s \in States, NEW a \in Actions,
             StepOutside(a, n, s)
      PROVE  LoadsInv'
  BY <1>2, StepOutsideLoads
<1>3. ASSUME NEW n \in Screens \cup {Outside}, NEW s \in States, NEW known \in BOOLEAN,
             Arrive(n, s, known)
      PROVE  LoadsInv'
  BY <1>3, ArriveLoads
<1>4. ASSUME NEW n \in Screens \cup {Outside}, NEW s \in States, OverlayStep(n, s) PROVE LoadsInv'
  BY <1>4, OverlayStepLoads
<1> QED BY <1>1, <1>2, <1>3, <1>4 DEF Explore

LEMMA BuildLoads ==
  ASSUME LoadsInv, Build
  PROVE  LoadsInv'
<1>1. ASSUME NEW n \in Screens, NEW s \in States, NEW a \in Actions, BuildStep(a, n, s)
      PROVE  LoadsInv'
  BY <1>1, BuildStepLoads
<1>2. ASSUME NEW n \in Screens \cup {Outside}, NEW s \in States, NEW a \in Actions,
             BuildStepOutside(a, n, s)
      PROVE  LoadsInv'
  BY <1>2, BuildStepOutsideLoads
<1>3. ASSUME NEW n \in Screens \cup {Outside}, NEW s \in States, NEW known \in BOOLEAN,
             Match(n, s, known)
      PROVE  LoadsInv'
  BY <1>3, MatchLoads
<1> QED BY <1>1, <1>2, <1>3 DEF Build

LEMMA NextLoads ==
  ASSUME LoadsInv, [BuildNext]_buildVars
  PROVE  LoadsInv'
<1>1. CASE Explore
  BY <1>1, ExploreLoads
<1>2. CASE Build
  BY <1>2, BuildLoads
<1>4. CASE Wait
  BY <1>4, WaitLoads
<1>5. ASSUME NEW n \in InApp, NEW m \in InApp, Merge(n, m) PROVE LoadsInv'
  BY <1>5, MergeLoads
<1>6. ASSUME NEW outside, BeginChecks(outside) PROVE LoadsInv'
  BY <1>6, BeginChecksLoads
<1>7. ASSUME NEW n \in InApp, NEW group \in SUBSET apart[n], Split(n, group) PROVE LoadsInv'
  BY <1>7, SplitLoads
<1>8. ASSUME NEW n \in InApp, NEW o \in apart[n], NEW to \in Screens, Move(n, o, to) PROVE LoadsInv'
  BY <1>8, MoveLoads
<1>9. CASE BeginMoves \/ EndChecks \/ Done \/ UNCHANGED buildVars
  BY <1>9, PhaseLoads DEF Done, buildVars
<1> QED BY <1>1, <1>2, <1>4, <1>5, <1>6, <1>7, <1>8, <1>9 DEF BuildNext, Next

LEMMA LoadsInvGives ==
  ASSUME LoadsInv
  PROVE  GraphLoads
<1>1. EdgesAreWhole
  <2> SUFFICES ASSUME NEW e \in DOMAIN edges, NEW list \in DOMAIN edges[e]
               PROVE  Len(edges[e][list]) = Len(edges[e].actions)
    BY DEF LoadsInv, EdgesHold, EdgesAreWhole
  <2> DEFINE x == edges[e]
  <2>1. Whole(x) /\ list \in DOMAIN x
    BY DEF LoadsInv, EdgesHold, PreparedAll, Prepared
  <2> HIDE DEF x
  <2>2. DOMAIN x = {"actions", "setups", "anchors", "sources", "alternatives"}
    <3>1. x = [actions |-> x.actions, setups |-> x.setups, anchors |-> x.anchors,
               sources |-> x.sources, alternatives |-> x.alternatives]
      BY <2>1 DEF Whole
    <3> QED BY <3>1
  <2>3. Len(x[list]) = Len(x.actions)
    BY <2>1, <2>2 DEF Whole
  <2> QED BY <2>3 DEF x
<1>2. AnchorsAreMembers
  <2> SUFFICES ASSUME NEW e \in DOMAIN edges, NEW i \in DOMAIN edges[e].actions
               PROVE  /\ edges[e].anchors[i] # NoObservation =>
                           Known(edges[e].setups[i]) /\ \E n \in Ids : edges[e].anchors[i] \in members[n]
                      /\ \A j \in DOMAIN edges[e].alternatives[i] :
                           \E n \in Ids : edges[e].alternatives[i][j].observation \in members[n]
    BY DEF AnchorsAreMembers
  <2>1. Anchored(edges[e], i, Listed(members))
    BY DEF LoadsInv, AnchorsHold
  <2> QED BY <2>1 DEF Anchored, Listed
<1> QED BY <1>1, <1>2 DEF GraphLoads, LoadsInv

\* GraphLoads: whatever is explored or built, merged, split and moved, the graph can be saved
\* and loads again, and each member has one node.
THEOREM AlwaysLoads == BuildSpec => []GraphLoads
<1>1. BuildInit => LoadsInv
  BY InitLoads DEF BuildInit
<1>2. LoadsInv /\ [BuildNext]_buildVars => LoadsInv'
  BY NextLoads
<1>3. LoadsInv => GraphLoads
  BY LoadsInvGives
<1> QED BY <1>1, <1>2, <1>3, PTL DEF BuildSpec

-----------------------------------------------------------------------------
(* The edges are the transitions.                                          *)

\* No action is twice on an edge.
Singly(es) ==
  \A e \in DOMAIN es : \A i, j \in DOMAIN es[e].actions :
    es[e].actions[i] = es[e].actions[j] => i = j

\* Action a is on edge e, if an edge may lead out of its source.
OnEdge(es, e, a) ==
  e[1] # Outside => e \in DOMAIN es /\ \E i \in DOMAIN es[e].actions : es[e].actions[i] = a

\* Every transition is on the edge between its ends, and every action is of a transition.
OnTheirEdges(es, ms) == \A t \in DOMAIN log : OnEdge(es, Ends(ms, t), log[t].action)
OfTransitions(es, ms) ==
  \A e \in DOMAIN es : \A i \in DOMAIN es[e].actions :
    \E t \in DOMAIN log : Ends(ms, t) = e /\ log[t].action = es[e].actions[i]

\* Until members are moved, a screen is on the node it was recorded with.
ListedAsRecorded ==
  Growing =>
    \A t \in DOMAIN log : \A n \in Ids :
      /\ log[t].before \in members[n] => n = alias[log[t].from]
      /\ log[t].after \in members[n] => n = alias[log[t].to]

KeptInv == LoadsInv /\ ListedAsRecorded /\ OnTheirEdges(edges, members)
TransitionsInv == KeptInv /\ Singly(edges) /\ OfTransitions(edges, members)

LEMMA KeptInvGives == KeptInv => NoTransitionIsLost
<1> SUFFICES ASSUME KeptInv, NEW t \in DOMAIN log, Ends(members, t)[1] # Outside
             PROVE  /\ Ends(members, t) \in DOMAIN edges
                    /\ log[t].action \in ToSet(edges[Ends(members, t)].actions)
  BY DEF NoTransitionIsLost
<1> QED BY DEF KeptInv, OnTheirEdges, OnEdge, ToSet

LEMMA NodeOfIs ==
  ASSUME NEW ms, \A n, m \in Ids : n # m => ms[n] \cap ms[m] = {}, NEW o, NEW r
  PROVE  /\ \A n \in Ids : o \in ms[n] => NodeOf(ms, o, r) = n
         /\ (\A n \in Ids : o \notin ms[n]) => NodeOf(ms, o, r) = alias[r]
<1> DEFINE listed == {n \in Ids : o \in ms[n]}
<1>1. NodeOf(ms, o, r) = IF listed = {} THEN alias[r] ELSE CHOOSE n \in listed : TRUE
  BY DEF NodeOf
<1>2. ASSUME NEW n \in Ids, o \in ms[n] PROVE NodeOf(ms, o, r) = n
  <2>1. listed = {n}
    BY <1>2
  <2> HIDE DEF listed
  <2> QED BY <1>1, <2>1
<1>3. ASSUME \A n \in Ids : o \notin ms[n] PROVE NodeOf(ms, o, r) = alias[r]
  BY <1>1, <1>3
<1> QED BY <1>2, <1>3

\* While the graph grows, the ends are what the merged nodes are called now.
LEMMA EndsAre ==
  ASSUME LoadsInv, ListedAsRecorded, Growing, NEW t \in DOMAIN log
  PROVE  Ends(members, t) = <<alias[log[t].from], alias[log[t].to]>>
<1>1. \A n, m \in Ids : n # m => members[n] \cap members[m] = {}
  BY DEF LoadsInv, NodesHaveMembers
<1>2. NodeOf(members, log[t].before, log[t].from) = alias[log[t].from]
  BY <1>1, NodeOfIs DEF ListedAsRecorded
<1>3. NodeOf(members, log[t].after, log[t].to) = alias[log[t].to]
  BY <1>1, NodeOfIs DEF ListedAsRecorded
<1> QED BY <1>2, <1>3 DEF Ends

LEMMA SinglyIndexed ==
  ASSUME NEW es, PreparedAll(es), Singly(es), NEW e \in DOMAIN es, NEW i \in DOMAIN es[e].actions
  PROVE  IndexOf(es[e], es[e].actions[i]) = i
<1>1. Whole(es[e])
  BY DEF PreparedAll, Prepared
<1> DEFINE k == IndexOf(es[e], es[e].actions[i])
<1>2. \/ k = 0 /\ \A j \in DOMAIN es[e].actions : es[e].actions[j] # es[e].actions[i]
      \/ k \in DOMAIN es[e].actions /\ es[e].actions[k] = es[e].actions[i]
  BY <1>1, IndexIs
<1> HIDE DEF k
<1> QED BY <1>2 DEF Singly, k

\* The transitions, as the graph they make up.
Mapped == [t \in DOMAIN log |-> [source |-> Ends(members, t)[1], action |-> log[t].action,
                                 target |-> Ends(members, t)[2]]]
Related == UNION {{<<e[1], a, e[2]>> : a \in ToSet(edges[e].actions)} : e \in DOMAIN edges}

LEMMA RelatedIs ==
  ASSUME LoadsInv, OnTheirEdges(edges, members), OfTransitions(edges, members)
  PROVE  Related = Transitions!RelationOf(Mapped)
<1>1. \A e \in DOMAIN edges : e = <<e[1], e[2]>> /\ e[1] # Outside
  BY DEF LoadsInv, EdgesHold
<1>2. Transitions!RelationOf(Mapped) =
        {<<Ends(members, t)[1], log[t].action, Ends(members, t)[2]>> :
           t \in {u \in DOMAIN log : Ends(members, u)[1] # Outside}}
  BY DEF Transitions!RelationOf, Mapped
<1>3. ASSUME NEW e \in DOMAIN edges, NEW a \in ToSet(edges[e].actions)
      PROVE  <<e[1], a, e[2]>> \in Transitions!RelationOf(Mapped)
  <2>1. PICK i \in DOMAIN edges[e].actions : edges[e].actions[i] = a
    BY <1>3 DEF ToSet
  <2>2. PICK t \in DOMAIN log : Ends(members, t) = e /\ log[t].action = a
    BY <2>1 DEF OfTransitions
  <2> QED BY <1>1, <1>2, <2>2
<1>4. ASSUME NEW t \in DOMAIN log, Ends(members, t)[1] # Outside
      PROVE  <<Ends(members, t)[1], log[t].action, Ends(members, t)[2]>> \in Related
  <2> DEFINE e == Ends(members, t)
  <2>1. e \in DOMAIN edges /\ \E i \in DOMAIN edges[e].actions : edges[e].actions[i] = log[t].action
    BY <1>4 DEF OnTheirEdges, OnEdge
  <2>2. log[t].action \in ToSet(edges[e].actions)
    BY <2>1 DEF ToSet
  <2> HIDE DEF e
  <2>3. <<e[1], log[t].action, e[2]>> \in Related
    BY <2>1, <2>2 DEF Related
  <2> QED BY <2>3 DEF e
<1> QED BY <1>2, <1>3, <1>4 DEF Related

LEMMA MappedIs ==
  ASSUME LogHolds
  PROVE  /\ ASeq(Mapped) /\ Len(Mapped) = Len(log) /\ DOMAIN Mapped = DOMAIN log
         /\ DOMAIN log = 1..Len(log) /\ Len(log) \in Nat
<1>1. DOMAIN log = 1..Len(log) /\ Len(log) \in Nat
  BY SeqParts DEF LogHolds
<1>2. DOMAIN Mapped = DOMAIN log /\ Mapped = [t \in DOMAIN Mapped |-> Mapped[t]]
  BY DEF Mapped
<1> HIDE DEF Mapped
<1> QED BY <1>1, <1>2, ListIsSeq

-----------------------------------------------------------------------------
\* A transition taken outside the app is in the log and on no edge.
LEMMA AddedOutside ==
  ASSUME KeptInv, at.node = Outside, NEW tr, NEW action, NEW target, Record(tr, action, target),
         DOMAIN log' = DOMAIN log \cup {Len(log) + 1},
         \A t \in DOMAIN log : log'[t] = log[t],
         NEW ends,
         \A t \in DOMAIN log : ends[t] = Ends(members, t),
         ends[Len(log) + 1] = <<at.node, target>>
  PROVE  /\ Singly(edges) => Singly(edges')
         /\ \A t \in DOMAIN log' : OnEdge(edges', ends[t], log'[t].action)
         /\ OfTransitions(edges, members) =>
              \A e \in DOMAIN edges' : \A i \in DOMAIN edges'[e].actions :
                \E t \in DOMAIN log' : ends[t] = e /\ log'[t].action = edges'[e].actions[i]
<1>1. edges' = edges
  BY DEF Record
<1>2. ASSUME NEW t \in DOMAIN log' PROVE OnEdge(edges, ends[t], log'[t].action)
  <2>1. CASE t \in DOMAIN log
    <3>1. ends[t] = Ends(members, t) /\ log'[t] = log[t]
      BY <2>1
    <3>2. OnEdge(edges, Ends(members, t), log[t].action)
      BY <2>1 DEF KeptInv, OnTheirEdges
    <3> QED BY <3>1, <3>2
  <2>2. CASE t = Len(log) + 1
    <3>1. ends[t][1] = Outside
      BY <2>2
    <3> QED BY <3>1 DEF OnEdge
  <2> QED BY <2>1, <2>2
<1>3. ASSUME OfTransitions(edges, members), NEW e \in DOMAIN edges, NEW i \in DOMAIN edges[e].actions
      PROVE  \E t \in DOMAIN log' : ends[t] = e /\ log'[t].action = edges[e].actions[i]
  <2>1. PICK t \in DOMAIN log : Ends(members, t) = e /\ log[t].action = edges[e].actions[i]
    BY <1>3 DEF OfTransitions
  <2> QED BY <2>1
<1> QED BY <1>1, <1>2, <1>3

\* A step adds its own transition to the graph and nothing else.
LEMMA AddedTransitions ==
  ASSUME KeptInv, at.node # Outside, NEW tr, NEW action, NEW target, Record(tr, action, target),
         DOMAIN log' = DOMAIN log \cup {Len(log) + 1},
         Len(log) + 1 \notin DOMAIN log,
         \A t \in DOMAIN log : log'[t] = log[t],
         log'[Len(log) + 1].action = action,
         NEW ends,
         \A t \in DOMAIN log : ends[t] = Ends(members, t),
         ends[Len(log) + 1] = <<at.node, target>>
  PROVE  /\ Singly(edges) => Singly(edges')
         /\ \A t \in DOMAIN log' : OnEdge(edges', ends[t], log'[t].action)
         /\ OfTransitions(edges, members) =>
              \A e \in DOMAIN edges' : \A i \in DOMAIN edges'[e].actions :
                \E t \in DOMAIN log' : ends[t] = e /\ log'[t].action = edges'[e].actions[i]
<1> DEFINE sent == Recorded(Setup(tr, alias, at.node))
           anchor == IF sent = Unknown THEN NoObservation
                     ELSE SetupObservation(tr, alias, at.node)
           setup == [sent |-> sent, step |-> Len(log) + 1]
           e == <<at.node, target>>
           x == EdgeOf(edges, e)
           T == Len(log) + 1
<1>1. edges' = AddEdge(edges, e, action, setup, anchor, at.observation)
  BY DEF Record
<1> HIDE DEF sent, anchor, setup, e
<1>2. PreparedAll(edges) /\ x = EdgeOf(edges, e)
  BY DEF KeptInv, LoadsInv, EdgesHold
<1>3. /\ Prepared(x)
      /\ e \in DOMAIN edges => x = edges[e]
      /\ DOMAIN x.actions # {} => e \in DOMAIN edges
  BY <1>2, EdgeOfPrepared
<1> HIDE DEF x
<1>4. Added(edges', edges, e, x, action, setup, anchor)
  BY <1>1, <1>2, AddEdgeParts
<1>5. /\ DOMAIN edges' = DOMAIN edges \cup {e}
      /\ \A f \in DOMAIN edges : f # e => edges'[f] = edges[f]
      /\ edges'[e].actions = IF IndexOf(x, action) = 0 THEN x.actions \o <<action>> ELSE x.actions
      /\ \E i \in DOMAIN edges'[e].actions : edges'[e].actions[i] = action
      /\ \A i \in DOMAIN x.actions : \E j \in DOMAIN edges'[e].actions :
           edges'[e].actions[j] = x.actions[i]
      /\ \A i \in DOMAIN edges'[e].actions : edges'[e].actions[i] = action
           \/ \E j \in DOMAIN x.actions : edges'[e].actions[i] = x.actions[j]
  BY <1>4 DEF Added
<1>6. Singly(edges) => \A i, j \in DOMAIN x.actions : x.actions[i] = x.actions[j] => i = j
  BY <1>3 DEF Singly
<1>7. ASSUME Singly(edges)
      PROVE  \A i, j \in DOMAIN edges'[e].actions :
               edges'[e].actions[i] = edges'[e].actions[j] => i = j
  <2>1. CASE IndexOf(x, action) # 0
    BY <1>5, <1>6, <1>7, <2>1
  <2>2. CASE IndexOf(x, action) = 0
    <3> DEFINE z == x.actions \o <<action>>
               n == Len(x.actions)
    <3>1. Whole(x)
      BY <1>3 DEF Prepared
    <3>2. /\ \A j \in DOMAIN x.actions : x.actions[j] # action
          /\ ASeq(x.actions) /\ DOMAIN x.actions = 1..n /\ n \in Nat
      <4>1. 0 \notin DOMAIN x.actions
        BY <3>1, WholeParts
      <4> QED BY <2>2, <3>1, <4>1, IndexIs, WholeParts DEF Whole
    <3>3. ASeq(<<action>>) /\ Len(<<action>>) = 1 /\ <<action>>[1] = action
      <4>1. <<action>> \in Seq({action})
        OBVIOUS
      <4> QED BY <4>1 DEF ASeq
    <3>4. IsConcat(z, x.actions, <<action>>)
      BY <3>2, <3>3, ConcatOf
    <3> HIDE DEF z
    <3>5. /\ ASeq(z) /\ Len(z) = n + 1 /\ z[n + 1] = action
          /\ \A i \in 1..n : z[i] = x.actions[i]
      BY <3>3, <3>4 DEF IsConcat
    <3>6. DOMAIN z = 1..(n + 1)
      BY <3>5, SeqParts
    <3>7. \A i \in 1..(n + 1) : i \in 1..n \/ i = n + 1
      BY <3>2
    <3>8. \A i, j \in 1..(n + 1) : z[i] = z[j] => i = j
      <4> HIDE DEF n
      <4> QED BY <1>6, <1>7, <3>2, <3>5, <3>7
    <3>9. edges'[e].actions = z
      BY <1>5, <2>2 DEF z
    <3> QED BY <3>6, <3>8, <3>9
  <2> QED BY <2>1, <2>2
<1>8. ASSUME Singly(edges) PROVE Singly(edges')
  <2>1. \A i, j \in DOMAIN edges'[e].actions :
          edges'[e].actions[i] = edges'[e].actions[j] => i = j
    BY <1>7, <1>8
  <2>2. ASSUME NEW f \in DOMAIN edges'
        PROVE  \A i, j \in DOMAIN edges'[f].actions :
                 edges'[f].actions[i] = edges'[f].actions[j] => i = j
    <3>1. CASE f = e
      BY <2>1, <3>1
    <3>2. CASE f # e
      <4>1. f \in DOMAIN edges /\ edges'[f] = edges[f]
        BY <1>5, <3>2
      <4> QED BY <1>8, <4>1 DEF Singly
    <3> QED BY <3>1, <3>2
  <2> QED BY <2>2 DEF Singly
<1>9. ASSUME NEW t \in DOMAIN log', ends[t][1] # Outside
      PROVE  /\ ends[t] \in DOMAIN edges'
             /\ \E i \in DOMAIN edges'[ends[t]].actions : edges'[ends[t]].actions[i] = log'[t].action
  <2>1. CASE t = T
    BY <1>5, <2>1 DEF e
  <2>2. CASE t # T
    <3>1. t \in DOMAIN log /\ log'[t] = log[t] /\ ends[t] = Ends(members, t)
      BY <2>2
    <3>2. /\ ends[t] \in DOMAIN edges
          /\ \E i \in DOMAIN edges[ends[t]].actions : edges[ends[t]].actions[i] = log[t].action
      BY <1>9, <3>1 DEF KeptInv, OnTheirEdges, OnEdge
    <3>3. CASE ends[t] = e
      <4>1. PICK i \in DOMAIN edges[e].actions : edges[e].actions[i] = log[t].action
        BY <3>2, <3>3
      <4>2. x = edges[e] /\ e \in DOMAIN edges'
        BY <1>3, <1>5, <3>2, <3>3
      <4>3. \E j \in DOMAIN edges'[e].actions : edges'[e].actions[j] = log[t].action
        BY <1>5, <4>1, <4>2
      <4> QED BY <3>1, <3>3, <4>2, <4>3
    <3>4. CASE ends[t] # e
      BY <1>5, <3>1, <3>2, <3>4
    <3> QED BY <3>3, <3>4
  <2> QED BY <2>1, <2>2
<1>10. ASSUME OfTransitions(edges, members),
              NEW f \in DOMAIN edges', NEW i \in DOMAIN edges'[f].actions
       PROVE  \E t \in DOMAIN log' : ends[t] = f /\ log'[t].action = edges'[f].actions[i]
  <2>1. \A g \in DOMAIN edges : \A j \in DOMAIN edges[g].actions :
          \E t \in DOMAIN log' : ends[t] = g /\ log'[t].action = edges[g].actions[j]
    <3> TAKE g \in DOMAIN edges
    <3> TAKE j \in DOMAIN edges[g].actions
    <3>1. PICK t \in DOMAIN log : Ends(members, t) = g /\ log[t].action = edges[g].actions[j]
      BY <1>10 DEF OfTransitions
    <3> QED BY <3>1
  <2>2. CASE f = e /\ edges'[f].actions[i] = action
    BY <2>2 DEF e
  <2>3. CASE f = e /\ \E j \in DOMAIN x.actions : edges'[f].actions[i] = x.actions[j]
    BY <1>3, <2>1, <2>3
  <2>4. CASE f # e
    BY <1>5, <2>1, <2>4
  <2>5. ASSUME f = e
        PROVE  \/ edges'[f].actions[i] = action
               \/ \E j \in DOMAIN x.actions : edges'[f].actions[i] = x.actions[j]
    <3>1. i \in DOMAIN edges'[e].actions
      BY <2>5
    <3> QED BY <1>5, <2>5, <3>1
  <2> QED BY <2>2, <2>3, <2>4, <2>5
<1>11. \A t \in DOMAIN log' : OnEdge(edges', ends[t], log'[t].action)
  BY <1>9 DEF OnEdge
<1> QED BY <1>8, <1>10, <1>11

-----------------------------------------------------------------------------
(* The steps of the abstract graph.                                        *)

\* What a step of the abstract graph is, of the transitions and the edges as mapped.
LEMMA TakeIs ==
  ASSUME Len(Mapped') = Len(Mapped) + 1, SubSeq(Mapped', 1, Len(Mapped)) = Mapped,
         Related' = Transitions!RelationOf(Mapped')
  PROVE  [Transitions!Take \/ Transitions!Regroup]_(Transitions!abstractVars)
BY DEF Transitions!Take, Mapped, Related, Transitions!RelationOf

LEMMA RegroupIs ==
  ASSUME Len(Mapped') = Len(Mapped),
         \A t \in DOMAIN Mapped : Mapped'[t].action = Mapped[t].action,
         Related' = Transitions!RelationOf(Mapped')
  PROVE  [Transitions!Take \/ Transitions!Regroup]_(Transitions!abstractVars)
BY DEF Transitions!Regroup, Mapped, Related, Transitions!RelationOf

LEMMA StutterIs ==
  ASSUME Mapped' = Mapped, Related' = Related
  PROVE  [Transitions!Take \/ Transitions!Regroup]_(Transitions!abstractVars)
BY DEF Transitions!abstractVars, Mapped, Related

LEMMA InvMaps == TransitionsInv => Len(Mapped) = Len(log) /\ Related = Transitions!RelationOf(Mapped)
BY MappedIs, RelatedIs DEF TransitionsInv, KeptInv, LoadsInv

\* Merging, splitting and moving leave the transitions' actions as they are.
LEMMA RegroupedIs ==
  ASSUME TransitionsInv, TransitionsInv', UNCHANGED log
  PROVE  [Transitions!Take \/ Transitions!Regroup]_(Transitions!abstractVars)
<1>1. /\ Len(Mapped) = Len(log) /\ DOMAIN Mapped = DOMAIN log
  BY MappedIs DEF TransitionsInv, KeptInv, LoadsInv
<1>2. Len(Mapped') = Len(log') /\ Related' = Transitions!RelationOf(Mapped')
  <2>1. (TransitionsInv => Len(Mapped) = Len(log) /\ Related = Transitions!RelationOf(Mapped))'
    BY InvMaps, PTL
  <2> QED BY <2>1
<1>4. \A t \in DOMAIN Mapped : Mapped'[t].action = Mapped[t].action
  BY DEF Mapped
<1> QED BY <1>1, <1>2, <1>4, RegroupIs

-----------------------------------------------------------------------------
(* What the steps of exploration and of a build are to the abstract graph. *)

AbstractStep == [Transitions!Take \/ Transitions!Regroup]_(Transitions!abstractVars)

\* A step loses no transition, and as long as no entries of one action come together it
\* is one of the abstract graph.
Advances == KeptInv' /\ (~JoinRepeated /\ TransitionsInv => TransitionsInv' /\ AbstractStep)

\* A recorded step is taken by the abstract graph; what both kinds of step have in common.
LEMMA RecordedTakes ==
  ASSUME KeptInv, LoadsInv', Growing, phase' = phase, alias' = alias,
         NEW tr, NEW action, NEW target \in Ids, NEW after, after = Latest,
         Record(tr, action, target), alias[target] = target, after > Seen,
         \A k \in Ids : \A p \in members'[k] : p \in members[k] \/ p > Seen,
         \A k \in Ids : after \in members'[k] => k = target,
         \A k \in Ids : members[k] \subseteq members'[k]
  PROVE  Advances
<1> DEFINE T == Len(log) + 1
           new == [before |-> at.observation, after |-> after, action |-> action,
                   from |-> at.node, to |-> target]
<1>0. LoadsInv /\ ListedAsRecorded /\ NodesHold /\ LogHolds
  BY DEF KeptInv, LoadsInv
<1>1. /\ ASeq(log') /\ Len(log') = T /\ log'[T] = new /\ \A t \in 1..Len(log) : log'[t] = log[t]
      /\ DOMAIN log = 1..Len(log) /\ Len(log) \in Nat
  BY <1>0, AppendParts, SeqParts DEF Record, LogHolds, Latest
<1>2. /\ DOMAIN log' = DOMAIN log \cup {T} /\ T \notin DOMAIN log
      /\ \A t \in DOMAIN log : log'[t] = log[t]
  <2>1. DOMAIN log' = 1..T
    BY <1>1, SeqParts
  <2> QED BY <1>1, <2>1
<1>3. log'[T].action = action /\ log'[T].before = at.observation /\ log'[T].after = after
      /\ log'[T].from = at.node /\ log'[T].to = target
  BY <1>1
<1> HIDE DEF T, new
<1>4. /\ at.node \in Ids /\ alias[at.node] = at.node
      /\ at.observation \in 1..Seen /\ Seen \in Nat
      /\ \A n \in Ids : at.observation \in members[n] => n = at.node
  <2>1. PositionHolds /\ NodesHaveMembers
    BY <1>0 DEF LoadsInv
  <2>2. Seen \in Nat
    BY <1>0, SeqParts DEF NodesHold, Seen
  <2> QED BY <2>1, <2>2 DEF PositionHolds, NodesHaveMembers
<1>5. \A t \in DOMAIN log : log[t].before \in 1..Seen /\ log[t].after \in 1..Seen
  BY <1>0 DEF LogHolds
<1>6. \A p \in 1..Seen : ~(p > Seen)
  BY <1>4
<1>7. ListedAsRecorded'
  <2> SUFFICES ASSUME NEW t \in DOMAIN log', NEW n \in Ids
        PROVE  /\ log'[t].before \in members'[n] => n = alias[log'[t].from]
               /\ log'[t].after \in members'[n] => n = alias[log'[t].to]
    BY DEF ListedAsRecorded
  <2>1. CASE t = T
    <3>1. at.observation \in members'[n] => n = at.node
      BY <1>4, <1>6
    <3> QED BY <1>3, <1>4, <2>1, <3>1
  <2>2. CASE t # T
    <3>1. t \in DOMAIN log /\ log'[t] = log[t]
      BY <1>2, <2>2
    <3>2. /\ log[t].before \in members'[n] => log[t].before \in members[n]
          /\ log[t].after \in members'[n] => log[t].after \in members[n]
      BY <1>5, <1>6, <3>1
    <3> QED BY <1>0, <3>1, <3>2 DEF ListedAsRecorded
  <2> QED BY <2>1, <2>2
\* The ends of the transitions, before and after.
<1> DEFINE ends == [t \in DOMAIN log' |-> IF t = T THEN <<at.node, target>> ELSE Ends(members, t)]
<1>8. \A t \in DOMAIN log' : Ends(members, t)' = ends[t]
  <2> TAKE t \in DOMAIN log'
  <2>1. (Ends(members, t))' = <<alias'[log'[t].from], alias'[log'[t].to]>>
    <3>1. \A n, m \in Ids : n # m => members'[n] \cap members'[m] = {}
      BY DEF LoadsInv, NodesHaveMembers
    <3>2. \A n \in Ids : /\ log'[t].before \in members'[n] => n = alias'[log'[t].from]
                         /\ log'[t].after \in members'[n] => n = alias'[log'[t].to]
      <4>1. Growing'
        BY DEF Growing
      <4> QED BY <1>7, <4>1 DEF ListedAsRecorded
    <3>3. \A o, r : \A n \in Ids : o \in members'[n] => NodeOf(members', o, r) = n
      <4> DEFINE ms == members'
      <4>1. \A n, m \in Ids : n # m => ms[n] \cap ms[m] = {}
        BY <3>1
      <4> HIDE DEF ms
      <4>2. \A o, r : \A n \in Ids : o \in ms[n] => NodeOf(ms, o, r) = n
        BY <4>1, NodeOfIs
      <4> QED BY <4>2 DEF ms
    <3>4. \A o, r : (\A n \in Ids : o \notin members'[n]) => NodeOf(members', o, r) = alias[r]
      <4> DEFINE ms == members'
      <4>1. \A n, m \in Ids : n # m => ms[n] \cap ms[m] = {}
        BY <3>1
      <4> HIDE DEF ms
      <4>2. \A o, r : (\A n \in Ids : o \notin ms[n]) => NodeOf(ms, o, r) = alias[r]
        BY <4>1, NodeOfIs
      <4> QED BY <4>2 DEF ms
    <3>a. ASSUME NEW o, NEW r, \A n \in Ids : o \in members'[n] => n = alias[r]
          PROVE  NodeOf(members', o, r) = alias[r]
      <4>1. CASE \E n \in Ids : o \in members'[n]
        BY <3>3, <3>a, <4>1
      <4>2. CASE \A n \in Ids : o \notin members'[n]
        BY <3>4, <4>2
      <4> QED BY <4>1, <4>2
    <3>5. NodeOf(members', log'[t].before, log'[t].from) = alias[log'[t].from]
      BY <3>2, <3>a
    <3>6. NodeOf(members', log'[t].after, log'[t].to) = alias[log'[t].to]
      BY <3>2, <3>a
    <3>7. NodeOf(members', log'[t].before, log'[t].from) = (NodeOf(members, log[t].before, log[t].from))'
          /\ NodeOf(members', log'[t].after, log'[t].to) = (NodeOf(members, log[t].after, log[t].to))'
      BY DEF NodeOf
    <3> QED BY <3>5, <3>6, <3>7 DEF Ends
  <2>2. CASE t = T
    BY <1>3, <1>4, <2>1, <2>2
  <2>3. CASE t # T
    <3>1. t \in DOMAIN log /\ log'[t] = log[t]
      BY <1>2, <2>3
    <3>2. Ends(members, t) = <<alias[log[t].from], alias[log[t].to]>>
      BY <1>0, <3>1, EndsAre
    <3> QED BY <2>1, <2>3, <3>1, <3>2
  <2> QED BY <2>2, <2>3
<1>9. \A t \in DOMAIN log : ends[t] = Ends(members, t)
  BY <1>2
<1>10. ends[T] = <<at.node, target>>
  BY <1>2
<1> HIDE DEF ends
<1>11. /\ Singly(edges) => Singly(edges')
       /\ \A t \in DOMAIN log' : OnEdge(edges', ends[t], log'[t].action)
       /\ OfTransitions(edges, members) =>
            \A e \in DOMAIN edges' : \A i \in DOMAIN edges'[e].actions :
              \E t \in DOMAIN log' : ends[t] = e /\ log'[t].action = edges'[e].actions[i]
  <2>1. /\ DOMAIN log' = DOMAIN log \cup {Len(log) + 1} /\ Len(log) + 1 \notin DOMAIN log
        /\ log'[Len(log) + 1].action = action /\ ends[Len(log) + 1] = <<at.node, target>>
    BY <1>2, <1>3, <1>10 DEF T
  <2> QED BY <1>2, <1>9, <2>1, AddedTransitions, AddedOutside
<1>12. OnTheirEdges(edges, members)'
  BY <1>8, <1>11 DEF OnTheirEdges, OnEdge
<1>13. OfTransitions(edges, members) => OfTransitions(edges, members)'
  BY <1>8, <1>11 DEF OfTransitions
<1>14. KeptInv' /\ (TransitionsInv => TransitionsInv')
  BY <1>7, <1>11, <1>12, <1>13 DEF TransitionsInv, KeptInv, Singly
<1>15. ASSUME TransitionsInv PROVE AbstractStep
  <2>1. (TransitionsInv => Len(Mapped) = Len(log) /\ Related = Transitions!RelationOf(Mapped))'
    BY InvMaps, PTL
  <2>2. Len(Mapped') = Len(log') /\ Related' = Transitions!RelationOf(Mapped')
    BY <1>14, <1>15, <2>1
  <2>3. Len(Mapped) = Len(log) /\ ASeq(Mapped) /\ DOMAIN Mapped = 1..Len(log)
    BY <1>0, MappedIs
  <2>4. DOMAIN Mapped' = 1..T /\ DOMAIN log' = 1..T
    BY <1>1, SeqParts DEF Mapped
  <2>5. \A t \in 1..Len(log) : Mapped'[t] = Mapped[t]
    <3> TAKE t \in 1..Len(log)
    <3>1. t \in DOMAIN log /\ t \in DOMAIN log' /\ log'[t] = log[t]
      BY <1>1, <1>2
    <3>2. Ends(members, t)' = Ends(members, t)
      BY <1>8, <1>9, <3>1
    <3> QED BY <3>1, <3>2 DEF Mapped
  <2> DEFINE M == Mapped'
             N == Mapped
             n == Len(log)
  <2>6. ASeq(M) /\ Len(M) = n + 1 /\ n \in Nat
    <3>1. M = [t \in DOMAIN M |-> M[t]] /\ DOMAIN M = 1..T
      BY <2>4 DEF Mapped
    <3>2. T \in Nat /\ T = n + 1 /\ n \in Nat
      BY <1>1 DEF T
    <3> HIDE DEF M
    <3> QED BY <3>1, <3>2, ListIsSeq
  <2>7. SubSeq(M, 1, n) = N
    <3>1. N = [t \in 1..n |-> N[t]] /\ \A t \in 1..n : M[t] = N[t]
      BY <2>3, <2>5 DEF Mapped
    <3> HIDE DEF M, N, n
    <3>2. 1 \in 1..(Len(M) + 1) /\ n \in 0..Len(M) /\ n - 1 + 1 = n
      BY <2>6
    <3>3. /\ ASeq(SubSeq(M, 1, n)) /\ Len(SubSeq(M, 1, n)) = IF 1 <= n THEN n - 1 + 1 ELSE 0
          /\ \A i \in 1..(n - 1 + 1) : SubSeq(M, 1, n)[i] = M[1 + i - 1]
      BY <2>6, <3>2, SubSeqParts
    <3> DEFINE S == SubSeq(M, 1, n)
    <3>4. \A i \in 1..n : 1 + i - 1 = i
      OBVIOUS
    <3>5. S = [i \in 1..n |-> M[1 + i - 1]]
      BY <2>6, <3>2
    <3> HIDE DEF S
    <3> QED BY <3>1, <3>4, <3>5 DEF S
  <2>8. Len(Mapped') = Len(Mapped) + 1 /\ SubSeq(Mapped', 1, Len(Mapped)) = Mapped
    BY <2>3, <2>6, <2>7
  <2> QED BY <2>2, <2>8, TakeIs DEF AbstractStep
<1> QED BY <1>14, <1>15 DEF Advances

LEMMA TakeStepTakes ==
  ASSUME KeptInv, LoadsInv', Growing, NEW tr, NEW n \in Screens, NEW s, NEW action, NEW observation,
         TakeStep(tr, action, n, s, observation)
  PROVE  Advances
<1>1. LoadsInv /\ Identify(n, s) /\ Record(tr, action, n)
  BY DEF KeptInv, TakeStep
<1>2. /\ Identified(n, Latest, {}) /\ Seen \in Nat /\ Latest = Seen + 1
      /\ alias' = alias /\ phase' = phase
      /\ \A k \in Ids : \A p \in members'[k] : p \in members[k] \/ (p = Latest /\ k = n)
  <2>1. n \in Screens \cup {Outside}
    OBVIOUS
  <2> QED BY <1>1, <2>1, IdentifyIs
<1>3. n \in Ids /\ alias[n] = n /\ \A k \in Ids : members[k] \subseteq members'[k]
  BY <1>1, <1>2, IdentifiedHolds
<1>4. \A k \in Ids : Latest \notin members[k]
  BY <1>1, <1>2 DEF LoadsInv, NodesHold
<1>5. /\ Latest > Seen /\ \A k \in Ids : \A p \in members'[k] : p \in members[k] \/ p > Seen
      /\ \A k \in Ids : Latest \in members'[k] => k = n
  BY <1>2, <1>4
<1> DEFINE after == Latest
<1>6. after = Latest
  OBVIOUS
<1> HIDE DEF after
<1> QED BY <1>1, <1>2, <1>3, <1>5, <1>6, RecordedTakes

LEMMA StepTakes ==
  ASSUME KeptInv, NEW n \in Screens, NEW s \in States, NEW action, Step(action, n, s)
  PROVE  Advances
<1>1. LoadsInv' /\ Growing /\ TakeStep(trail, action, n, s, Latest)
  BY StepLoads DEF KeptInv, Step, Growing
<1> QED BY <1>1, TakeStepTakes

LEMMA BuildStepTakes ==
  ASSUME KeptInv, NEW n \in Screens, NEW s \in States, NEW action, BuildStep(action, n, s)
  PROVE  Advances
<1>1. LoadsInv' /\ Growing /\ TakeStep(StartedTrail, action, n, s, NoObservation)
  BY BuildStepLoads DEF KeptInv, BuildStep, Growing
<1> QED BY <1>1, TakeStepTakes

LEMMA LeaveAppTakes ==
  ASSUME KeptInv, LoadsInv', Growing, NEW tr, NEW n \in Screens \cup {Outside}, NEW s, NEW action,
         LeaveApp(tr, action, n, s)
  PROVE  Advances
<1>1. LoadsInv /\ Record(tr, action, Outside) /\ alias' = alias /\ phase' = phase
  BY DEF KeptInv, LeaveApp
<1>2. /\ Identified(n, Latest + 1, {Latest}) /\ Seen \in Nat /\ Latest = Seen + 1
      /\ Outside \in Ids /\ alias[Outside] = Outside
      /\ \A k \in Ids : \A p \in members'[k] : \/ p \in members[k] \/ (p = Latest /\ k = Outside)
                                               \/ (p = Latest + 1 /\ k = n)
  BY <1>1, LeaveAppIs
<1> DEFINE o == Latest + 1
           out == {Latest}
<1>3. \A k \in Ids : members[k] \subseteq members'[k]
  <2>1. Identified(n, o, out)
    BY <1>2
  <2> HIDE DEF o, out
  <2> QED BY <1>1, <2>1, IdentifiedHolds
<1>4. \A k \in Ids : Latest \notin members[k]
  BY <1>1, <1>2 DEF LoadsInv, NodesHold
<1>5. /\ Latest > Seen /\ \A k \in Ids : \A p \in members'[k] : p \in members[k] \/ p > Seen
      /\ \A k \in Ids : Latest \in members'[k] => k = Outside
  BY <1>2, <1>4
<1> DEFINE after == Latest
<1>6. after = Latest
  OBVIOUS
<1> HIDE DEF after
<1> QED BY <1>1, <1>2, <1>3, <1>5, <1>6, RecordedTakes

LEMMA StepOutsideTakes ==
  ASSUME KeptInv, NEW n \in Screens \cup {Outside}, NEW s \in States, NEW action,
         StepOutside(action, n, s)
  PROVE  Advances
<1>1. LoadsInv' /\ Growing /\ LeaveApp(trail, action, n, s)
  BY StepOutsideLoads DEF KeptInv, StepOutside, Growing
<1> QED BY <1>1, LeaveAppTakes

LEMMA BuildStepOutsideTakes ==
  ASSUME KeptInv, NEW n \in Screens \cup {Outside}, NEW s \in States, NEW action,
         BuildStepOutside(action, n, s)
  PROVE  Advances
<1>1. LoadsInv' /\ Growing /\ LeaveApp(StartedTrail, action, n, s)
  BY BuildStepOutsideLoads DEF KeptInv, BuildStepOutside, Growing
<1> QED BY <1>1, LeaveAppTakes

-----------------------------------------------------------------------------
\* A transition is between the nodes it was recorded with, as they are called now.
EndsAsRecorded ==
  \A t \in DOMAIN log : Ends(members, t) = <<alias[log[t].from], alias[log[t].to]>>

LEMMA EndsAlways == LoadsInv /\ ListedAsRecorded /\ Growing => EndsAsRecorded
BY EndsAre DEF EndsAsRecorded

\* Listing another screen changes no transition's ends.
LEMMA GrownStutters ==
  ASSUME KeptInv, LoadsInv', UNCHANGED <<log, edges, alias, phase>>, Growing,
         \A k \in Ids : \A p \in members'[k] : p \in members[k] \/ p > Seen
  PROVE  Advances
<1>1. LoadsInv /\ ListedAsRecorded /\ LogHolds /\ NodesHold
  BY DEF KeptInv, LoadsInv
<1>2. \A t \in DOMAIN log : ~(log[t].before > Seen) /\ ~(log[t].after > Seen)
  <2>1. Seen \in Nat
    BY <1>1, SeqParts DEF NodesHold, Seen
  <2> QED BY <1>1, <2>1 DEF LogHolds
<1>3. ListedAsRecorded'
  BY <1>1, <1>2 DEF ListedAsRecorded, Growing
<1>4. \A t \in DOMAIN log : (Ends(members, t))' = Ends(members, t)
  <2> TAKE t \in DOMAIN log
  <2>1. Ends(members, t) = <<alias[log[t].from], alias[log[t].to]>>
    BY <1>1, EndsAre
  <2>2. (LoadsInv /\ ListedAsRecorded /\ Growing => EndsAsRecorded)'
    BY EndsAlways, PTL
  <2>3. Growing'
    BY DEF Growing
  <2> QED BY <1>3, <2>1, <2>2, <2>3 DEF EndsAsRecorded
<1>5. /\ OnTheirEdges(edges, members)'
      /\ OfTransitions(edges, members) => OfTransitions(edges, members)'
  BY <1>4 DEF KeptInv, OnTheirEdges, OnEdge, OfTransitions
<1>6. Mapped' = Mapped /\ Related' = Related
  BY <1>4 DEF Mapped, Related
<1>7. KeptInv' /\ (TransitionsInv => TransitionsInv')
  BY <1>3, <1>5 DEF KeptInv, TransitionsInv, Singly
<1>8. AbstractStep
  BY <1>6, StutterIs DEF AbstractStep
<1> QED BY <1>7, <1>8 DEF Advances

LEMMA IdentifyStutters ==
  ASSUME KeptInv, LoadsInv', Growing, NEW n \in Screens \cup {Outside}, NEW s, Identify(n, s),
         UNCHANGED <<log, edges>>
  PROVE  Advances
<1>1. /\ Seen \in Nat /\ Latest = Seen + 1 /\ alias' = alias /\ phase' = phase
      /\ \A k \in Ids : \A p \in members'[k] : p \in members[k] \/ (p = Latest /\ k = n)
  BY IdentifyIs DEF KeptInv
<1>2. \A k \in Ids : \A p \in members'[k] : p \in members[k] \/ p > Seen
  BY <1>1
<1> QED BY <1>1, <1>2, GrownStutters

LEMMA ArriveStutters ==
  ASSUME KeptInv, NEW n \in Screens \cup {Outside}, NEW s \in States, NEW known \in BOOLEAN,
         Arrive(n, s, known)
  PROVE  Advances
<1>1. LoadsInv' /\ Growing /\ Identify(n, s) /\ UNCHANGED <<log, edges>>
  BY ArriveLoads DEF KeptInv, Arrive, Growing
<1> QED BY <1>1, IdentifyStutters

LEMMA OverlayStepStutters ==
  ASSUME KeptInv, NEW n \in Screens \cup {Outside}, NEW s \in States, OverlayStep(n, s)
  PROVE  Advances
<1>1. LoadsInv' /\ Growing /\ Identify(n, s) /\ UNCHANGED <<log, edges>>
  BY OverlayStepLoads DEF KeptInv, OverlayStep, Growing
<1> QED BY <1>1, IdentifyStutters

LEMMA MatchStutters ==
  ASSUME KeptInv, NEW n \in Screens \cup {Outside}, NEW s \in States, NEW known \in BOOLEAN,
         Match(n, s, known)
  PROVE  Advances
<1>1. LoadsInv' /\ Growing /\ Identify(n, s) /\ UNCHANGED <<log, edges>>
  BY MatchLoads DEF KeptInv, Match, Growing
<1> QED BY <1>1, IdentifyStutters

LEMMA WaitStutters ==
  ASSUME KeptInv, Wait
  PROVE  Advances
<1>1. LoadsInv /\ LoadsInv'
  BY WaitLoads DEF KeptInv
<1>2. UNCHANGED <<log, edges, alias, members, phase>> /\ Growing
  BY DEF Wait, graphVars
<1> QED BY <1>1, <1>2, GrownStutters

-----------------------------------------------------------------------------
LEMMA MergeRegroups ==
  ASSUME KeptInv, NEW keep \in InApp, NEW remove \in InApp,
         Merge(keep, remove)
  PROVE  Advances
<1>1. LoadsInv /\ LoadsInv'
  BY MergeLoads DEF KeptInv
<1>2. /\ Growing /\ Growing' /\ UNCHANGED log
      /\ edges' = Rewired(edges, keep, remove) /\ (JoinRepeated \/ ~Repeats(edges'))
      /\ members' = [members EXCEPT ![keep] = @ \cup members[remove], ![remove] = {}]
      /\ alias' = [n \in Ids |-> IF alias[n] = remove THEN keep ELSE alias[n]]
      /\ keep # remove /\ keep # Outside /\ remove # Outside
  <2>1. keep # remove /\ keep # Outside /\ remove # Outside
    BY DEF Merge, InApp, Ids
  <2> QED BY <2>1 DEF Merge, Growing
<1>3. /\ PreparedAll(edges) /\ DOMAIN edges \subseteq Ids \X Ids
      /\ members \in [Ids -> SUBSET (1..Seen)] /\ alias \in [Ids -> Ids]
      /\ ListedAsRecorded /\ LogHolds /\ keep \in Ids /\ remove \in Ids
  BY <1>1, InAppAre DEF KeptInv, LoadsInv, EdgesHold, NodesHold
<1>4. \A n \in Ids : /\ alias'[n] = Kept(alias[n], keep, remove)
                     /\ \A p \in members'[n] : \E m \in Ids : p \in members[m] /\ n = Kept(m, keep, remove)
  BY <1>2, <1>3 DEF Kept
<1>5. \A t \in DOMAIN log : log[t].from \in Ids /\ log[t].to \in Ids
  BY <1>3 DEF LogHolds
<1>6. ListedAsRecorded'
  BY <1>2, <1>3, <1>4, <1>5 DEF ListedAsRecorded
<1>7. \A t \in DOMAIN log : (Ends(members, t))' = KeptEdge(Ends(members, t), keep, remove)
  <2> TAKE t \in DOMAIN log
  <2>1. Ends(members, t) = <<alias[log[t].from], alias[log[t].to]>>
    BY <1>1, <1>2, <1>3, EndsAre
  <2>2. (LoadsInv /\ ListedAsRecorded /\ Growing => EndsAsRecorded)'
    BY EndsAlways, PTL
  <2>3. (Ends(members, t))' = <<alias'[log[t].from], alias'[log[t].to]>>
    BY <1>1, <1>2, <1>6, <2>2 DEF EndsAsRecorded
  <2> QED BY <1>4, <1>5, <2>1, <2>3 DEF KeptEdge
<1>8. RewiredAs(edges', edges, keep, remove)
  BY <1>2, <1>3, RewiredParts
<1> DEFINE K(f) == KeptEdge(f, keep, remove)
<1>9. /\ DOMAIN edges' = {K(f) : f \in DOMAIN edges}
      /\ \A e \in DOMAIN edges' : \A i \in DOMAIN edges'[e].actions :
           \E f \in DOMAIN edges : K(f) = e /\ In(edges'[e], i, edges[f])
      /\ \A f \in DOMAIN edges : AllIn(edges[f], edges'[K(f)])
  BY <1>8 DEF RewiredAs
<1>10. /\ \A t \in DOMAIN log : (Ends(members, t))' = K(Ends(members, t))
       /\ \A f : K(f)[1] # Outside => f[1] # Outside
  BY <1>2, <1>7 DEF KeptEdge, Kept
<1> HIDE DEF K
<1>11. OnTheirEdges(edges, members)'
  <2> SUFFICES ASSUME NEW t \in DOMAIN log, K(Ends(members, t))[1] # Outside
        PROVE  /\ K(Ends(members, t)) \in DOMAIN edges'
               /\ \E i \in DOMAIN edges'[K(Ends(members, t))].actions :
                    edges'[K(Ends(members, t))].actions[i] = log[t].action
    BY <1>2, <1>10 DEF OnTheirEdges, OnEdge
  <2> DEFINE f == Ends(members, t)
  <2>1. f \in DOMAIN edges /\ \E i \in DOMAIN edges[f].actions : edges[f].actions[i] = log[t].action
    BY <1>10 DEF KeptInv, OnTheirEdges, OnEdge
  <2> HIDE DEF f
  <2>2. AllIn(edges[f], edges'[K(f)]) /\ K(f) \in DOMAIN edges'
    BY <1>9, <2>1
  <2>3. \E i \in DOMAIN edges'[K(f)].actions : edges'[K(f)].actions[i] = log[t].action
    BY <2>1, <2>2 DEF AllIn, In, Same
  <2> QED BY <2>2, <2>3 DEF f
<1>12. ASSUME OfTransitions(edges, members) PROVE OfTransitions(edges, members)'
  <2> SUFFICES ASSUME NEW e \in DOMAIN edges', NEW i \in DOMAIN edges'[e].actions
        PROVE  \E t \in DOMAIN log : K(Ends(members, t)) = e /\ log[t].action = edges'[e].actions[i]
    <3>1. OfTransitions(edges, members)' <=>
            \A f \in DOMAIN edges' : \A j \in DOMAIN edges'[f].actions :
              \E t \in DOMAIN log' : (Ends(members, t))' = f /\ log'[t].action = edges'[f].actions[j]
      BY DEF OfTransitions
    <3>2. log' = log
      BY <1>2
    <3> QED BY <1>10, <3>1, <3>2
  <2>1. PICK f \in DOMAIN edges : K(f) = e /\ In(edges'[e], i, edges[f])
    BY <1>9
  <2>2. PICK j \in DOMAIN edges[f].actions : Same(edges'[e], i, edges[f], j)
    BY <2>1 DEF In
  <2>3. PICK t \in DOMAIN log : Ends(members, t) = f /\ log[t].action = edges[f].actions[j]
    BY <1>12 DEF OfTransitions
  <2> QED BY <2>1, <2>2, <2>3 DEF Same
<1>13. ~JoinRepeated => Singly(edges)'
  BY <1>2 DEF Repeats, IsInjective, Singly
<1>14. KeptInv' /\ (~JoinRepeated /\ TransitionsInv => TransitionsInv')
  BY <1>1, <1>6, <1>11, <1>12, <1>13 DEF KeptInv, TransitionsInv
<1> QED BY <1>2, <1>14, RegroupedIs DEF AbstractStep, Advances

-----------------------------------------------------------------------------
(* What a split and a move are to the abstract graph.                      *)

\* ms lists the members once the group has moved.
Moved(ms, from, group, to) ==
  \A n \in Ids : ms[n] = IF n = from THEN members[from] \ group
                         ELSE IF n = to THEN members[to] \cup group ELSE members[n]

\* A move takes no node's listing but that of the node the members leave.
LEMMA EndsMoved ==
  ASSUME LoadsInv, NEW from \in Ids, NEW to \in Ids, NEW group, from # to, NEW ms,
         Moved(ms, from, group, to),
         group \subseteq members[from], NEW t \in DOMAIN log,
         Ends(members, t)[1] # from, Ends(members, t)[2] # from
  PROVE  Ends(ms, t) = Ends(members, t)
<1>1. \A n, m \in Ids : n # m => members[n] \cap members[m] = {}
  BY DEF LoadsInv, NodesHaveMembers
<1>2. \A n \in Ids : ms[n] = IF n = from THEN members[from] \ group
                             ELSE IF n = to THEN members[to] \cup group ELSE members[n]
  BY DEF Moved
<1>3. \A n, m \in Ids : n # m => ms[n] \cap ms[m] = {}
  <2> SUFFICES ASSUME NEW n \in Ids, NEW m \in Ids, n # m, NEW p \in ms[n], p \in ms[m]
               PROVE  FALSE
    OBVIOUS
  <2>1. \A i, j \in Ids : p \in members[i] /\ p \in members[j] => i = j
    BY <1>1
  <2>2. \A k \in Ids : p \in ms[k] => (p \in group /\ k = to) \/ (p \notin group /\ p \in members[k])
    <3> TAKE k \in Ids
    <3> HAVE p \in ms[k]
    <3>1. CASE k = from
      BY <1>2, <3>1
    <3>2. CASE k # from /\ p \in group
      <4>1. p \in members[from] /\ p \notin members[k]
        BY <2>1, <3>2
      <4> QED BY <1>2, <3>2, <4>1
    <3>3. CASE k # from /\ p \notin group
      BY <1>2, <3>3
    <3> QED BY <3>1, <3>2, <3>3
  <2> QED BY <2>1, <2>2
<1>m. \A o, r :
               /\ \A n \in Ids : o \in members[n] => NodeOf(members, o, r) = n
               /\ (\A n \in Ids : o \notin members[n]) => NodeOf(members, o, r) = alias[r]
  BY <1>1, NodeOfIs
<1>s. \A o, r :
               /\ \A n \in Ids : o \in ms[n] => NodeOf(ms, o, r) = n
               /\ (\A n \in Ids : o \notin ms[n]) => NodeOf(ms, o, r) = alias[r]
  BY <1>3, NodeOfIs
<1>4. ASSUME NEW o, NEW r, NodeOf(members, o, r) # from
      PROVE  NodeOf(ms, o, r) = NodeOf(members, o, r)
  <2>1. /\ \A n \in Ids : o \in members[n] => NodeOf(members, o, r) = n
        /\ (\A n \in Ids : o \notin members[n]) => NodeOf(members, o, r) = alias[r]
    BY <1>m
  <2>2. /\ \A n \in Ids : o \in ms[n] => NodeOf(ms, o, r) = n
        /\ (\A n \in Ids : o \notin ms[n]) => NodeOf(ms, o, r) = alias[r]
    BY <1>s
  <2>3. CASE \E n \in Ids : o \in members[n]
    <3>1. PICK n \in Ids : o \in members[n]
      BY <2>3
    <3>2. n # from
      BY <1>4, <2>1, <3>1
    <3>3. o \in ms[n]
      BY <1>2, <3>1, <3>2
    <3> QED BY <2>1, <2>2, <3>1, <3>3
  <2>4. CASE \A n \in Ids : o \notin members[n]
    <3>1. \A n \in Ids : o \notin ms[n]
      BY <1>2, <2>4
    <3> QED BY <2>1, <2>2, <2>4, <3>1
  <2> QED BY <2>3, <2>4
<1> HIDE DEF NodeOf
<1>5. /\ NodeOf(members, log[t].before, log[t].from) # from
      /\ NodeOf(members, log[t].after, log[t].to) # from
  BY DEF Ends
<1> QED BY <1>4, <1>5 DEF Ends

SourcesStay == \A t \in DOMAIN log : Ends(members, t)[1] # Outside <=> alias[log[t].from] # Outside

LEMMA SourcesInside == LogHolds => SourcesStay
BY SourceInside DEF SourcesStay

LEMMA RelocatedRegroups ==
  ASSUME KeptInv, NEW from, NEW group, NEW to, Relocated(from, group, to)
  PROVE  Advances
<1>1. LoadsInv /\ LoadsInv'
  BY RelocatedHolds DEF KeptInv
<1> DEFINE ms == [members EXCEPT ![from] = @ \ group, ![to] = @ \cup group]
<1>2. /\ from \in Ids /\ to \in Ids /\ from # to /\ UNCHANGED <<log, alias>>
      /\ members' = ms /\ edges' = Reassigned(from, ms) /\ (JoinRepeated \/ ~Repeats(edges'))
      /\ phase' = phase /\ ~Growing /\ ~Growing'
  <2>1. from \in InApp /\ to \in Screens /\ to # from
    BY DEF Relocated
  <2>2. from \in Ids /\ to \in Ids
    BY <1>1, <2>1, InAppAre, ScreensAre
  <2> QED BY <2>1, <2>2 DEF Relocated, Relocate, Growing
<1>3. group \subseteq members[from]
  <2>1. group \subseteq apart[from] /\ apart[from] \subseteq members[from]
    BY <1>1, <1>2 DEF Relocated, LoadsInv, HomesHold
  <2> QED BY <2>1
<1>4. /\ PreparedAll(edges) /\ DOMAIN edges \subseteq Ids \X Ids /\ MaxNode \in Nat
  BY <1>1, EdgesAssumption DEF LoadsInv, EdgesHold
<1>5. \A t \in DOMAIN log : Ends(members, t)[1] # from /\ Ends(members, t)[2] # from
                              => Ends(ms, t) = Ends(members, t)
  <2> TAKE t \in DOMAIN log
  <2> HAVE Ends(members, t)[1] # from /\ Ends(members, t)[2] # from
  <2>0. members \in [Ids -> SUBSET (1..Seen)]
    BY <1>1 DEF LoadsInv, NodesHold
  <2>1. Moved(ms, from, group, to)
    BY <1>2, <2>0 DEF Moved
  <2>2. from \in Ids /\ to \in Ids /\ from # to
    BY <1>2
  <2> HIDE DEF ms
  <2> QED BY <1>1, <1>3, <2>1, <2>2, EndsMoved
<1> HIDE DEF ms
<1>6. \A t \in DOMAIN log : (Ends(members, t))' = Ends(ms, t)
  <2>1. \A t : (Ends(members, t))' = <<NodeOf(members', log'[t].before, log'[t].from),
                                      NodeOf(members', log'[t].after, log'[t].to)>>
    BY <1>2 DEF Ends, NodeOf
  <2> QED BY <1>2, <2>1 DEF Ends
<1>r. /\ \A e : e \in DOMAIN edges' <=> Stays(from, ms, e) \cup Comes(from, ms, e) # {}
      /\ \A e \in DOMAIN edges' :
           /\ \A i \in DOMAIN edges'[e].actions :
                \E slot \in Stays(from, ms, e) \cup Comes(from, ms, e) :
                  Same(edges'[e], i, edges[slot[1]], slot[2])
           /\ \A slot \in Stays(from, ms, e) \cup Comes(from, ms, e) :
                \E i \in DOMAIN edges'[e].actions : Same(edges'[e], i, edges[slot[1]], slot[2])
  BY <1>2, <1>4, ReassignedParts
<1>7. /\ \A e, slot : slot \in EntriesOf(e) =>
           slot[1] = e /\ e \in DOMAIN edges /\ slot[2] \in DOMAIN edges[e].actions
      /\ \A e \in DOMAIN edges : \A i \in DOMAIN edges[e].actions : <<e, i>> \in EntriesOf(e)
  BY <1>4, EntriesAre
\* Every transition backs the first entry with its action.
<1>8. ASSUME NEW t \in DOMAIN log, Ends(members, t)[1] # Outside
      PROVE  /\ Ends(members, t) \in DOMAIN edges
             /\ \E i \in DOMAIN edges[Ends(members, t)].actions :
                  edges[Ends(members, t)].actions[i] = log[t].action /\ t \in Backing(Ends(members, t), i)
  <2> DEFINE e == Ends(members, t)
  <2>1. e \in DOMAIN edges /\ \E i \in DOMAIN edges[e].actions : edges[e].actions[i] = log[t].action
    BY <1>8 DEF KeptInv, OnTheirEdges, OnEdge
  <2>2. Whole(edges[e])
    BY <1>4, <2>1 DEF PreparedAll, Prepared
  <2> DEFINE i == IndexOf(edges[e], log[t].action)
  <2>3. i \in DOMAIN edges[e].actions /\ edges[e].actions[i] = log[t].action
    BY <2>1, <2>2, IndexIs
  <2>4. t \in Backing(e, i)
    BY DEF Backing
  <2> QED BY <2>1, <2>3, <2>4
\* An entry of an edge of from that is backed is matched, and only those are.
<1>9. /\ \A e \in DOMAIN edges : \A i \in DOMAIN edges[e].actions :
           (e[1] = from \/ e[2] = from) /\ Backing(e, i) # {} => <<e, i>> \in Matched(from)
      /\ \A slot \in Matched(from) :
           /\ slot \in EntriesOf(slot[1]) /\ slot[1] \in DOMAIN edges
           /\ slot[2] \in DOMAIN edges[slot[1]].actions
           /\ slot[1][1] = from \/ slot[1][2] = from
  BY <1>7 DEF Matched
\* A transition that starts inside the app did so before.
<1>i. \A t \in DOMAIN log : Ends(ms, t)[1] # Outside => Ends(members, t)[1] # Outside
  <2> TAKE t \in DOMAIN log
  <2>1. Ends(members, t)[1] # Outside <=> alias[log[t].from] # Outside
    BY <1>1, SourceInside DEF LoadsInv
  <2>2. (Ends(members, t)[1] # Outside <=> alias[log[t].from] # Outside)'
    <3>1. (LogHolds => SourcesStay)'
      BY SourcesInside, PTL
    <3>2. LogHolds' /\ t \in DOMAIN log'
      BY <1>1, <1>2 DEF LoadsInv
    <3> QED BY <3>1, <3>2 DEF SourcesStay
  <2> QED BY <1>2, <1>6, <2>1, <2>2
<1>10. ASSUME NEW t \in DOMAIN log, Ends(ms, t)[1] # Outside
       PROVE  /\ Ends(ms, t) \in DOMAIN edges'
              /\ \E i \in DOMAIN edges'[Ends(ms, t)].actions :
                   edges'[Ends(ms, t)].actions[i] = log[t].action
  <2> DEFINE e == Ends(members, t)
             f == Ends(ms, t)
  <2>1. PICK i \in DOMAIN edges[e].actions :
          edges[e].actions[i] = log[t].action /\ t \in Backing(e, i)
    BY <1>8, <1>10, <1>i
  <2>2. e \in DOMAIN edges /\ <<e, i>> \in EntriesOf(e)
    BY <1>7, <1>8, <1>10, <1>i
  <2> DEFINE slot == <<e, i>>
  <2>3. f \in Now(ms, slot)
    BY <2>1 DEF Now
  <2>4. e[1] # from /\ e[2] # from => f = e
    BY <1>5
  <2>5. slot[1] = e /\ slot[2] = i
    OBVIOUS
  <2> HIDE DEF e, f, slot
  <2>6. slot \in Stays(from, ms, f) \cup Comes(from, ms, f)
    <3>1. CASE f = e
      BY <2>2, <2>3, <3>1 DEF Stays, slot
    <3>2. CASE f # e
      <4>1. slot \in Matched(from)
        BY <1>9, <2>1, <2>2, <2>4, <3>2 DEF slot
      <4> QED BY <2>3, <2>5, <3>2, <4>1 DEF Comes
    <3> QED BY <3>1, <3>2
  <2>7. f \in DOMAIN edges' /\ \E j \in DOMAIN edges'[f].actions : Same(edges'[f], j, edges[slot[1]], slot[2])
    BY <1>r, <2>6
  <2>8. PICK j \in DOMAIN edges'[f].actions : Same(edges'[f], j, edges[slot[1]], slot[2])
    BY <2>7
  <2>9. edges'[f].actions[j] = log[t].action
    BY <2>1, <2>5, <2>8 DEF Same
  <2> QED BY <2>7, <2>9 DEF f
<1>11. ASSUME Singly(edges), OfTransitions(edges, members),
              NEW e \in DOMAIN edges', NEW i \in DOMAIN edges'[e].actions
       PROVE  \E t \in DOMAIN log : Ends(ms, t) = e /\ log[t].action = edges'[e].actions[i]
  <2>1. PICK slot \in Stays(from, ms, e) \cup Comes(from, ms, e) :
          Same(edges'[e], i, edges[slot[1]], slot[2])
    BY <1>r
  <2>2. edges'[e].actions[i] = edges[slot[1]].actions[slot[2]]
    BY <2>1 DEF Same
  <2>3. CASE slot \in Matched(from)
    <3>1. e \in Now(ms, slot)
      BY <2>1, <2>3 DEF Stays, Comes
    <3>2. PICK t \in Backing(slot[1], slot[2]) : e = Ends(ms, t)
      BY <3>1 DEF Now
    <3>3. t \in DOMAIN log /\ slot[2] = IndexOf(edges[slot[1]], log[t].action)
      BY <3>2 DEF Backing
    <3>4. slot[1] \in DOMAIN edges /\ slot[2] \in DOMAIN edges[slot[1]].actions
      BY <1>9, <2>3
    <3>5. Whole(edges[slot[1]])
      BY <1>4, <3>4 DEF PreparedAll, Prepared
    <3>6. 0 \notin DOMAIN edges[slot[1]].actions
      BY <3>5, WholeParts
    <3>7. edges[slot[1]].actions[slot[2]] = log[t].action
      BY <3>3, <3>4, <3>5, <3>6, IndexIs
    <3> QED BY <2>2, <3>2, <3>3, <3>7
  <2>4. CASE slot \notin Matched(from)
    <3>1. slot \in EntriesOf(e)
      BY <2>1, <2>4 DEF Stays, Comes
    <3>2. slot[1] = e /\ e \in DOMAIN edges /\ slot[2] \in DOMAIN edges[e].actions /\ slot = <<e, slot[2]>>
      BY <1>7, <3>1 DEF EntriesOf
    <3>3. PICK t \in DOMAIN log : Ends(members, t) = e /\ log[t].action = edges[e].actions[slot[2]]
      BY <1>11, <3>2 DEF OfTransitions
    <3>4. IndexOf(edges[e], log[t].action) = slot[2]
      BY <1>4, <1>11, <3>2, <3>3, SinglyIndexed
    <3>5. t \in Backing(e, slot[2])
      BY <3>3, <3>4 DEF Backing
    <3>6. e[1] # from /\ e[2] # from
      BY <1>9, <2>4, <3>2, <3>5
    <3>7. Ends(ms, t) = e
      BY <1>5, <3>3, <3>6
    <3> QED BY <2>2, <3>2, <3>3, <3>7
  <2> QED BY <2>3, <2>4
<1>12. OnTheirEdges(edges, members)'
  BY <1>2, <1>6, <1>10 DEF OnTheirEdges, OnEdge
<1>13. ASSUME Singly(edges), OfTransitions(edges, members)
       PROVE  OfTransitions(edges, members)'
  <2>1. OfTransitions(edges, members)' <=>
          \A f \in DOMAIN edges' : \A j \in DOMAIN edges'[f].actions :
            \E t \in DOMAIN log' : (Ends(members, t))' = f /\ log'[t].action = edges'[f].actions[j]
    BY DEF OfTransitions
  <2>2. log' = log
    BY <1>2
  <2> QED BY <1>6, <1>11, <1>13, <2>1, <2>2
<1>14. ~JoinRepeated => Singly(edges)'
  BY <1>2 DEF Repeats, IsInjective, Singly
<1>15. ListedAsRecorded'
  BY <1>2 DEF ListedAsRecorded
<1>16. KeptInv' /\ (~JoinRepeated /\ TransitionsInv => TransitionsInv')
  BY <1>1, <1>12, <1>13, <1>14, <1>15 DEF KeptInv, TransitionsInv
<1> QED BY <1>2, <1>16, RegroupedIs DEF AbstractStep, Advances

-----------------------------------------------------------------------------
LEMMA SameStutters ==
  ASSUME KeptInv, LoadsInv', UNCHANGED <<members, alias, edges, log>>,
         ~Growing' \/ phase' = phase
  PROVE  Advances
<1>1. \A t : (Ends(members, t))' = Ends(members, t)
  BY DEF Ends, NodeOf
<1>2. OnTheirEdges(edges, members)' /\ (Singly(edges) => Singly(edges)')
  BY <1>1 DEF KeptInv, OnTheirEdges, OnEdge, Singly
<1>3. OfTransitions(edges, members) => OfTransitions(edges, members)'
  BY <1>1 DEF OfTransitions
<1>4. ListedAsRecorded'
  BY DEF KeptInv, ListedAsRecorded, Growing
<1>5. Mapped' = Mapped /\ Related' = Related
  BY <1>1 DEF Mapped, Related
<1>6. KeptInv' /\ (TransitionsInv => TransitionsInv')
  BY <1>2, <1>3, <1>4 DEF KeptInv, TransitionsInv
<1>7. AbstractStep
  BY <1>5, StutterIs DEF AbstractStep
<1> QED BY <1>6, <1>7 DEF Advances

LEMMA ExploreAdvances ==
  ASSUME KeptInv, Explore
  PROVE  Advances
<1>1. ASSUME NEW n \in Screens, NEW s \in States, NEW a \in Actions, Step(a, n, s)
      PROVE  Advances
  BY <1>1, StepTakes
<1>2. ASSUME NEW n \in Screens \cup {Outside}, NEW s \in States, NEW a \in Actions,
             StepOutside(a, n, s)
      PROVE  Advances
  BY <1>2, StepOutsideTakes
<1>3. ASSUME NEW n \in Screens \cup {Outside}, NEW s \in States, NEW known \in BOOLEAN,
             Arrive(n, s, known)
      PROVE  Advances
  BY <1>3, ArriveStutters
<1>4. ASSUME NEW n \in Screens \cup {Outside}, NEW s \in States, OverlayStep(n, s)
      PROVE  Advances
  BY <1>4, OverlayStepStutters
<1> QED BY <1>1, <1>2, <1>3, <1>4 DEF Explore

LEMMA BuildAdvances ==
  ASSUME KeptInv, Build
  PROVE  Advances
<1>1. ASSUME NEW n \in Screens, NEW s \in States, NEW a \in Actions, BuildStep(a, n, s)
      PROVE  Advances
  BY <1>1, BuildStepTakes
<1>2. ASSUME NEW n \in Screens \cup {Outside}, NEW s \in States, NEW a \in Actions,
             BuildStepOutside(a, n, s)
      PROVE  Advances
  BY <1>2, BuildStepOutsideTakes
<1>3. ASSUME NEW n \in Screens \cup {Outside}, NEW s \in States, NEW known \in BOOLEAN,
             Match(n, s, known)
      PROVE  Advances
  BY <1>3, MatchStutters
<1> QED BY <1>1, <1>2, <1>3 DEF Build

LEMMA NextAdvances ==
  ASSUME KeptInv, [BuildNext]_buildVars
  PROVE  Advances
<1>0. LoadsInv'
  BY NextLoads DEF KeptInv
<1>1. CASE Explore
  BY <1>1, ExploreAdvances
<1>2. CASE Build
  BY <1>2, BuildAdvances
<1>4. CASE Wait
  BY <1>4, WaitStutters
<1>5. ASSUME NEW n \in InApp, NEW m \in InApp, Merge(n, m) PROVE Advances
  BY <1>5, MergeRegroups
<1>6. ASSUME NEW outside, BeginChecks(outside) PROVE Advances
  BY <1>0, <1>6, SameStutters DEF BeginChecks, graphVars, Growing
<1>7. ASSUME NEW n \in InApp, NEW group \in SUBSET apart[n], Split(n, group)
      PROVE  Advances
  <2>1. Relocated(n, group, next)
    BY <1>7, SplitRelocates DEF KeptInv
  <2> QED BY <2>1, RelocatedRegroups
<1>8. ASSUME NEW n \in InApp, NEW o \in apart[n], NEW to \in Screens, Move(n, o, to)
      PROVE  Advances
  <2>1. Relocated(n, {o}, to)
    BY <1>8 DEF Move, Relocated
  <2> QED BY <2>1, RelocatedRegroups
<1>9. CASE BeginMoves \/ EndChecks \/ UNCHANGED vars
  BY <1>0, <1>9, SameStutters DEF BeginMoves, EndChecks, vars, graphVars, Growing
<1> QED BY <1>1, <1>2, <1>4, <1>5, <1>6, <1>7, <1>8, <1>9 DEF BuildNext, Next, Done, buildVars

LEMMA KeptAtFirst == Init => KeptInv
<1> SUFFICES ASSUME Init PROVE KeptInv
  OBVIOUS
<1>1. LoadsInv
  BY InitLoads
<1>2. log = <<>> /\ DOMAIN log = {}
  BY DEF Init
<1> QED BY <1>1, <1>2 DEF KeptInv, ListedAsRecorded, OnTheirEdges

\* NoTransitionIsLost: whatever is explored or built, merged, split and moved, and although entries of
\* one action may come together, each transition's action is between the nodes its screens
\* belong to now.
THEOREM TransitionsStay == BuildSpec => []NoTransitionIsLost
<1>1. BuildInit => KeptInv
  BY KeptAtFirst DEF BuildInit
<1>2. KeptInv /\ [BuildNext]_buildVars => KeptInv'
  BY NextAdvances DEF Advances
<1>3. KeptInv => NoTransitionIsLost
  BY KeptInvGives
<1> QED BY <1>1, <1>2, <1>3, PTL DEF BuildSpec

\* EdgesAreTheTransitions: as long as no entries of one action come together on an edge, the
\* graph behaves as TransitionGraph does: each step takes a transition, regroups them all or
\* changes nothing.
THEOREM RefinesTransitionGraph ==
  ASSUME ~JoinRepeated
  PROVE  BuildSpec => EdgesAreTheTransitions
<1>1. BuildInit => TransitionsInv /\ Transitions!AbstractInit
  <2> SUFFICES ASSUME Init PROVE TransitionsInv /\ Transitions!AbstractInit
    BY DEF BuildInit
  <2>1. LoadsInv
    BY InitLoads
  <2>2. log = <<>> /\ edges = <<>> /\ DOMAIN log = {} /\ DOMAIN edges = {}
    BY DEF Init
  <2>3. TransitionsInv
    BY <2>1, <2>2, KeptAtFirst DEF TransitionsInv, Singly, OfTransitions
  <2>4. Mapped = <<>> /\ Related = {}
    <3>1. Related = {}
      BY <2>2 DEF Related
    <3>2. ASeq(Mapped) /\ Len(Mapped) = Len(log)
      BY <2>1, MappedIs DEF LoadsInv
    <3>3. Len(log) = 0
      BY <2>1, <2>2, SeqParts DEF LoadsInv, LogHolds
    <3> QED BY <3>1, <3>2, <3>3, SeqParts
  <2> QED BY <2>3, <2>4 DEF Transitions!AbstractInit, Mapped, Related
<1>2. TransitionsInv /\ [BuildNext]_buildVars =>
        TransitionsInv' /\ [Transitions!Take \/ Transitions!Regroup]_(Transitions!abstractVars)
  BY NextAdvances DEF Advances, AbstractStep, TransitionsInv
<1> QED BY <1>1, <1>2, PTL DEF BuildSpec, EdgesAreTheTransitions, Transitions!AbstractSpec

-----------------------------------------------------------------------------
(* The setup trail: the arrivals after a step.                             *)

\* The arrivals of a trail.
Arriving(a) ==
  ASeq(a) /\ \A k \in DOMAIN a : a[k] = [node |-> a[k].node, states |-> a[k].states,
                                          observation |-> a[k].observation]

LEMMA StatesChanged ==
  ASSUME NEW r, r = [node |-> r.node, states |-> r.states, observation |-> r.observation], NEW v
  PROVE  [r EXCEPT !.states = v] = [node |-> r.node, states |-> v, observation |-> r.observation]
OBVIOUS

\* The arrivals t of a trail with arrivals a after a step to what arrival p holds.
SteppedAs(t, a, p, n, new, found) ==
  /\ ASeq(t)
  /\ Len(t) = IF p = 0 THEN n + 1 ELSE p
  /\ DOMAIN t = IF p = 0 THEN 1..(n + 1) ELSE 1..p
  /\ p = 0 => t[n + 1] = new /\ \A k \in 1..n : t[k] = a[k]
  /\ p # 0 => /\ \A k \in 1..p : k # p => t[k] = a[k]
              /\ t[p] = [node |-> a[p].node,
                         states |-> IF a[p].states = <<>> THEN <<>> ELSE Append(a[p].states, found),
                         observation |-> a[p].observation]

LEMMA SteppedArrivals ==
  ASSUME NEW tr, Arriving(tr.arrivals), NEW names, NEW step, NEW reached, NEW state, NEW observation,
         NEW ns, ns = Stepped(tr, names, step, reached, state, observation),
         NEW found, found = [start |-> Len(Append(tr.sent, step)), state |-> state],
         NEW p, p = Position(tr, names, reached), NEW n, n = Len(tr.arrivals),
         NEW new, new = [node |-> reached, states |-> <<found>>, observation |-> observation],
         NEW t, t = ns.arrivals
  PROVE  ns.sent = Append(tr.sent, step) /\ SteppedAs(t, tr.arrivals, p, n, new, found)
<1> DEFINE kept == SubSeq(tr.arrivals, 1, p)
<1>0. ASeq(tr.arrivals)
  BY DEF Arriving
<1>1. p \in 0..n /\ n \in Nat /\ DOMAIN tr.arrivals = 1..n
  BY <1>0, PositionIs
<1>2. t = IF p = 0 THEN Append(tr.arrivals, new)
          ELSE IF kept[p].states = <<>> THEN kept
          ELSE [kept EXCEPT ![p].states = Append(@, found)]
  BY DEF Stepped
<1>3. ns.sent = Append(tr.sent, step)
  BY DEF Stepped
<1>4. CASE p = 0
  <2>1. t = Append(tr.arrivals, new)
    BY <1>2, <1>4
  <2>2. /\ ASeq(t) /\ Len(t) = n + 1 /\ t[n + 1] = new /\ \A i \in 1..n : t[i] = tr.arrivals[i]
    BY <1>0, <2>1, AppendParts
  <2>3. DOMAIN t = 1..(n + 1)
    BY <2>2, SeqParts
  <2> QED BY <1>3, <1>4, <2>2, <2>3 DEF SteppedAs
<1>5. CASE p # 0
  <2>1. /\ ASeq(kept) /\ Len(kept) = p /\ \A i \in 1..p : kept[i] = tr.arrivals[i]
        /\ p \in 1..n /\ p \in 1..p /\ \A i \in 1..p : i \in 1..n
    <3>1. 1 \in 1..(n + 1) /\ p \in 0..n /\ p \in 1..n /\ p \in 1..p /\ \A i \in 1..p : i \in 1..n
      BY <1>1, <1>5
    <3>2. /\ ASeq(kept) /\ Len(kept) = IF 1 <= p THEN p - 1 + 1 ELSE 0
          /\ \A i \in 1..(p - 1 + 1) : kept[i] = tr.arrivals[1 + i - 1]
      BY <1>0, <3>1, SubSeqParts
    <3>3. p - 1 + 1 = p /\ \A i \in 1..p : 1 + i - 1 = i
      BY <3>1
    <3> HIDE DEF kept
    <3> QED BY <3>1, <3>2, <3>3
  <2> HIDE DEF kept
  <2>2. DOMAIN kept = 1..p /\ p \in Nat
    BY <1>1, <2>1, SeqParts
  <2>3. tr.arrivals[p] = [node |-> tr.arrivals[p].node, states |-> tr.arrivals[p].states,
                          observation |-> tr.arrivals[p].observation]
    BY <1>1, <2>1 DEF Arriving
  <2>4. CASE kept[p].states = <<>>
    <3>1. t = kept
      BY <1>2, <1>5, <2>4
    <3>2. tr.arrivals[p].states = <<>>
      BY <2>1, <2>4
    <3> QED BY <1>3, <1>5, <2>1, <2>2, <2>3, <3>1, <3>2 DEF SteppedAs
  <2>5. CASE kept[p].states # <<>>
    <3> DEFINE last == [node |-> kept[p].node, states |-> Append(kept[p].states, found),
                        observation |-> kept[p].observation]
    <3>0. kept[p] = tr.arrivals[p]
      BY <2>1
    <3>1. t = [kept EXCEPT ![p] = last]
      <4>1. last = [kept[p] EXCEPT !.states = Append(kept[p].states, found)]
        <5>1. kept[p] = [node |-> kept[p].node, states |-> kept[p].states,
                         observation |-> kept[p].observation]
          BY <2>3, <3>0
        <5> QED BY <5>1, StatesChanged
      <4>2. t = [kept EXCEPT ![p] = [kept[p] EXCEPT !.states = Append(kept[p].states, found)]]
        BY <1>2, <1>5, <2>5
      <4> HIDE DEF last
      <4> QED BY <4>1, <4>2
    <3>2. last = [node |-> tr.arrivals[p].node, states |-> Append(tr.arrivals[p].states, found),
                  observation |-> tr.arrivals[p].observation]
      BY <3>0
    <3> HIDE DEF last
    <3>3. t = [k \in 1..p |-> t[k]] /\ \A k \in 1..p : t[k] = IF k = p THEN last ELSE kept[k]
      BY <2>2, <3>1
    <3>4. ASeq(t) /\ Len(t) = p /\ DOMAIN t = 1..p
      BY <2>1, <2>2, <3>3, ChangedParts
    <3>5. t[p] = last /\ tr.arrivals[p].states # <<>> /\ \A k \in 1..p : k # p => t[k] = tr.arrivals[k]
      BY <2>1, <2>5, <3>0, <3>3
    <3> QED BY <1>3, <1>5, <3>2, <3>4, <3>5 DEF SteppedAs
  <2> QED BY <2>4, <2>5
<1> QED BY <1>4, <1>5

-----------------------------------------------------------------------------
(* Setups: what _spans_in_force finds, by induction on the states.         *)

\* What found holds at i, in Spans.
FoundAt(found, i, states) ==
  IF i = 1 THEN [spans |-> <<>>, path |-> <<states[1].state>>]
  ELSE LedOn(found[i - 1], states[i - 1], states[i])

LEMMA FoundExists ==
  ASSUME NEW states, NEW n \in Nat \ {0}
  PROVE  \E f : f = [i \in 1..n |-> FoundAt(f, i, states)]
<1> DEFINE P(k) == \E f : f = [i \in 1..k |-> FoundAt(f, i, states)]
           T == {k \in Nat \ {0} : ~P(k)}
<1> SUFFICES ASSUME T # {} PROVE FALSE
  OBVIOUS
<1>1. PICK k \in T : \A m \in T : k <= m
  BY Smallest
<1> HIDE DEF P
<1>2. CASE k = 1
  <2> DEFINE g == [i \in 1..1 |-> [spans |-> <<>>, path |-> <<states[1].state>>]]
  <2>1. g = [i \in 1..1 |-> FoundAt(g, i, states)]
    BY DEF FoundAt
  <2>2. P(1)
    BY <2>1 DEF P
  <2> QED BY <1>1, <1>2, <2>2
<1>3. CASE k # 1
  <2>1. k \in Nat /\ k > 1 /\ k - 1 \in Nat \ {0} /\ P(k - 1)
    <3>1. k \in Nat /\ k > 1 /\ k - 1 \in Nat \ {0} /\ ~(k <= k - 1)
      BY <1>1, <1>3
    <3> QED BY <1>1, <3>1
  <2>2. PICK g : g = [i \in 1..(k - 1) |-> FoundAt(g, i, states)]
    BY <2>1 DEF P
  <2> DEFINE h == [i \in 1..k |-> IF i < k THEN g[i] ELSE FoundAt(g, k, states)]
  <2>3. ASSUME NEW i \in 1..k PROVE h[i] = FoundAt(h, i, states)
    <3>1. \A j \in 1..k : j < k => h[j] = g[j]
      OBVIOUS
    <3>2. h[k] = FoundAt(g, k, states)
      BY <2>1
    <3> HIDE DEF h
    <3>3. i = 1 \/ (i - 1 \in 1..k /\ i - 1 < k)
      BY <2>1
    <3>4. FoundAt(h, i, states) = FoundAt(g, i, states)
      BY <3>1, <3>3 DEF FoundAt
    <3>5. i < k => i \in 1..(k - 1)
      BY <2>1
    <3>6. i < k => g[i] = FoundAt(g, i, states)
      BY <2>2, <3>5
    <3>7. i < k \/ i = k
      BY <2>1
    <3> QED BY <3>1, <3>2, <3>4, <3>6, <3>7
  <2>4. h = [i \in 1..k |-> FoundAt(h, i, states)]
    <3>1. h = [i \in 1..k |-> h[i]]
      OBVIOUS
    <3> HIDE DEF h
    <3> QED BY <2>3, <3>1
  <2>5. P(k)
    BY <2>4 DEF P
  <2> QED BY <1>1, <2>5
<1> QED BY <1>2, <1>3

LEMMA FoundIs ==
  ASSUME NEW states, NEW n \in Nat \ {0}, Len(states) = n
  PROVE  \E f : f = [i \in 1..n |-> FoundAt(f, i, states)] /\ Spans(states) = f[n].spans
<1> DEFINE f == CHOOSE g : g = [i \in 1..n |-> FoundAt(g, i, states)]
<1>1. f = [i \in 1..n |-> FoundAt(f, i, states)]
  BY FoundExists
<1>2. Spans(states) = f[n].spans
  BY DEF Spans, FoundAt
<1> HIDE DEF f
<1> QED BY <1>1, <1>2

LEMMA PrefixParts ==
  ASSUME NEW s, ASeq(s), NEW n \in 0..Len(s)
  PROVE  /\ ASeq(SubSeq(s, 1, n)) /\ Len(SubSeq(s, 1, n)) = n
         /\ \A i \in 1..n : SubSeq(s, 1, n)[i] = s[i]
<1>1. Len(s) \in Nat /\ 1 \in 1..(Len(s) + 1) /\ n \in Nat
  BY SeqParts
<1>2. /\ ASeq(SubSeq(s, 1, n)) /\ Len(SubSeq(s, 1, n)) = IF 1 <= n THEN n - 1 + 1 ELSE 0
      /\ \A i \in 1..(n - 1 + 1) : SubSeq(s, 1, n)[i] = s[1 + i - 1]
  BY <1>1, SubSeqParts
<1> DEFINE t == SubSeq(s, 1, n)
<1> HIDE DEF t
<1>3. n - 1 + 1 = n /\ (~(1 <= n) => n = 0) /\ \A i \in 1..n : 1 + i - 1 = i
  BY <1>1
<1>4. ASeq(t) /\ Len(t) = n /\ \A i \in 1..n : t[i] = s[i]
  BY <1>2, <1>3 DEF t
<1> QED BY <1>4 DEF t

\* Each span goes from a state to the next, and together they go along path, from the first
\* state to state i.
Via(spans, path, states, i) ==
  /\ ASeq(spans) /\ ASeq(path) /\ Len(path) = Len(spans) + 1
  /\ path[1] = states[1].state /\ path[Len(path)] = states[i].state
  /\ \A k \in 1..Len(spans) : \E j \in 2..i :
       /\ spans[k] = <<states[j - 1].start, states[j].start>>
       /\ path[k] = states[j - 1].state /\ path[k + 1] = states[j].state

LEMMA LedOnVia ==
  ASSUME NEW spans, NEW path, NEW states, NEW i \in Nat \ {0}, Via(spans, path, states, i),
         NEW found, found.spans = spans, found.path = path,
         NEW g, g = LedOn(found, states[i], states[i + 1])
  PROVE  Via(g.spans, g.path, states, i + 1)
<1> DEFINE n == Len(spans)
           b == states[i]
           a == states[i + 1]
           back == SelectInSeq(path, LAMBDA state : state = a.state)
           I == {k \in 1..Len(path) : path[k] = a.state}
<1>1. /\ ASeq(spans) /\ ASeq(path) /\ n \in Nat /\ Len(path) = n + 1
      /\ path[1] = states[1].state /\ path[n + 1] = b.state
  BY SeqParts DEF Via
<1>2. \A k \in 1..n : \E j \in 2..i :
       /\ spans[k] = <<states[j - 1].start, states[j].start>>
       /\ path[k] = states[j - 1].state /\ path[k + 1] = states[j].state
  BY DEF Via
<1>3. g = IF back = 0
          THEN [spans |-> Append(spans, <<b.start, a.start>>), path |-> Append(path, a.state)]
          ELSE [spans |-> SubSeq(spans, 1, back - 1), path |-> SubSeq(path, 1, back)]
  BY DEF LedOn
<1>4. back = IF I # {} THEN Min(I) ELSE 0
  BY DEF SelectInSeq
<1>5. back = 0 \/ (back \in 1..(n + 1) /\ path[back] = a.state)
  <2>1. I \in SUBSET Nat /\ \A k \in I : k \in 1..(n + 1) /\ path[k] = a.state
    BY <1>1
  <2> HIDE DEF I, back
  <2> QED BY <1>4, <2>1, MinIs
<1> HIDE DEF back, I
<1>6. CASE back = 0
  <2> DEFINE s == Append(spans, <<b.start, a.start>>)
             p == Append(path, a.state)
  <2>1. /\ ASeq(s) /\ Len(s) = n + 1 /\ s[n + 1] = <<b.start, a.start>>
        /\ \A k \in 1..n : s[k] = spans[k]
    BY <1>1, AppendParts
  <2>2. /\ ASeq(p) /\ Len(p) = n + 2 /\ p[n + 2] = a.state /\ \A k \in 1..(n + 1) : p[k] = path[k]
    <3>1. /\ ASeq(p) /\ Len(p) = Len(path) + 1 /\ p[Len(path) + 1] = a.state
          /\ \A k \in 1..Len(path) : p[k] = path[k]
      BY <1>1, AppendParts
    <3>2. n + 1 + 1 = n + 2
      BY <1>1
    <3> HIDE DEF p
    <3> QED BY <1>1, <3>1, <3>2
  <2>3. g.spans = s /\ g.path = p
    BY <1>3, <1>6
  <2> HIDE DEF s, p
  <2>4. ASSUME NEW k \in 1..(n + 1)
        PROVE  \E j \in 2..(i + 1) : /\ s[k] = <<states[j - 1].start, states[j].start>>
                                     /\ p[k] = states[j - 1].state /\ p[k + 1] = states[j].state
    <3>1. CASE k = n + 1
      <4>1. i + 1 \in 2..(i + 1) /\ i + 1 - 1 = i /\ n + 1 + 1 = n + 2 /\ n + 1 \in 1..(n + 1)
        BY <1>1
      <4>2. /\ s[n + 1] = <<states[i].start, states[i + 1].start>>
            /\ p[n + 1] = states[i].state /\ p[n + 2] = states[i + 1].state
        BY <1>1, <2>1, <2>2, <4>1
      <4>3. /\ s[k] = <<states[i + 1 - 1].start, states[i + 1].start>>
            /\ p[k] = states[i + 1 - 1].state /\ p[k + 1] = states[i + 1].state
        BY <3>1, <4>1, <4>2
      <4> QED BY <4>1, <4>3
    <3>2. CASE k # n + 1
      <4>1. k \in 1..n /\ k \in 1..(n + 1) /\ k + 1 \in 1..(n + 1)
        BY <1>1, <3>2
      <4>2. PICK j \in 2..i : /\ spans[k] = <<states[j - 1].start, states[j].start>>
                              /\ path[k] = states[j - 1].state /\ path[k + 1] = states[j].state
        BY <1>2, <4>1
      <4>3. j \in 2..(i + 1)
        OBVIOUS
      <4>4. s[k] = spans[k] /\ p[k] = path[k] /\ p[k + 1] = path[k + 1]
        BY <2>1, <2>2, <4>1
      <4> QED BY <4>2, <4>3, <4>4
    <3> QED BY <3>1, <3>2
  <2>5. p[1] = states[1].state
    BY <1>1, <2>2
  <2>6. Len(p) = Len(s) + 1 /\ p[Len(p)] = states[i + 1].state
    BY <1>1, <2>1, <2>2
  <2>7. Via(s, p, states, i + 1)
    BY <2>1, <2>2, <2>4, <2>5, <2>6 DEF Via
  <2> QED BY <2>3, <2>7
<1>7. CASE back # 0
  <2> DEFINE m == back - 1
             s == SubSeq(spans, 1, m)
             p == SubSeq(path, 1, back)
  <2>1. m \in 0..n /\ back \in 0..Len(path) /\ m + 1 = back /\ m \in Nat /\ back \in 1..back
        /\ 1 \in 1..back
    BY <1>1, <1>5, <1>7
  <2>2. g.spans = s /\ g.path = p
    <3>1. g = [spans |-> s, path |-> p]
      BY <1>3, <1>7, Zenon
    <3> HIDE DEF s, p
    <3> QED BY <3>1
  <2> HIDE DEF m
  <2>3. ASeq(s) /\ Len(s) = m /\ \A k \in 1..m : s[k] = spans[k]
    BY <1>1, <2>1, PrefixParts
  <2>4. ASeq(p) /\ Len(p) = back /\ \A k \in 1..back : p[k] = path[k]
    BY <1>1, <2>1, PrefixParts
  <2> HIDE DEF s, p
  <2>5. p[1] = states[1].state /\ p[back] = a.state
    BY <1>1, <1>5, <1>7, <2>1, <2>4
  <2>6. ASSUME NEW k \in 1..m
        PROVE  \E j \in 2..(i + 1) : /\ s[k] = <<states[j - 1].start, states[j].start>>
                                     /\ p[k] = states[j - 1].state /\ p[k + 1] = states[j].state
    <3>1. k \in 1..n /\ k \in 1..back /\ k + 1 \in 1..back
      BY <1>1, <2>1
    <3>2. PICK j \in 2..i : /\ spans[k] = <<states[j - 1].start, states[j].start>>
                            /\ path[k] = states[j - 1].state /\ path[k + 1] = states[j].state
      BY <1>2, <3>1
    <3>3. j \in 2..(i + 1)
      OBVIOUS
    <3> QED BY <2>3, <2>4, <3>1, <3>2, <3>3
  <2> QED BY <2>1, <2>2, <2>3, <2>4, <2>5, <2>6 DEF Via
<1> QED BY <1>6, <1>7

LEMMA SpansAre ==
  ASSUME NEW states, ASeq(states), states # <<>>
  PROVE  \E path : Via(Spans(states), path, states, Len(states))
<1> DEFINE n == Len(states)
<1>1. n \in Nat \ {0}
  BY SeqParts
<1>2. PICK f : f = [i \in 1..n |-> FoundAt(f, i, states)] /\ Spans(states) = f[n].spans
  BY <1>1, FoundIs
<1> DEFINE T == {k \in 1..n : ~Via(f[k].spans, f[k].path, states, k)}
<1> HIDE DEF n
<1>3. T = {}
  <2> SUFFICES ASSUME T # {} PROVE FALSE
    OBVIOUS
  <2>1. T \in SUBSET Nat
    BY <1>1
  <2>2. PICK k \in T : \A m \in T : k <= m
    BY <2>1, Smallest
  <2>3. CASE k = 1
    <3> DEFINE st == states[1].state
    <3>1. f[1] = [spans |-> <<>>, path |-> <<st>>]
      BY <1>1, <1>2 DEF FoundAt
    <3> HIDE DEF st
    <3>2. /\ <<>> \in Seq({}) /\ Len(<<>>) = 0 /\ <<st>> \in Seq({st}) /\ Len(<<st>>) = 1
          /\ <<st>>[1] = st
      OBVIOUS
    <3>3. ASeq(<<>>) /\ ASeq(<<st>>)
      BY <3>2 DEF ASeq
    <3>4. Via(<<>>, <<st>>, states, 1)
      BY <3>2, <3>3 DEF Via, st
    <3> QED BY <2>2, <2>3, <3>1, <3>4
  <2>4. CASE k # 1
    <3> DEFINE i == k - 1
    <3>1. i \in Nat \ {0} /\ i + 1 = k /\ i \in 1..n /\ i \notin T /\ k \in 1..n
      <4>1. k \in 1..n /\ i \in Nat \ {0} /\ i + 1 = k /\ i \in 1..n /\ ~(k <= i)
        BY <1>1, <2>2, <2>4
      <4> HIDE DEF i
      <4> QED BY <2>2, <4>1
    <3>2. Via(f[i].spans, f[i].path, states, i)
      BY <3>1
    <3>3. f[k] = LedOn(f[i], states[i], states[i + 1])
      BY <1>2, <2>4, <3>1 DEF FoundAt
    <3> HIDE DEF i
    <3>4. Via(f[k].spans, f[k].path, states, i + 1)
      BY <3>1, <3>2, <3>3, LedOnVia
    <3> QED BY <2>2, <3>1, <3>4
  <2> QED BY <2>3, <2>4
<1>4. n \in 1..n
  BY <1>1
<1>5. Via(f[n].spans, f[n].path, states, n)
  BY <1>3, <1>4
<1> QED BY <1>2, <1>5 DEF n

-----------------------------------------------------------------------------
\* What flatten holds at i, in FlattenSeq.
JoinedAt(f, i, seqs) == IF i = 1 THEN seqs[i] ELSE f[i - 1] \o seqs[i]

LEMMA JoinsExist ==
  ASSUME NEW seqs, NEW n \in Nat \ {0}
  PROVE  \E f : f = [i \in 1..n |-> JoinedAt(f, i, seqs)]
<1> DEFINE P(k) == \E f : f = [i \in 1..k |-> JoinedAt(f, i, seqs)]
           T == {k \in Nat \ {0} : ~P(k)}
<1> SUFFICES ASSUME T # {} PROVE FALSE
  OBVIOUS
<1>1. PICK k \in T : \A m \in T : k <= m
  BY Smallest
<1> HIDE DEF P
<1>2. CASE k = 1
  <2> DEFINE g == [i \in 1..1 |-> seqs[1]]
  <2>1. g = [i \in 1..1 |-> JoinedAt(g, i, seqs)]
    BY DEF JoinedAt
  <2>2. P(1)
    BY <2>1 DEF P
  <2> QED BY <1>1, <1>2, <2>2
<1>3. CASE k # 1
  <2>1. k \in Nat /\ k > 1 /\ k - 1 \in Nat \ {0} /\ P(k - 1)
    <3>1. k \in Nat /\ k > 1 /\ k - 1 \in Nat \ {0} /\ ~(k <= k - 1)
      BY <1>1, <1>3
    <3> QED BY <1>1, <3>1
  <2>2. PICK g : g = [i \in 1..(k - 1) |-> JoinedAt(g, i, seqs)]
    BY <2>1 DEF P
  <2> DEFINE h == [i \in 1..k |-> IF i < k THEN g[i] ELSE JoinedAt(g, k, seqs)]
  <2>3. ASSUME NEW i \in 1..k PROVE h[i] = JoinedAt(h, i, seqs)
    <3>1. \A j \in 1..k : j < k => h[j] = g[j]
      OBVIOUS
    <3>2. h[k] = JoinedAt(g, k, seqs)
      BY <2>1
    <3> HIDE DEF h
    <3>3. i = 1 \/ (i - 1 \in 1..k /\ i - 1 < k)
      BY <2>1
    <3>4. JoinedAt(h, i, seqs) = JoinedAt(g, i, seqs)
      BY <3>1, <3>3 DEF JoinedAt
    <3>5. i < k => i \in 1..(k - 1)
      BY <2>1
    <3>6. i < k => g[i] = JoinedAt(g, i, seqs)
      BY <2>2, <3>5
    <3>7. i < k \/ i = k
      BY <2>1
    <3> QED BY <3>1, <3>2, <3>4, <3>6, <3>7
  <2>4. h = [i \in 1..k |-> JoinedAt(h, i, seqs)]
    <3>1. h = [i \in 1..k |-> h[i]]
      OBVIOUS
    <3> HIDE DEF h
    <3> QED BY <2>3, <3>1
  <2>5. P(k)
    BY <2>4 DEF P
  <2> QED BY <1>1, <2>5
<1> QED BY <1>2, <1>3

LEMMA FlattenIs ==
  ASSUME NEW seqs, NEW n \in Nat \ {0}, Len(seqs) = n
  PROVE  \E f : f = [i \in 1..n |-> JoinedAt(f, i, seqs)] /\ FlattenSeq(seqs) = f[n]
<1> DEFINE f == CHOOSE g : g = [i \in 1..n |-> JoinedAt(g, i, seqs)]
<1>1. f = [i \in 1..n |-> JoinedAt(f, i, seqs)]
  BY JoinsExist
<1>2. FlattenSeq(seqs) = f[n]
  BY DEF FlattenSeq, JoinedAt
<1> HIDE DEF f
<1> QED BY <1>1, <1>2

-----------------------------------------------------------------------------
(* Setups lead to their action: the inductive invariant.                   *)

\* What screenshot o shows: the node it is of now, and the state it is in.
Shows(al, sc, o) == <<al[sc[o].node], sc[o].state>>

\* The steps s go from a screen that shows u to one that shows v.
Goes(s, u, v, al, sc, lg) ==
  /\ ASeq(s) /\ \A i \in DOMAIN s : s[i] \in DOMAIN lg
  /\ s = <<>> => u = v
  /\ s # <<>> => /\ u = Shows(al, sc, lg[s[1]].before)
                 /\ Shows(al, sc, lg[s[Len(s)]].after) = v
  /\ \A i \in 2..Len(s) : Shows(al, sc, lg[s[i - 1]].after) = Shows(al, sc, lg[s[i]].before)

\* A setup leads from its anchor, if it has one, to the screen its own step was taken on.
FirstOf(setup) == IF setup.sent = <<>> THEN setup.step ELSE setup.sent[1]
Chained(setup, o, al, sc, lg) ==
  LET s == setup.sent
  IN /\ setup.step \in DOMAIN lg /\ ASeq(s) /\ \A i \in DOMAIN s : s[i] \in DOMAIN lg
     /\ o # NoObservation =>
          o \in DOMAIN sc /\ Shows(al, sc, o) = Shows(al, sc, lg[FirstOf(setup)].before)
     /\ s # <<>> => Shows(al, sc, lg[s[Len(s)]].after) = Shows(al, sc, lg[setup.step].before)
     /\ \A i \in 2..Len(s) : Shows(al, sc, lg[s[i - 1]].after) = Shows(al, sc, lg[s[i]].before)

\* It need not where an input was covered on the way.
Open(setup, o, lg, cov) == \A c \in cov : ~(o < c /\ c <= lg[setup.step].before)
Leads(setup, o, al, sc, lg, cov) ==
  setup.step \in DOMAIN lg /\ (Open(setup, o, lg, cov) => Chained(setup, o, al, sc, lg))

\* The preparations of entry i of edge x lead where they say.
Supported(x, i, al, sc, lg, cov) ==
  /\ Known(x.setups[i]) => Leads(x.setups[i], x.anchors[i], al, sc, lg, cov)
  /\ \A j \in DOMAIN x.alternatives[i] :
       Leads(x.alternatives[i][j].setup, x.alternatives[i][j].observation, al, sc, lg, cov)
AllSupported(es, al, sc, lg, cov) ==
  \A e \in DOMAIN es : \A i \in DOMAIN es[e].actions : Supported(es[e], i, al, sc, lg, cov)

\* The screenshot the device was on after k of the steps sent, which have led to o.
Facing(sent, k, o, lg) == IF k < Len(sent) THEN lg[sent[k + 1]].before ELSE o

\* From the first b on, the steps of a trail join up, and lead to o.
JoinsUp(sent, b, o, al, sc, lg) ==
  /\ ASeq(sent) /\ o \in DOMAIN sc /\ b \in 0..Len(sent)
  /\ \A k \in DOMAIN sent :
       /\ sent[k] \in DOMAIN lg
       /\ k > b => Shows(al, sc, lg[sent[k]].after) = Shows(al, sc, Facing(sent, k, o, lg))

\* An arrival holds the states its node was in after the steps where they start.
Reached(a, sent, b, o, al, sc, lg) ==
  /\ a.node \in Ids /\ ASeq(a.states)
  /\ a.states # <<>> /\ a.observation # NoObservation =>
       /\ a.observation \in DOMAIN sc
       /\ Shows(al, sc, a.observation) = <<al[a.node], a.states[1].state>>
  /\ \A j \in DOMAIN a.states :
       /\ a.states[j].start \in b..Len(sent)
       /\ Shows(al, sc, Facing(sent, a.states[j].start, o, lg)) = <<al[a.node], a.states[j].state>>
  /\ \A i, j \in DOMAIN a.states : i < j => a.states[i].start <= a.states[j].start

\* No input was covered after observation o.
Since(o, cov) == \A c \in cov : c <= o

\* The trail has come to screenshot o of node n.  Of its arrivals, those that no covered input
\* came after hold what their nodes showed, and if there are any, it arrived at n last.
TrailLeads(tr, b, o, n, al, sc, lg, cov) ==
  /\ JoinsUp(tr.sent, b, o, al, sc, lg) /\ al[sc[o].node] = al[n]
  /\ Arriving(tr.arrivals) /\ tr.arrivals # <<>>
  /\ \A k \in DOMAIN tr.arrivals :
       /\ tr.arrivals[k].node \in Ids /\ tr.arrivals[k].observation \in Int
       /\ Since(tr.arrivals[k].observation, cov) =>
            /\ Reached(tr.arrivals[k], tr.sent, b, o, al, sc, lg)
            /\ al[tr.arrivals[Len(tr.arrivals)].node] = al[n]
  /\ LET last == tr.arrivals[Len(tr.arrivals)]
     IN Since(last.observation, cov) /\ last.states # <<>> =>
          last.states[Len(last.states)].start = Len(tr.sent)

\* The trail has led to the latest screenshot.
TrailSupports ==
  \E b \in Nat : TrailLeads(trail, b, at.observation, at.node, alias, screens, log, covered)

\* In a build, the screen matched last is the one the position is on, and a trail that is
\* continued has come there.
Built ==
  /\ covered = {} /\ run.match \in 1..Seen /\ run.head \in 0..Seen
  /\ screens[run.match] = screens[Seen] /\ run.arrival \in BOOLEAN
  /\ run = [head |-> run.head, match |-> run.match, arrival |-> run.arrival]
  /\ alias[screens[Seen].node] = alias[at.node]
  /\ run.head = run.match => TrailSupports

ScreensNamed == \A o \in DOMAIN screens : screens[o].node \in Ids
\* Every preparation leads to its action.
RecordsSupported ==
  /\ ScreensNamed /\ at.observation = Seen /\ covered \subseteq 1..Seen
  /\ AllSupported(edges, alias, screens, log, covered)
Supports ==
  /\ RecordsSupported
  /\ phase = "explore" => TrailSupports
  /\ phase = "build" => Built
SetupsInv == LoadsInv /\ (Growing => Supports)

-----------------------------------------------------------------------------
LEMMA NowhereGoes ==
  ASSUME NEW u, NEW al, NEW sc, NEW lg
  PROVE  Goes(<<>>, u, u, al, sc, lg)
<1>1. ASeq(<<>>) /\ Len(<<>>) = 0 /\ DOMAIN <<>> = {}
  BY EmptySeq DEF ASeq
<1> QED BY <1>1 DEF Goes

LEMMA GoesOn ==
  ASSUME NEW s, NEW t, NEW u, NEW v, NEW w, NEW al, NEW sc, NEW lg,
         Goes(s, u, v, al, sc, lg), Goes(t, v, w, al, sc, lg)
  PROVE  Goes(s \o t, u, w, al, sc, lg)
<1> DEFINE r == s \o t
           m == Len(s)
           n == Len(t)
           Left(k) == Shows(al, sc, lg[k].before)
           Got(k) == Shows(al, sc, lg[k].after)
<1>1. /\ ASeq(s) /\ ASeq(t) /\ m \in Nat /\ n \in Nat /\ DOMAIN s = 1..m /\ DOMAIN t = 1..n
      /\ (s = <<>> <=> m = 0) /\ (t = <<>> <=> n = 0)
  BY SeqParts DEF Goes
<1>2. /\ ASeq(r) /\ Len(r) = m + n /\ \A i \in 1..m : r[i] = s[i]
      /\ \A i \in 1..n : r[m + i] = t[i]
  BY <1>1, ConcatParts
<1>3. DOMAIN r = 1..(m + n) /\ (r = <<>> <=> m + n = 0)
  BY <1>2, SeqParts
<1>4. /\ \A i \in 1..m : s[i] \in DOMAIN lg
      /\ m = 0 => u = v
      /\ m # 0 => u = Left(s[1]) /\ Got(s[m]) = v
      /\ \A i \in 2..m : Got(s[i - 1]) = Left(s[i])
  BY <1>1 DEF Goes
<1>5. /\ \A i \in 1..n : t[i] \in DOMAIN lg
      /\ n = 0 => v = w
      /\ n # 0 => v = Left(t[1]) /\ Got(t[n]) = w
      /\ \A i \in 2..n : Got(t[i - 1]) = Left(t[i])
  BY <1>1 DEF Goes
<1> HIDE DEF r, m, n, Left, Got
<1>6. \A i \in 1..(m + n) : i \in 1..m \/ (i - m \in 1..n /\ m + (i - m) = i)
  BY <1>1
<1>7. \A i \in 1..(m + n) : r[i] \in DOMAIN lg
  <2> SUFFICES ASSUME NEW i \in 1..(m + n) PROVE r[i] \in DOMAIN lg
    OBVIOUS
  <2>1. CASE i \in 1..m
    BY <1>2, <1>4, <2>1
  <2>2. CASE i - m \in 1..n /\ m + (i - m) = i
    <3>1. r[m + (i - m)] = t[i - m]
      BY <1>2, <2>2
    <3> QED BY <1>5, <2>2, <3>1
  <2> QED BY <1>6, <2>1, <2>2
<1>8. m + n = 0 => u = w
  BY <1>1, <1>4, <1>5
<1>9. m + n # 0 => u = Left(r[1]) /\ Got(r[m + n]) = w
  <2>1. CASE m = 0 /\ n # 0
    <3>1. 1 \in 1..n /\ n \in 1..n /\ m + 1 = 1 /\ m + n = n
      BY <1>1, <2>1
    <3>2. r[1] = t[1] /\ r[m + n] = t[n]
      BY <1>2, <3>1
    <3> QED BY <1>4, <1>5, <2>1, <3>2
  <2>2. CASE m # 0 /\ n = 0
    <3>1. 1 \in 1..m /\ m \in 1..m /\ m + n = m
      BY <1>1, <2>2
    <3> QED BY <1>2, <1>4, <1>5, <2>2, <3>1
  <2>3. CASE m # 0 /\ n # 0
    <3>1. 1 \in 1..m /\ n \in 1..n
      BY <1>1, <2>3
    <3> QED BY <1>2, <1>4, <1>5, <2>3, <3>1
  <2> QED BY <1>1, <2>1, <2>2, <2>3
<1>10. \A i \in 2..(m + n) : Got(r[i - 1]) = Left(r[i])
  <2> SUFFICES ASSUME NEW i \in 2..(m + n) PROVE Got(r[i - 1]) = Left(r[i])
    OBVIOUS
  <2>1. CASE i <= m
    <3>1. i \in 2..m /\ i \in 1..m /\ i - 1 \in 1..m
      BY <1>1, <2>1
    <3> QED BY <1>2, <1>4, <3>1
  <2>2. CASE i = m + 1
    <3>1. m # 0 /\ m \in 1..m /\ n # 0 /\ 1 \in 1..n /\ i - 1 = m
      BY <1>1, <2>2
    <3> QED BY <1>2, <1>4, <1>5, <2>2, <3>1
  <2>3. CASE i > m + 1
    <3> DEFINE j == i - m
    <3>1. j \in 2..n /\ j \in 1..n /\ j - 1 \in 1..n /\ m + j = i /\ m + (j - 1) = i - 1
      BY <1>1, <2>3
    <3> HIDE DEF j
    <3>2. r[m + j] = t[j] /\ r[m + (j - 1)] = t[j - 1]
      BY <1>2, <3>1
    <3> QED BY <1>5, <3>1, <3>2
  <2> QED BY <1>1, <2>1, <2>2, <2>3
<1>11. Goes(r, u, w, al, sc, lg)
  BY <1>2, <1>3, <1>7, <1>8, <1>9, <1>10 DEF Goes, Left, Got
<1> QED BY <1>11 DEF r

\* A part of the trail goes from the screen it starts on to the one it ends on.
LEMMA SegmentGoes ==
  ASSUME NEW sent, NEW b, NEW o, NEW al, NEW sc, NEW lg, JoinsUp(sent, b, o, al, sc, lg),
         NEW x \in b..Len(sent), NEW y \in b..Len(sent), x <= y
  PROVE  Goes(SubSeq(sent, x + 1, y), Shows(al, sc, Facing(sent, x, o, lg)),
              Shows(al, sc, Facing(sent, y, o, lg)), al, sc, lg)
<1> DEFINE n == Len(sent)
           t == SubSeq(sent, x + 1, y)
           Left(k) == Shows(al, sc, lg[k].before)
           Got(k) == Shows(al, sc, lg[k].after)
           At(k) == Shows(al, sc, Facing(sent, k, o, lg))
<1>1. ASeq(sent) /\ n \in Nat /\ DOMAIN sent = 1..n /\ b \in 0..n
  BY SeqParts DEF JoinsUp
<1>2. \A k \in 1..n : sent[k] \in DOMAIN lg /\ (k > b => Got(sent[k]) = At(k))
  BY <1>1 DEF JoinsUp
<1>3. \A k \in 0..n : k < n => At(k) = Left(sent[k + 1])
  BY DEF Facing
<1>4. /\ ASeq(t) /\ Len(t) = y - x /\ \A i \in 1..(y - x) : t[i] = sent[x + i]
  <2>1. x + 1 \in 1..(n + 1) /\ y \in 0..n
    BY <1>1
  <2>2. /\ ASeq(t) /\ Len(t) = IF x + 1 <= y THEN y - (x + 1) + 1 ELSE 0
        /\ \A i \in 1..(y - (x + 1) + 1) : t[i] = sent[x + 1 + i - 1]
    BY <1>1, <2>1, SubSeqParts
  <2> HIDE DEF t, n
  <2>3. /\ y - (x + 1) + 1 = y - x /\ (~(x + 1 <= y) => y - x = 0)
        /\ \A i \in 1..(y - x) : x + 1 + i - 1 = x + i
    BY <1>1
  <2> QED BY <2>2, <2>3
<1> HIDE DEF n, t, At, Left, Got
<1>5. y - x \in Nat /\ \A i \in 1..(y - x) : x + i \in 1..n
  BY <1>1 DEF n
<1>6. DOMAIN t = 1..(y - x) /\ (t = <<>> <=> y - x = 0)
  BY <1>4, SeqParts
<1>7. \A i \in 1..(y - x) : t[i] \in DOMAIN lg
  BY <1>2, <1>4, <1>5
<1>8. y - x = 0 => At(x) = At(y)
  <2>1. y - x = 0 => x = y
    OBVIOUS
  <2> QED BY <2>1
<1>9. y - x # 0 => At(x) = Left(t[1]) /\ Got(t[y - x]) = At(y)
  <2> SUFFICES ASSUME y - x # 0 PROVE At(x) = Left(t[1]) /\ Got(t[y - x]) = At(y)
    OBVIOUS
  <2>1. /\ 1 \in 1..(y - x) /\ y - x \in 1..(y - x) /\ x + (y - x) = y /\ x \in 0..n /\ x < n
        /\ y \in 1..n /\ y > b
    BY <1>1 DEF n
  <2> QED BY <1>2, <1>3, <1>4, <2>1
<1>10. \A i \in 2..(y - x) : Got(t[i - 1]) = Left(t[i])
  <2> SUFFICES ASSUME NEW i \in 2..(y - x) PROVE Got(t[i - 1]) = Left(t[i])
    OBVIOUS
  <2> DEFINE k == x + (i - 1)
  <2>1. /\ i - 1 \in 1..(y - x) /\ i \in 1..(y - x) /\ k \in 1..n /\ k \in 0..n /\ k < n
        /\ k + 1 = x + i /\ k > b
    BY <1>1 DEF n
  <2>2. t[i - 1] = sent[k] /\ t[i] = sent[k + 1]
    BY <1>4, <2>1
  <2> HIDE DEF k
  <2> QED BY <1>2, <1>3, <2>1, <2>2
<1>11. Goes(t, At(x), At(y), al, sc, lg)
  BY <1>4, <1>6, <1>7, <1>8, <1>9, <1>10 DEF Goes, Left, Got
<1> QED BY <1>11 DEF t, At

\* The steps of a setup: its spans, one after the other.
StepsOf(spans, sent) == [i \in DOMAIN spans |-> SubSeq(sent, spans[i][1] + 1, spans[i][2])]

LEMMA SpansGo ==
  ASSUME NEW sent, NEW b, NEW o, NEW al, NEW sc, NEW lg, JoinsUp(sent, b, o, al, sc, lg),
         NEW a, Reached(a, sent, b, o, al, sc, lg), NEW spans, NEW path, NEW n, n = Len(a.states),
         Via(spans, path, a.states, n)
  PROVE  Goes(FlattenSeq(StepsOf(spans, sent)), <<al[a.node], path[1]>>,
              <<al[a.node], path[Len(path)]>>, al, sc, lg)
<1> DEFINE m == Len(spans)
           seqs == StepsOf(spans, sent)
           st == a.states
           Is(k) == <<al[a.node], path[k]>>
<1>1. /\ ASeq(spans) /\ m \in Nat /\ DOMAIN spans = 1..m /\ Len(path) = m + 1
      /\ ASeq(st) /\ n \in Nat /\ DOMAIN st = 1..n
  BY SeqParts DEF Via, Reached
<1>2. DOMAIN seqs = 1..m /\ seqs = [i \in 1..m |-> seqs[i]]
      /\ \A i \in 1..m : seqs[i] = SubSeq(sent, spans[i][1] + 1, spans[i][2])
  BY <1>1 DEF StepsOf
<1>3. ASeq(seqs) /\ Len(seqs) = m
  <2> HIDE DEF m, seqs
  <2> QED BY <1>1, <1>2, ListIsSeq
<1>4. ASSUME NEW k \in 1..m PROVE Goes(seqs[k], Is(k), Is(k + 1), al, sc, lg)
  <2>1. PICK j \in 2..n : /\ spans[k] = <<st[j - 1].start, st[j].start>>
                          /\ path[k] = st[j - 1].state /\ path[k + 1] = st[j].state
    BY DEF Via
  <2>2. j - 1 \in 1..n /\ j \in 1..n /\ j - 1 < j
    BY <1>1
  <2> DEFINE x == st[j - 1].start
             y == st[j].start
  <2>3. /\ x \in b..Len(sent) /\ y \in b..Len(sent) /\ x <= y
        /\ Shows(al, sc, Facing(sent, x, o, lg)) = <<al[a.node], st[j - 1].state>>
        /\ Shows(al, sc, Facing(sent, y, o, lg)) = <<al[a.node], st[j].state>>
    BY <1>1, <2>2 DEF Reached
  <2>4. seqs[k] = SubSeq(sent, x + 1, y)
    BY <1>2, <2>1
  <2> HIDE DEF x, y, seqs
  <2>5. Goes(SubSeq(sent, x + 1, y), Shows(al, sc, Facing(sent, x, o, lg)),
             Shows(al, sc, Facing(sent, y, o, lg)), al, sc, lg)
    BY <2>3, SegmentGoes
  <2> QED BY <2>1, <2>3, <2>4, <2>5
<1>5. CASE m = 0
  <2>1. seqs = <<>> /\ Len(seqs) = 0 /\ Len(path) = 1
    BY <1>1, <1>3, <1>5, SeqParts
  <2>2. FlattenSeq(seqs) = seqs
    <3> HIDE DEF seqs
    <3> QED BY <2>1 DEF FlattenSeq
  <2> HIDE DEF seqs
  <2>3. Goes(FlattenSeq(seqs), Is(1), Is(1), al, sc, lg)
    BY <2>1, <2>2, NowhereGoes
  <2> QED BY <2>1, <2>3 DEF seqs
<1>6. CASE m # 0
  <2>1. m \in Nat \ {0} /\ m \in 1..m
    BY <1>1, <1>6
  <2> HIDE DEF m, seqs, Is
  <2>2. PICK f : f = [i \in 1..m |-> JoinedAt(f, i, seqs)] /\ FlattenSeq(seqs) = f[m]
    BY <1>3, <2>1, FlattenIs
  <2> DEFINE T == {k \in 1..m : ~Goes(f[k], Is(1), Is(k + 1), al, sc, lg)}
  <2>3. T = {}
    <3> SUFFICES ASSUME T # {} PROVE FALSE
      OBVIOUS
    <3>1. T \in SUBSET Nat
      BY <2>1
    <3>2. PICK k \in T : \A j \in T : k <= j
      BY <3>1, Smallest
    <3>3. CASE k = 1
      <4>1. f[1] = seqs[1] /\ 1 \in 1..m
        BY <2>1, <2>2 DEF JoinedAt
      <4>2. Goes(f[1], Is(1), Is(1 + 1), al, sc, lg)
        BY <1>4, <4>1
      <4> QED BY <3>2, <3>3, <4>2
    <3>4. CASE k # 1
      <4> DEFINE i == k - 1
      <4>1. i \in 1..m /\ i + 1 = k /\ k \in 1..m /\ ~(k <= i)
        BY <2>1, <3>2, <3>4
      <4>2. f[k] = f[i] \o seqs[k]
        BY <2>2, <3>4, <4>1 DEF JoinedAt
      <4> HIDE DEF i
      <4>3. Goes(f[i], Is(1), Is(k), al, sc, lg)
        BY <3>2, <4>1
      <4>4. Goes(seqs[k], Is(k), Is(k + 1), al, sc, lg)
        BY <1>4, <4>1
      <4>5. Goes(f[k], Is(1), Is(k + 1), al, sc, lg)
        BY <4>2, <4>3, <4>4, GoesOn
      <4> QED BY <3>2, <4>5
    <3> QED BY <3>3, <3>4
  <2>4. Goes(f[m], Is(1), Is(m + 1), al, sc, lg)
    BY <2>1, <2>3
  <2> QED BY <1>1, <2>2, <2>4 DEF Is, seqs
<1> QED BY <1>5, <1>6

\* The setup read off a trail leads from the observation it starts from to the screen, unless
\* an input was covered since.
LEMMA SetupGoes ==
  ASSUME NEW tr, NEW b, NEW o, NEW n, NEW al, NEW sc, NEW lg, NEW cov,
         TrailLeads(tr, b, o, n, al, sc, lg, cov),
         NEW s, s = Setup(tr, al, n), s # Unknown,
         NEW anchor, anchor = SetupObservation(tr, al, n)
  PROVE  /\ anchor \in Int
         /\ Since(anchor, cov) =>
              \E u : /\ Goes(s, u, Shows(al, sc, o), al, sc, lg)
                     /\ anchor # NoObservation => anchor \in DOMAIN sc /\ Shows(al, sc, anchor) = u
<1> DEFINE p == Position(tr, al, n)
           q == Len(tr.arrivals)
           a == tr.arrivals[p]
           spans == Spans(a.states)
<1>1. /\ ASeq(tr.arrivals) /\ tr.arrivals # <<>> /\ JoinsUp(tr.sent, b, o, al, sc, lg)
      /\ \A k \in DOMAIN tr.arrivals :
           /\ tr.arrivals[k].observation \in Int
           /\ Since(tr.arrivals[k].observation, cov) =>
                /\ Reached(tr.arrivals[k], tr.sent, b, o, al, sc, lg)
                /\ al[tr.arrivals[q].node] = al[n]
      /\ Since(tr.arrivals[q].observation, cov) /\ tr.arrivals[q].states # <<>> =>
           tr.arrivals[q].states[Len(tr.arrivals[q].states)].start = Len(tr.sent)
  BY DEF TrailLeads, Arriving
<1>2. q \in Nat /\ q # 0 /\ DOMAIN tr.arrivals = 1..q /\ q \in 1..q
  BY <1>1, SeqParts
<1>3. s = IF p = 0 \/ a.states = <<>> THEN Unknown ELSE FlattenSeq(StepsOf(spans, tr.sent))
  <2> HIDE DEF spans
  <2> QED BY DEF Setup, StepsOf, spans
<1>4. p # 0 /\ a.states # <<>> /\ s = FlattenSeq(StepsOf(spans, tr.sent))
  <2> HIDE DEF p, spans
  <2> QED BY <1>3
<1>5. anchor = a.observation
  BY <1>4 DEF SetupObservation
<1>6. /\ p \in 1..q
      /\ \A k \in DOMAIN tr.arrivals : al[tr.arrivals[k].node] = al[n] => k <= p
  <2>1. \/ p = 0 /\ \A k \in DOMAIN tr.arrivals : al[tr.arrivals[k].node] # al[n]
        \/ /\ p \in DOMAIN tr.arrivals
           /\ \A k \in DOMAIN tr.arrivals : al[tr.arrivals[k].node] = al[n] => k <= p
    BY <1>1, PositionIs
  <2> HIDE DEF p, q
  <2> QED BY <1>2, <1>4, <2>1
<1>7. anchor \in Int
  BY <1>1, <1>2, <1>5, <1>6
<1>8. ASSUME Since(anchor, cov)
      PROVE  \E u : /\ Goes(s, u, Shows(al, sc, o), al, sc, lg)
                    /\ anchor # NoObservation => anchor \in DOMAIN sc /\ Shows(al, sc, anchor) = u
  <2>1. Reached(a, tr.sent, b, o, al, sc, lg) /\ al[tr.arrivals[q].node] = al[n]
    BY <1>1, <1>2, <1>5, <1>6, <1>8
  <2>2. p = q
    <3> HIDE DEF p, q
    <3> QED BY <1>2, <1>6, <2>1
  <2> DEFINE st == a.states
             m == Len(st)
  <2>3. ASeq(st) /\ m \in Nat /\ m \in 1..m /\ DOMAIN st = 1..m
    BY <1>4, <2>1, SeqParts DEF Reached
  <2>4. st[m].start = Len(tr.sent)
    BY <1>1, <1>4, <1>5, <1>8, <2>2
  <2> HIDE DEF a, p, q
  <2>5. PICK path : Via(spans, path, st, m)
    BY <1>4, <2>3, SpansAre
  <2> HIDE DEF spans
  <2>6. Goes(s, <<al[a.node], path[1]>>, <<al[a.node], path[Len(path)]>>, al, sc, lg)
    BY <1>1, <1>4, <2>1, <2>5, SpansGo
  <2>7. anchor # NoObservation =>
          anchor \in DOMAIN sc /\ Shows(al, sc, anchor) = <<al[a.node], path[1]>>
    BY <1>4, <1>5, <2>1, <2>5 DEF Reached, Via
  <2>8. Shows(al, sc, o) = <<al[a.node], path[Len(path)]>>
    <3>1. Facing(tr.sent, st[m].start, o, lg) = o
      <4>1. Len(tr.sent) \in Nat
        BY <1>1, SeqParts DEF JoinsUp
      <4> QED BY <2>4, <4>1 DEF Facing
    <3>2. Shows(al, sc, Facing(tr.sent, st[m].start, o, lg)) = <<al[a.node], st[m].state>>
      BY <2>1, <2>3 DEF Reached
    <3>3. path[Len(path)] = st[m].state
      BY <2>5 DEF Via
    <3> QED BY <3>1, <3>2, <3>3
  <2> QED BY <2>6, <2>7, <2>8
<1> QED BY <1>7, <1>8

-----------------------------------------------------------------------------
(* Preparations and trails lead on when screens, transitions and names are *)
(* added.                                                                  *)

\* More screens may be known and names may come together, but none apart.
Renames(al, sc, al2, sc2) ==
  /\ DOMAIN sc \subseteq DOMAIN sc2
  /\ \A x \in DOMAIN sc : sc2[x] = sc[x] /\ sc[x].node \in Ids
  /\ \A x, y \in Ids : al[x] = al[y] => al2[x] = al2[y]

\* The log may grow, and its records are of screens that are known.
Records(lg, lg2, sc) ==
  /\ DOMAIN lg \subseteq DOMAIN lg2 /\ \A t \in DOMAIN lg : lg2[t] = lg[t]
  /\ \A t \in DOMAIN lg : lg[t].before \in DOMAIN sc /\ lg[t].after \in DOMAIN sc

LEMMA ShowsStill ==
  ASSUME NEW al, NEW sc, NEW al2, NEW sc2, Renames(al, sc, al2, sc2)
  PROVE  /\ \A x, y \in DOMAIN sc : Shows(al, sc, x) = Shows(al, sc, y) =>
              Shows(al2, sc2, x) = Shows(al2, sc2, y)
         /\ \A x \in DOMAIN sc, n \in Ids : \A st : Shows(al, sc, x) = <<al[n], st>> =>
              Shows(al2, sc2, x) = <<al2[n], st>>
BY DEF Renames, Shows

LEMMA ChainedStill ==
  ASSUME NEW al, NEW sc, NEW al2, NEW sc2, Renames(al, sc, al2, sc2),
         NEW lg, NEW lg2, Records(lg, lg2, sc), NEW setup, NEW o, Chained(setup, o, al, sc, lg)
  PROVE  Chained(setup, o, al2, sc2, lg2)
<1> DEFINE s == setup.sent
           n == Len(s)
           step == setup.step
           first == FirstOf(setup)
<1>1. \A x, y \in DOMAIN sc : Shows(al, sc, x) = Shows(al, sc, y) =>
        Shows(al2, sc2, x) = Shows(al2, sc2, y)
  BY ShowsStill
<1>2. /\ step \in DOMAIN lg /\ ASeq(s) /\ \A i \in DOMAIN s : s[i] \in DOMAIN lg
      /\ o # NoObservation => o \in DOMAIN sc /\ Shows(al, sc, o) = Shows(al, sc, lg[first].before)
      /\ s # <<>> => Shows(al, sc, lg[s[n]].after) = Shows(al, sc, lg[step].before)
      /\ \A i \in 2..n : Shows(al, sc, lg[s[i - 1]].after) = Shows(al, sc, lg[s[i]].before)
  BY DEF Chained
<1>3. n \in Nat /\ DOMAIN s = 1..n /\ (s = <<>> <=> n = 0)
  BY <1>2, SeqParts
<1>4. first = IF s = <<>> THEN step ELSE s[1]
  BY DEF FirstOf
<1> HIDE DEF s, n, step, first
<1>5. \A t \in DOMAIN lg : /\ t \in DOMAIN lg2 /\ lg2[t] = lg[t]
                           /\ lg[t].before \in DOMAIN sc /\ lg[t].after \in DOMAIN sc
  BY DEF Records
<1>6. first \in DOMAIN lg
  BY <1>2, <1>3, <1>4
<1>7. o # NoObservation =>
        o \in DOMAIN sc2 /\ Shows(al2, sc2, o) = Shows(al2, sc2, lg2[first].before)
  <2>1. DOMAIN sc \subseteq DOMAIN sc2
    BY DEF Renames
  <2> QED BY <1>1, <1>2, <1>5, <1>6, <2>1
<1>8. s # <<>> => Shows(al2, sc2, lg2[s[n]].after) = Shows(al2, sc2, lg2[step].before)
  <2> SUFFICES ASSUME s # <<>>
               PROVE  Shows(al2, sc2, lg2[s[n]].after) = Shows(al2, sc2, lg2[step].before)
    OBVIOUS
  <2>1. n \in 1..n
    BY <1>3
  <2> QED BY <1>1, <1>2, <1>3, <1>5, <2>1
<1>9. \A i \in 2..n : Shows(al2, sc2, lg2[s[i - 1]].after) = Shows(al2, sc2, lg2[s[i]].before)
  <2> SUFFICES ASSUME NEW i \in 2..n
               PROVE  Shows(al2, sc2, lg2[s[i - 1]].after) = Shows(al2, sc2, lg2[s[i]].before)
    OBVIOUS
  <2>1. i - 1 \in 1..n /\ i \in 1..n
    BY <1>3
  <2> QED BY <1>1, <1>2, <1>3, <1>5, <2>1
<1> QED BY <1>2, <1>5, <1>7, <1>8, <1>9 DEF Chained, s, step, n, first

LEMMA LeadsStill ==
  ASSUME NEW al, NEW sc, NEW al2, NEW sc2, Renames(al, sc, al2, sc2),
         NEW lg, NEW lg2, Records(lg, lg2, sc), NEW cov, NEW cov2, cov \subseteq cov2,
         NEW setup, NEW o, Leads(setup, o, al, sc, lg, cov)
  PROVE  Leads(setup, o, al2, sc2, lg2, cov2)
<1>1. /\ setup.step \in DOMAIN lg /\ setup.step \in DOMAIN lg2
      /\ lg2[setup.step] = lg[setup.step]
  BY DEF Leads, Records
<1>2. Open(setup, o, lg2, cov2) => Open(setup, o, lg, cov)
  BY <1>1 DEF Open
<1>3. Open(setup, o, lg, cov) => Chained(setup, o, al, sc, lg)
  BY DEF Leads
<1>4. Chained(setup, o, al, sc, lg) => Chained(setup, o, al2, sc2, lg2)
  BY ChainedStill
<1> QED BY <1>1, <1>2, <1>3, <1>4 DEF Leads

LEMMA AllSupportedStill ==
  ASSUME NEW al, NEW sc, NEW al2, NEW sc2, Renames(al, sc, al2, sc2),
         NEW lg, NEW lg2, Records(lg, lg2, sc), NEW cov, NEW cov2, cov \subseteq cov2,
         NEW es, AllSupported(es, al, sc, lg, cov)
  PROVE  AllSupported(es, al2, sc2, lg2, cov2)
<1> SUFFICES ASSUME NEW e \in DOMAIN es, NEW i \in DOMAIN es[e].actions
             PROVE  Supported(es[e], i, al2, sc2, lg2, cov2)
  BY DEF AllSupported
<1>1. Supported(es[e], i, al, sc, lg, cov)
  BY DEF AllSupported
<1>2. Known(es[e].setups[i]) => Leads(es[e].setups[i], es[e].anchors[i], al2, sc2, lg2, cov2)
  BY <1>1, LeadsStill DEF Supported
<1>3. ASSUME NEW j \in DOMAIN es[e].alternatives[i]
      PROVE  Leads(es[e].alternatives[i][j].setup, es[e].alternatives[i][j].observation,
                   al2, sc2, lg2, cov2)
  BY <1>1, LeadsStill DEF Supported
<1> QED BY <1>2, <1>3 DEF Supported

\* The trail leads on to o2, which shows what o did, or to what one step more led to.
LEMMA ReachedStill ==
  ASSUME NEW al, NEW sc, NEW al2, NEW sc2, Renames(al, sc, al2, sc2),
         NEW lg, NEW lg2, NEW sent, NEW sent2, NEW b, NEW o, NEW o2,
         Len(sent) \in Nat, Len(sent2) \in Nat, Len(sent) <= Len(sent2), b \in Nat,
         \A k \in b..Len(sent) : Facing(sent, k, o, lg) \in DOMAIN sc,
         \A k \in b..Len(sent) :
           Shows(al2, sc2, Facing(sent2, k, o2, lg2)) = Shows(al2, sc2, Facing(sent, k, o, lg)),
         NEW a, Reached(a, sent, b, o, al, sc, lg)
  PROVE  Reached(a, sent2, b, o2, al2, sc2, lg2)
<1>1. \A x \in DOMAIN sc, n \in Ids : \A st : Shows(al, sc, x) = <<al[n], st>> =>
              Shows(al2, sc2, x) = <<al2[n], st>>
  BY ShowsStill
<1>2. /\ a.node \in Ids /\ ASeq(a.states)
      /\ a.states # <<>> /\ a.observation # NoObservation =>
           /\ a.observation \in DOMAIN sc2
           /\ Shows(al2, sc2, a.observation) = <<al2[a.node], a.states[1].state>>
  BY <1>1 DEF Reached, Renames
<1>3. ASSUME NEW j \in DOMAIN a.states
      PROVE  /\ a.states[j].start \in b..Len(sent2)
             /\ Shows(al2, sc2, Facing(sent2, a.states[j].start, o2, lg2))
                = <<al2[a.node], a.states[j].state>>
  <2> DEFINE k == a.states[j].start
  <2>1. k \in b..Len(sent) /\ Shows(al, sc, Facing(sent, k, o, lg)) = <<al[a.node], a.states[j].state>>
    BY DEF Reached
  <2> HIDE DEF k
  <2>2. k \in b..Len(sent2)
    BY <2>1
  <2>3. Shows(al2, sc2, Facing(sent, k, o, lg)) = <<al2[a.node], a.states[j].state>>
    BY <1>1, <1>2, <2>1
  <2>4. Shows(al2, sc2, Facing(sent2, k, o2, lg2)) = Shows(al2, sc2, Facing(sent, k, o, lg))
    BY <2>1
  <2> QED BY <2>2, <2>3, <2>4 DEF k
<1>4. \A i, j \in DOMAIN a.states : i < j => a.states[i].start <= a.states[j].start
  BY DEF Reached
<1> QED BY <1>2, <1>3, <1>4 DEF Reached

LEMMA TrailLeadsStill ==
  ASSUME NEW al, NEW sc, NEW al2, NEW sc2, Renames(al, sc, al2, sc2),
         NEW lg, Records(lg, lg, sc), NEW tr, NEW b \in Nat, NEW o, NEW o2, NEW n \in Ids, NEW n2,
         NEW cov, TrailLeads(tr, b, o, n, al, sc, lg, cov),
         o2 \in DOMAIN sc2, sc2[o2] = sc[o], al2[n2] = al2[n]
  PROVE  TrailLeads(tr, b, o2, n2, al2, sc2, lg, cov)
<1> DEFINE s == tr.sent
           last == tr.arrivals[Len(tr.arrivals)]
<1>1. /\ ASeq(s) /\ o \in DOMAIN sc /\ al[sc[o].node] = al[n] /\ b \in 0..Len(s)
      /\ \A k \in DOMAIN s :
           /\ s[k] \in DOMAIN lg
           /\ k > b => Shows(al, sc, lg[s[k]].after) = Shows(al, sc, Facing(s, k, o, lg))
  BY DEF TrailLeads, JoinsUp
<1>2. /\ Arriving(tr.arrivals) /\ tr.arrivals # <<>>
      /\ \A k \in DOMAIN tr.arrivals :
           /\ tr.arrivals[k].node \in Ids /\ tr.arrivals[k].observation \in Int
           /\ Since(tr.arrivals[k].observation, cov) =>
                Reached(tr.arrivals[k], s, b, o, al, sc, lg) /\ al[last.node] = al[n]
      /\ Since(last.observation, cov) /\ last.states # <<>> =>
           last.states[Len(last.states)].start = Len(s)
  BY DEF TrailLeads
<1>3. Len(s) \in Nat /\ DOMAIN s = 1..Len(s)
  BY <1>1, SeqParts
<1>4. last.node \in Ids
  <2>1. Len(tr.arrivals) \in DOMAIN tr.arrivals
    BY <1>2, SeqParts DEF Arriving
  <2> QED BY <1>2, <2>1
<1> HIDE DEF s, last
<1>5. \A k \in b..Len(s) : Facing(s, k, o, lg) \in DOMAIN sc
  <2> SUFFICES ASSUME NEW k \in b..Len(s) PROVE Facing(s, k, o, lg) \in DOMAIN sc
    OBVIOUS
  <2>1. k < Len(s) => k + 1 \in 1..Len(s)
    BY <1>3
  <2> QED BY <1>1, <1>3, <2>1 DEF Facing, Records
<1>6. \A k \in b..Len(s) :
        Shows(al2, sc2, Facing(s, k, o2, lg)) = Shows(al2, sc2, Facing(s, k, o, lg))
  <2>1. sc2[o2] = sc2[o]
    BY <1>1 DEF Renames
  <2> QED BY <2>1 DEF Facing, Shows
<1>7. \A k \in DOMAIN tr.arrivals : Since(tr.arrivals[k].observation, cov) =>
        Reached(tr.arrivals[k], s, b, o2, al2, sc2, lg)
  BY <1>2, <1>3, <1>5, <1>6, ReachedStill
<1>8. JoinsUp(s, b, o2, al2, sc2, lg)
  <2> SUFFICES ASSUME NEW k \in DOMAIN s, k > b
               PROVE  Shows(al2, sc2, lg[s[k]].after) = Shows(al2, sc2, Facing(s, k, o2, lg))
    BY <1>1 DEF JoinsUp
  <2>1. k \in b..Len(s)
    BY <1>1, <1>3
  <2>2. lg[s[k]].after \in DOMAIN sc
    BY <1>1 DEF Records
  <2>3. Shows(al2, sc2, lg[s[k]].after) = Shows(al2, sc2, Facing(s, k, o, lg))
    BY <1>1, <1>5, <2>1, <2>2, ShowsStill
  <2> QED BY <1>6, <2>1, <2>3
<1>9. al2[sc2[o2].node] = al2[n2] /\ (al[last.node] = al[n] => al2[last.node] = al2[n2])
  <2>1. sc[o].node \in Ids
    BY <1>1 DEF Renames
  <2> QED BY <1>1, <1>4, <2>1 DEF Renames
<1> QED BY <1>2, <1>7, <1>8, <1>9 DEF TrailLeads, s, last

\* A trail that begins on the screen just identified.
LEMMA BegunLeads ==
  ASSUME NEW n \in Ids, NEW s, NEW known \in BOOLEAN, NEW o, NEW p \in Int,
         known => p \in {o, NoObservation}, NEW al, NEW sc, NEW lg, NEW cov,
         o \in DOMAIN sc, al[sc[o].node] = al[n], sc[o].state = s
  PROVE  TrailLeads(Begun(n, s, known, p), 0, o, n, al, sc, lg, cov)
<1> DEFINE a == [node |-> n, states |-> IF known THEN << [start |-> 0, state |-> s] >> ELSE <<>>,
                 observation |-> IF known THEN p ELSE NoObservation]
           st == [start |-> 0, state |-> s]
           tr == Begun(n, s, known, p)
<1>1. /\ a = [node |-> a.node, states |-> a.states, observation |-> a.observation] /\ a.node = n
      /\ known => a.states = <<st>> /\ a.observation \in {o, NoObservation}
      /\ ~known => a.states = <<>>
      /\ a.observation \in Int /\ st.start = 0 /\ st.state = s
  BY DEF NoObservation
<1>2. tr.arrivals = <<a>> /\ tr.sent = <<>>
  BY DEF Begun
<1> HIDE DEF a, tr, st
<1>3. /\ tr.arrivals \in Seq({a}) /\ DOMAIN tr.arrivals = {1} /\ tr.arrivals[1] = a
      /\ Len(tr.arrivals) = 1 /\ tr.arrivals # <<>>
  BY <1>2
<1>4. Arriving(tr.arrivals)
  BY <1>1, <1>3 DEF Arriving, ASeq
<1>5. ASeq(tr.sent) /\ Len(tr.sent) = 0 /\ DOMAIN tr.sent = {}
  BY <1>2, EmptySeq DEF ASeq
<1>6. Facing(tr.sent, 0, o, lg) = o /\ Shows(al, sc, o) = <<al[n], s>>
  BY <1>5 DEF Facing, Shows
<1>7. /\ ASeq(a.states) /\ \A j \in DOMAIN a.states : known /\ a.states[j] = st
      /\ a.states # <<>> => known /\ a.states[1] = st /\ Len(a.states) = 1
  <2>1. CASE known
    <3>1. /\ <<st>> \in Seq({st}) /\ DOMAIN <<st>> = {1} /\ <<st>>[1] = st /\ Len(<<st>>) = 1
      OBVIOUS
    <3> QED BY <1>1, <2>1, <3>1 DEF ASeq
  <2>2. CASE ~known
    <3>1. DOMAIN <<>> = {} /\ ASeq(<<>>)
      BY EmptySeq DEF ASeq
    <3>2. a.states = <<>>
      BY <1>1, <2>2
    <3> QED BY <2>2, <3>1, <3>2
  <2> QED BY <2>1, <2>2
<1>8. Reached(a, tr.sent, 0, o, al, sc, lg)
  <2>1. 0 \in 0..Len(tr.sent)
    BY <1>5
  <2> QED BY <1>1, <1>5, <1>6, <1>7, <2>1 DEF Reached
<1>9. JoinsUp(tr.sent, 0, o, al, sc, lg)
  BY <1>5 DEF JoinsUp
<1>10. TrailLeads(tr, 0, o, n, al, sc, lg, cov)
  BY <1>1, <1>3, <1>4, <1>5, <1>7, <1>8, <1>9 DEF TrailLeads
<1> QED BY <1>10 DEF tr

-----------------------------------------------------------------------------
(* A step more on the trail.                                               *)

LEMMA SteppedLeads ==
  ASSUME NEW tr, NEW b \in Nat, NEW o, NEW m \in Ids, NEW al, NEW sc, NEW sc2, NEW lg, NEW lg2,
         NEW o2, NEW n \in Ids, NEW st, NEW cov, TrailLeads(tr, b, o, m, al, sc, lg, cov),
         Renames(al, sc, al, sc2), Records(lg, lg, sc), o2 \in DOMAIN sc2,
         al[sc2[o2].node] = al[n], sc2[o2].state = st,
         NEW ob \in Int, ob \in {o2, NoObservation},
         NEW step, step \in DOMAIN lg2, lg2[step].before = o, lg2[step].after = o2,
         DOMAIN lg \subseteq DOMAIN lg2, \A t \in DOMAIN lg : lg2[t] = lg[t]
  PROVE  TrailLeads(Stepped(tr, al, step, n, st, ob), b, o2, n, al, sc2, lg2, cov)
<1> DEFINE s == tr.sent
           z == Len(s)
           s2 == Append(s, step)
           found == [start |-> Len(s2), state |-> st]
           p == Position(tr, al, n)
           q == Len(tr.arrivals)
           new == [node |-> n, states |-> <<found>>, observation |-> ob]
           ns == Stepped(tr, al, step, n, st, ob)
           t == ns.arrivals
<1>1. /\ ASeq(s) /\ o \in DOMAIN sc /\ b \in 0..Len(s)
      /\ \A k \in DOMAIN s :
           /\ s[k] \in DOMAIN lg
           /\ k > b => Shows(al, sc, lg[s[k]].after) = Shows(al, sc, Facing(s, k, o, lg))
      /\ Arriving(tr.arrivals) /\ ASeq(tr.arrivals)
      /\ \A k \in DOMAIN tr.arrivals :
           /\ tr.arrivals[k].node \in Ids /\ tr.arrivals[k].observation \in Int
           /\ Since(tr.arrivals[k].observation, cov) => Reached(tr.arrivals[k], s, b, o, al, sc, lg)
  BY DEF TrailLeads, JoinsUp, Arriving
<1>2. z \in Nat /\ DOMAIN s = 1..z /\ q \in Nat /\ DOMAIN tr.arrivals = 1..q /\ b \in 0..z
  BY <1>1, SeqParts
<1>3. /\ ASeq(s2) /\ Len(s2) = z + 1 /\ DOMAIN s2 = 1..(z + 1) /\ s2[z + 1] = step
      /\ \A k \in 1..z : s2[k] = s[k]
  <2>1. /\ ASeq(s2) /\ Len(s2) = z + 1 /\ s2[z + 1] = step /\ \A k \in 1..z : s2[k] = s[k]
    BY <1>1, AppendParts
  <2> QED BY <2>1, SeqParts
<1>4. ns.sent = s2 /\ SteppedAs(t, tr.arrivals, p, q, new, found)
  <2>1. /\ ns = Stepped(tr, al, step, n, st, ob) /\ p = Position(tr, al, n) /\ q = Len(tr.arrivals)
        /\ found = [start |-> Len(Append(tr.sent, step)), state |-> st] /\ t = ns.arrivals
        /\ new = [node |-> n, states |-> <<found>>, observation |-> ob] /\ s2 = Append(tr.sent, step)
    OBVIOUS
  <2> HIDE DEF ns, p, q, found, t, new, s2
  <2> QED BY <1>1, <2>1, SteppedArrivals
<1>5. /\ p \in 0..q
      /\ p # 0 => al[tr.arrivals[p].node] = al[n]
  BY <1>1, PositionIs
<1>6. /\ new = [node |-> new.node, states |-> new.states, observation |-> new.observation]
      /\ new.node = n /\ new.states = <<found>> /\ new.observation = ob
      /\ found.start = z + 1 /\ found.state = st
  <2>1. found.start = Len(s2) /\ found.state = st
    OBVIOUS
  <2> QED BY <1>3, <2>1
<1>0. s = tr.sent
  OBVIOUS
<1> HIDE DEF s, z, s2, found, p, q, new, ns, t
\* Where the device was after each step.
<1>7. \A k \in b..z : /\ Facing(s, k, o, lg) \in DOMAIN sc
                      /\ Facing(s2, k, o2, lg2) = Facing(s, k, o, lg)
  <2> SUFFICES ASSUME NEW k \in b..z
               PROVE  /\ Facing(s, k, o, lg) \in DOMAIN sc
                      /\ Facing(s2, k, o2, lg2) = Facing(s, k, o, lg)
    OBVIOUS
  <2>1. k < Len(s2) /\ Len(s) = z
    BY <1>2, <1>3 DEF z
  <2>2. CASE k < z
    <3>1. k + 1 \in 1..z
      BY <1>2, <2>2
    <3>2. s2[k + 1] = s[k + 1] /\ s[k + 1] \in DOMAIN lg
      BY <1>1, <1>2, <1>3, <3>1
    <3> QED BY <2>1, <2>2, <3>2 DEF Facing, Records
  <2>3. CASE ~(k < z)
    <3>1. k + 1 = z + 1
      BY <1>2, <2>3
    <3> QED BY <1>1, <1>3, <2>1, <2>3, <3>1 DEF Facing
  <2> QED BY <2>2, <2>3
<1>8. Facing(s2, z + 1, o2, lg2) = o2 /\ Shows(al, sc2, o2) = <<al[n], st>>
  BY <1>2, <1>3 DEF Facing, Shows
<1>9. \A x \in DOMAIN sc : Shows(al, sc2, x) = Shows(al, sc, x)
  BY DEF Renames, Shows
<1>10. \A k \in b..z : Shows(al, sc2, Facing(s2, k, o2, lg2)) = Shows(al, sc, Facing(s, k, o, lg))
  BY <1>7, <1>9
<1>11. JoinsUp(s2, b, o2, al, sc2, lg2)
  <2>0. b \in 0..(z + 1)
    BY <1>2
  <2> SUFFICES ASSUME NEW k \in 1..(z + 1)
               PROVE  /\ s2[k] \in DOMAIN lg2
                      /\ k > b => Shows(al, sc2, lg2[s2[k]].after)
                                    = Shows(al, sc2, Facing(s2, k, o2, lg2))
    BY <1>3, <2>0 DEF JoinsUp
  <2>1. CASE k = z + 1
    BY <1>3, <1>8, <2>1
  <2>2. CASE k # z + 1
    <3>1. k \in 1..z /\ (k > b => k \in b..z)
      BY <1>2, <2>2
    <3>2. s2[k] = s[k] /\ s[k] \in DOMAIN lg /\ lg2[s[k]] = lg[s[k]] /\ lg[s[k]].after \in DOMAIN sc
      BY <1>1, <1>2, <1>3, <3>1 DEF Records
    <3>3. k > b => Shows(al, sc, lg[s[k]].after) = Shows(al, sc, Facing(s, k, o, lg))
      BY <1>1, <1>2, <3>1
    <3> QED BY <1>9, <1>10, <3>1, <3>2, <3>3
  <2> QED BY <2>1, <2>2
<1>12. \A k \in 1..q : Since(tr.arrivals[k].observation, cov) =>
         Reached(tr.arrivals[k], s2, b, o2, al, sc2, lg2)
  <2>1. Len(s) \in Nat /\ Len(s2) \in Nat /\ Len(s) <= Len(s2) /\ Len(s) = z
    BY <1>2, <1>3 DEF z
  <2>2. \A k \in b..Len(s) : Facing(s, k, o, lg) \in DOMAIN sc
    BY <1>7, <2>1
  <2>3. \A k \in b..Len(s) :
          Shows(al, sc2, Facing(s2, k, o2, lg2)) = Shows(al, sc2, Facing(s, k, o, lg))
    BY <1>9, <1>7, <2>1
  <2>4. \A k \in 1..q : Since(tr.arrivals[k].observation, cov) =>
          Reached(tr.arrivals[k], s, b, o, al, sc, lg)
    BY <1>1, <1>2
  <2> QED BY <2>1, <2>2, <2>3, <2>4, ReachedStill
<1>13. ASSUME NEW a, NEW states, ASeq(states), a.states = Append(states, found), a.node \in Ids,
              al[a.node] = al[n],
              \A j \in DOMAIN states :
                 /\ states[j].start \in b..z
                 /\ Shows(al, sc2, Facing(s2, states[j].start, o2, lg2)) = <<al[a.node], states[j].state>>,
              \A i, j \in DOMAIN states : i < j => states[i].start <= states[j].start,
              a.observation # NoObservation =>
                 /\ a.observation \in DOMAIN sc2
                 /\ Shows(al, sc2, a.observation) = <<al[a.node], a.states[1].state>>
       PROVE  /\ Reached(a, s2, b, o2, al, sc2, lg2) /\ a.states # <<>>
              /\ a.states[Len(a.states)].start = Len(s2)
  <2> DEFINE l == Len(states)
             w == a.states
  <2>1. l \in Nat /\ DOMAIN states = 1..l
    BY <1>13, SeqParts
  <2>2. /\ ASeq(w) /\ Len(w) = l + 1 /\ w[l + 1] = found /\ \A j \in 1..l : w[j] = states[j]
    BY <1>13, AppendParts
  <2>3. DOMAIN w = 1..(l + 1) /\ w # <<>>
    BY <2>1, <2>2, SeqParts
  <2>4. w = a.states
    OBVIOUS
  <2> HIDE DEF l, w
  <2>5. ASSUME NEW j \in 1..(l + 1)
        PROVE  /\ w[j].start \in b..(z + 1)
               /\ j # l + 1 => w[j].start \in b..z
               /\ Shows(al, sc2, Facing(s2, w[j].start, o2, lg2)) = <<al[a.node], w[j].state>>
    <3>1. CASE j = l + 1
      <4>1. w[j].start = z + 1 /\ w[j].state = st /\ z + 1 \in b..(z + 1)
        BY <1>2, <1>6, <2>2, <3>1
      <4> QED BY <1>8, <1>13, <3>1, <4>1
    <3>2. CASE j # l + 1
      <4>1. j \in 1..l
        BY <2>1, <3>2
      <4>2. w[j] = states[j] /\ j \in DOMAIN states
        BY <2>1, <2>2, <4>1
      <4>3. states[j].start \in b..z
        BY <1>13, <4>2
      <4>4. states[j].start \in b..(z + 1)
        BY <1>2, <4>3
      <4> QED BY <1>13, <4>2, <4>3, <4>4
    <3> QED BY <3>1, <3>2
  <2>6. ASSUME NEW i \in 1..(l + 1), NEW j \in 1..(l + 1), i < j
        PROVE  w[i].start <= w[j].start
    <3>1. i \in 1..l /\ i # l + 1
      BY <2>1, <2>6
    <3>2. CASE j = l + 1
      <4>1. w[j].start = z + 1 /\ w[i].start \in b..z
        BY <1>6, <2>2, <2>5, <3>1, <3>2
      <4> QED BY <1>2, <4>1
    <3>3. CASE j # l + 1
      <4>1. j \in 1..l
        BY <2>1, <3>3
      <4> QED BY <1>13, <2>1, <2>2, <2>6, <3>1, <4>1
    <3> QED BY <3>2, <3>3
  <2>7. w[Len(w)].start = Len(s2)
    BY <1>3, <1>6, <2>2
  <2>8. Reached(a, s2, b, o2, al, sc2, lg2)
    BY <1>3, <1>13, <2>2, <2>3, <2>4, <2>5, <2>6 DEF Reached
  <2> QED BY <2>3, <2>4, <2>7, <2>8
<1>14. CASE p = 0
  <2>1. /\ ASeq(t) /\ Len(t) = q + 1 /\ DOMAIN t = 1..(q + 1) /\ t[q + 1] = new
        /\ \A k \in 1..q : t[k] = tr.arrivals[k]
    BY <1>4, <1>14 DEF SteppedAs
  <2>2. /\ Reached(new, s2, b, o2, al, sc2, lg2) /\ new.states # <<>>
        /\ new.states[Len(new.states)].start = Len(s2)
    <3>1. ASeq(<<>>) /\ DOMAIN <<>> = {} /\ Append(<<>>, found) = <<found>> /\ <<found>>[1] = found
      BY EmptySeq DEF ASeq
    <3>2. new.states = Append(<<>>, found) /\ new.states[1].state = st
      BY <1>6, <3>1
    <3> QED BY <1>6, <1>8, <1>13, <3>1, <3>2
  <2>3. \A k \in 1..(q + 1) : k \in 1..q \/ k = q + 1
    BY <1>2
  <2>4. Arriving(t)
    BY <1>1, <1>2, <1>6, <2>1, <2>3 DEF Arriving
  <2>5. t # <<>>
    BY <1>2, <2>1, SeqParts
  <2>6. \A k \in DOMAIN t :
          /\ t[k].node \in Ids /\ t[k].observation \in Int
          /\ Since(t[k].observation, cov) => Reached(t[k], s2, b, o2, al, sc2, lg2)
    BY <1>1, <1>2, <1>6, <1>12, <2>1, <2>2, <2>3
  <2>7. TrailLeads(ns, b, o2, n, al, sc2, lg2, cov)
    BY <1>4, <1>6, <1>11, <2>1, <2>2, <2>4, <2>5, <2>6 DEF TrailLeads, t
  <2> QED BY <2>7 DEF ns
<1>15. CASE p # 0
  <2> DEFINE c == tr.arrivals[p]
             a == t[p]
  <2>1. /\ ASeq(t) /\ Len(t) = p /\ DOMAIN t = 1..p
        /\ \A k \in 1..p : k # p => t[k] = tr.arrivals[k]
        /\ a = [node |-> c.node, states |-> IF c.states = <<>> THEN <<>> ELSE Append(c.states, found),
                observation |-> c.observation]
    BY <1>4, <1>15 DEF SteppedAs
  <2>2. p \in 1..q /\ p \in 1..p /\ \A k \in 1..p : k \in 1..q
    BY <1>2, <1>5, <1>15
  <2>3. /\ al[c.node] = al[n] /\ c.node \in Ids /\ c.observation \in Int
        /\ Since(c.observation, cov) =>
             Reached(c, s, b, o, al, sc, lg) /\ Reached(c, s2, b, o2, al, sc2, lg2)
    BY <1>1, <1>2, <1>5, <1>12, <1>15, <2>2
  <2>4. /\ a.node = c.node /\ a.observation = c.observation
        /\ c.states = <<>> => a.states = <<>>
        /\ c.states # <<>> => a.states = Append(c.states, found)
        /\ a = [node |-> a.node, states |-> a.states, observation |-> a.observation]
    BY <2>1
  <2> HIDE DEF a, c
  <2>5. Since(a.observation, cov) =>
          /\ Reached(a, s2, b, o2, al, sc2, lg2)
          /\ a.states # <<>> => a.states[Len(a.states)].start = Len(s2)
    <3> SUFFICES ASSUME Since(a.observation, cov)
                 PROVE  /\ Reached(a, s2, b, o2, al, sc2, lg2)
                        /\ a.states # <<>> => a.states[Len(a.states)].start = Len(s2)
      OBVIOUS
    <3>0. Reached(c, s, b, o, al, sc, lg) /\ Reached(c, s2, b, o2, al, sc2, lg2)
      BY <2>3, <2>4
    <3>1. CASE c.states = <<>>
      <4>1. a.states = c.states
        BY <2>4, <3>1
      <4>2. Reached(a, s2, b, o2, al, sc2, lg2)
        BY <2>4, <3>0, <4>1 DEF Reached
      <4> QED BY <2>4, <3>1, <4>2
    <3>2. CASE c.states # <<>>
      <4>1. /\ ASeq(c.states) /\ c.node \in Ids
            /\ c.observation # NoObservation =>
                 /\ c.observation \in DOMAIN sc2
                 /\ Shows(al, sc2, c.observation) = <<al[c.node], c.states[1].state>>
            /\ \A j \in DOMAIN c.states :
                 Shows(al, sc2, Facing(s2, c.states[j].start, o2, lg2)) = <<al[c.node], c.states[j].state>>
            /\ \A i, j \in DOMAIN c.states : i < j => c.states[i].start <= c.states[j].start
        BY <3>0, <3>2 DEF Reached
      <4>2. \A j \in DOMAIN c.states : c.states[j].start \in b..z
        BY <3>0 DEF Reached, z
      <4>3. a.states[1] = c.states[1]
        <5>1. 1 \in 1..Len(c.states)
          BY <3>2, <4>1, SeqParts
        <5> QED BY <2>4, <3>2, <4>1, <5>1, AppendParts
      <4> QED BY <1>13, <2>3, <2>4, <3>2, <4>1, <4>2, <4>3
    <3> QED BY <3>1, <3>2
  <2>6. Arriving(t)
    BY <1>1, <1>2, <2>1, <2>2, <2>4 DEF Arriving, a
  <2>7. t # <<>>
    BY <2>1, <2>2, SeqParts
  <2>8. \A k \in DOMAIN t :
          /\ t[k].node \in Ids /\ t[k].observation \in Int
          /\ Since(t[k].observation, cov) => Reached(t[k], s2, b, o2, al, sc2, lg2)
    <3> SUFFICES ASSUME NEW k \in 1..p
                 PROVE  /\ t[k].node \in Ids /\ t[k].observation \in Int
                        /\ Since(t[k].observation, cov) => Reached(t[k], s2, b, o2, al, sc2, lg2)
      BY <2>1
    <3>1. CASE k = p
      <4>1. t[k] = a
        BY <3>1 DEF a
      <4> QED BY <2>3, <2>4, <2>5, <4>1
    <3>2. CASE k # p
      <4>1. t[k] = tr.arrivals[k] /\ k \in 1..q
        BY <2>1, <2>2, <3>2
      <4> QED BY <1>1, <1>2, <1>12, <4>1
    <3> QED BY <3>1, <3>2
  <2>9. TrailLeads(ns, b, o2, n, al, sc2, lg2, cov)
    BY <1>4, <1>8, <1>11, <2>1, <2>3, <2>4, <2>5, <2>6, <2>7, <2>8 DEF TrailLeads, t, a, Shows
  <2> QED BY <2>9 DEF ns
<1> QED BY <1>14, <1>15

-----------------------------------------------------------------------------
(* The preparations on the edges lead where they say.                      *)

LEMMA SameSupported ==
  ASSUME NEW x, NEW i, NEW y, NEW j, Same(x, i, y, j), NEW al, NEW sc, NEW lg, NEW cov,
         Supported(y, j, al, sc, lg, cov)
  PROVE  Supported(x, i, al, sc, lg, cov)
BY DEF Same, Supported

\* add_edge keeps what leads where it says, when the setup it is given does.
LEMMA AddedSupported ==
  ASSUME NEW es, PreparedAll(es), NEW al, NEW sc, NEW lg, NEW cov,
         AllSupported(es, al, sc, lg, cov),
         NEW e, NEW action, NEW setup, NEW anchor, NEW source,
         Known(setup) => Leads(setup, anchor, al, sc, lg, cov),
         NEW ns, ns = AddEdge(es, e, action, setup, anchor, source)
  PROVE  AllSupported(ns, al, sc, lg, cov)
<1> DEFINE x == EdgeOf(es, e)
<1>0. x = EdgeOf(es, e)
  OBVIOUS
<1>1. /\ e \in DOMAIN es => x = es[e]
      /\ DOMAIN x.actions # {} => e \in DOMAIN es
  BY <1>0, EdgeOfPrepared
<1> HIDE DEF x
<1>2. /\ DOMAIN ns = DOMAIN es \cup {e}
      /\ \A f \in DOMAIN es : f # e => ns[f] = es[f]
      /\ \A i \in DOMAIN ns[e].actions :
              \/ In(ns[e], i, x)
              \/ Fresh(ns[e], i, action, setup, anchor)
              \/ Repeated(ns[e], x, i, action, setup, anchor)
  <2>1. Added(ns, es, e, x, action, setup, anchor)
    BY <1>0, AddEdgeParts
  <2> QED BY <2>1 DEF Added
<1>3. \A k \in DOMAIN x.actions : Supported(x, k, al, sc, lg, cov)
  BY <1>1 DEF AllSupported
<1>4. ASSUME NEW i \in DOMAIN ns[e].actions PROVE Supported(ns[e], i, al, sc, lg, cov)
  <2> DEFINE z == ns[e]
  <2> HIDE DEF z
  <2>1. CASE In(z, i, x)
    BY <1>3, <2>1, SameSupported DEF In, z
  <2>2. CASE Fresh(z, i, action, setup, anchor)
    <3>1. DOMAIN z.alternatives[i] = {}
      BY <2>2 DEF Fresh
    <3> QED BY <2>2, <3>1 DEF Fresh, Supported, z
  <2>3. CASE Repeated(z, x, i, action, setup, anchor)
    <3>1. /\ i \in DOMAIN x.actions /\ Offered(z, x, i, setup, anchor)
          /\ Leads(setup, anchor, al, sc, lg, cov)
      BY <2>3 DEF Repeated
    <3>2. Supported(x, i, al, sc, lg, cov)
      BY <1>3, <3>1
    <3>3. Known(z.setups[i]) => Leads(z.setups[i], z.anchors[i], al, sc, lg, cov)
      BY <3>1, <3>2 DEF Offered, Supported
    <3>4. \A j \in DOMAIN z.alternatives[i] :
            Leads(z.alternatives[i][j].setup, z.alternatives[i][j].observation, al, sc, lg, cov)
      <4> TAKE j \in DOMAIN z.alternatives[i]
      <4>1. CASE \E k \in DOMAIN x.alternatives[i] : z.alternatives[i][j] = x.alternatives[i][k]
        BY <3>2, <4>1 DEF Supported
      <4>2. CASE z.alternatives[i][j] = [setup |-> setup, observation |-> anchor]
        BY <3>1, <4>2
      <4> QED BY <3>1, <4>1, <4>2 DEF Offered
    <3> QED BY <3>3, <3>4 DEF Supported, z
  <2> QED BY <1>2, <2>1, <2>2, <2>3 DEF z
<1> SUFFICES ASSUME NEW f \in DOMAIN ns, NEW i \in DOMAIN ns[f].actions
             PROVE  Supported(ns[f], i, al, sc, lg, cov)
  BY DEF AllSupported
<1>5. CASE f = e
  BY <1>4, <1>5
<1>6. CASE f # e
  BY <1>2, <1>6 DEF AllSupported
<1> QED BY <1>5, <1>6

\* What is recorded of a step leads to the screen it was taken on.
LEMMA RecordSupports ==
  ASSUME LoadsInv, AllSupported(edges, alias, screens, log, covered),
         at.observation = Seen, covered \subseteq 1..Seen, NEW tr, NEW b,
         TrailLeads(tr, b, at.observation, at.node, alias, screens, log, covered),
         NEW action, NEW target, Record(tr, action, target),
         NEW sc, Renames(alias, screens, alias, sc), Records(log, log', screens),
         Len(log) + 1 \in DOMAIN log', log'[Len(log) + 1].before = at.observation
  PROVE  AllSupported(edges', alias, sc, log', covered)
<1> DEFINE sent == Recorded(Setup(tr, alias, at.node))
           anchor == IF sent = Unknown THEN NoObservation
                     ELSE SetupObservation(tr, alias, at.node)
           k == Len(log) + 1
           setup == [sent |-> sent, step |-> k]
           e == <<at.node, target>>
<1>1. edges' = IF at.node = Outside THEN edges
                ELSE AddEdge(edges, e, action, setup, anchor, at.observation)
  BY DEF Record
<1>2. PreparedAll(edges)
  BY DEF LoadsInv, EdgesHold
<1>3. AllSupported(edges, alias, sc, log', covered)
  BY AllSupportedStill
<1>4. /\ setup.sent = sent /\ setup.step = k
      /\ sent # Unknown => /\ sent = Setup(tr, alias, at.node)
                           /\ anchor = SetupObservation(tr, alias, at.node)
  BY DEF Recorded
<1>5. k \in DOMAIN log' /\ log'[k].before = at.observation /\ Seen \in Nat
  BY SeqParts DEF LoadsInv, NodesHold, Seen
<1> HIDE DEF sent, anchor, setup, e, k
<1>6. Known(setup) => Leads(setup, anchor, alias, sc, log', covered)
  <2> SUFFICES ASSUME sent # Unknown, Open(setup, anchor, log', covered)
               PROVE  Chained(setup, anchor, alias, sc, log')
    BY <1>4, <1>5 DEF Known, Leads
  <2>1. /\ anchor \in Int
        /\ Since(anchor, covered) =>
             \E u : /\ Goes(sent, u, Shows(alias, screens, at.observation), alias, screens, log)
                    /\ anchor # NoObservation =>
                         anchor \in DOMAIN screens /\ Shows(alias, screens, anchor) = u
    BY <1>4, SetupGoes
  <2>2. Since(anchor, covered)
    <3> SUFFICES ASSUME NEW c \in covered PROVE c <= anchor
      BY DEF Since
    <3>1. c \in Int /\ c <= Seen
      BY <1>5
    <3>2. ~(anchor < c /\ c <= Seen)
      BY <1>4, <1>5 DEF Open
    <3> QED BY <2>1, <3>1, <3>2
  <2>3. PICK u : /\ Goes(sent, u, Shows(alias, screens, at.observation), alias, screens, log)
                 /\ anchor # NoObservation =>
                      anchor \in DOMAIN screens /\ Shows(alias, screens, anchor) = u
    BY <2>1, <2>2
  <2>4. at.observation \in DOMAIN screens
    BY DEF TrailLeads, JoinsUp
  <2>5. \A x \in DOMAIN screens : x \in DOMAIN sc /\ Shows(alias, sc, x) = Shows(alias, screens, x)
    BY DEF Renames, Shows
  <2>6. \A t \in DOMAIN log :
          /\ t \in DOMAIN log'
          /\ Shows(alias, sc, log'[t].before) = Shows(alias, screens, log[t].before)
          /\ Shows(alias, sc, log'[t].after) = Shows(alias, screens, log[t].after)
    BY <2>5 DEF Records
  <2>7. /\ ASeq(sent) /\ \A i \in DOMAIN sent : sent[i] \in DOMAIN log
        /\ sent = <<>> => u = Shows(alias, screens, at.observation)
        /\ sent # <<>> =>
             /\ u = Shows(alias, screens, log[sent[1]].before)
             /\ Shows(alias, screens, log[sent[Len(sent)]].after)
                  = Shows(alias, screens, at.observation)
        /\ \A i \in 2..Len(sent) :
             Shows(alias, screens, log[sent[i - 1]].after) = Shows(alias, screens, log[sent[i]].before)
    BY <2>3 DEF Goes
  <2>8. Len(sent) \in Nat /\ DOMAIN sent = 1..Len(sent) /\ (sent = <<>> <=> Len(sent) = 0)
    BY <2>7, SeqParts
  <2>9. Shows(alias, sc, log'[k].before) = Shows(alias, screens, at.observation)
    BY <1>5, <2>4, <2>5
  <2>10. sent # <<>> => 1 \in 1..Len(sent) /\ Len(sent) \in 1..Len(sent)
    BY <2>8
  <2>11. u = Shows(alias, sc, log'[FirstOf(setup)].before)
    <3>1. CASE sent = <<>>
      <4>1. FirstOf(setup) = k
        BY <1>4, <3>1 DEF FirstOf
      <4> QED BY <2>7, <2>9, <3>1, <4>1
    <3>2. CASE sent # <<>>
      <4>1. FirstOf(setup) = sent[1] /\ sent[1] \in DOMAIN log
        BY <1>4, <2>7, <2>8, <2>10, <3>2 DEF FirstOf
      <4> QED BY <2>6, <2>7, <3>2, <4>1
    <3> QED BY <3>1, <3>2
  <2>12. anchor # NoObservation =>
           anchor \in DOMAIN sc /\ Shows(alias, sc, anchor) = Shows(alias, sc, log'[FirstOf(setup)].before)
    BY <2>3, <2>5, <2>11
  <2>13. sent # <<>> => Shows(alias, sc, log'[sent[Len(sent)]].after) = Shows(alias, sc, log'[k].before)
    BY <2>6, <2>7, <2>8, <2>9, <2>10
  <2>14. \A i \in 2..Len(sent) :
           Shows(alias, sc, log'[sent[i - 1]].after) = Shows(alias, sc, log'[sent[i]].before)
    <3> SUFFICES ASSUME NEW i \in 2..Len(sent)
                 PROVE  Shows(alias, sc, log'[sent[i - 1]].after) = Shows(alias, sc, log'[sent[i]].before)
      OBVIOUS
    <3>1. i - 1 \in 1..Len(sent) /\ i \in 1..Len(sent)
      BY <2>8
    <3> QED BY <2>6, <2>7, <2>8, <3>1
  <2> QED BY <1>4, <1>5, <2>6, <2>7, <2>12, <2>13, <2>14 DEF Chained
<1> QED BY <1>1, <1>2, <1>3, <1>6, AddedSupported

\* merge_nodes keeps the preparations of both nodes.
LEMMA RewiredSupported ==
  ASSUME NEW es, PreparedAll(es), NEW keep, NEW remove, keep # remove, NEW N,
         DOMAIN es \subseteq N \X N, NEW al, NEW sc, NEW lg, NEW cov,
         AllSupported(es, al, sc, lg, cov),
         NEW ns, ns = Rewired(es, keep, remove)
  PROVE  AllSupported(ns, al, sc, lg, cov)
<1>1. RewiredAs(ns, es, keep, remove)
  BY RewiredParts
<1> SUFFICES ASSUME NEW e \in DOMAIN ns, NEW i \in DOMAIN ns[e].actions
             PROVE  Supported(ns[e], i, al, sc, lg, cov)
  BY DEF AllSupported
<1>2. PICK f \in DOMAIN es : In(ns[e], i, es[f])
  BY <1>1 DEF RewiredAs
<1>3. PICK j \in DOMAIN es[f].actions : Same(ns[e], i, es[f], j)
  BY <1>2 DEF In
<1> QED BY <1>3, SameSupported DEF AllSupported

-----------------------------------------------------------------------------
(* What a step records (SetupsInv).                                        *)

\* What exploring and building need of the log and the screenshots.
LEMMA GrowingParts ==
  ASSUME LoadsInv, Growing, RecordsSupported
  PROVE  /\ Seen \in Nat /\ Seen >= 1 /\ DOMAIN screens = 1..Seen /\ ASeq(screens) /\ ASeq(log)
         /\ Len(log) \in Nat /\ DOMAIN log = 1..Len(log)
         /\ \A t \in DOMAIN log : log[t].before \in DOMAIN screens /\ log[t].after \in DOMAIN screens
         /\ \A o \in DOMAIN screens : screens[o].node \in Ids
         /\ at.observation = Seen /\ at.node \in Ids /\ covered \subseteq 1..Seen
         /\ AllSupported(edges, alias, screens, log, covered) /\ Records(log, log, screens)
<1>1. /\ ASeq(screens) /\ Seen >= 1 /\ ASeq(log)
      /\ \A t \in DOMAIN log : log[t].before \in 1..Seen /\ log[t].after \in 1..Seen
      /\ at.node \in Ids
  BY DEF LoadsInv, NodesHold, LogHolds, PositionHolds
<1>2. Seen \in Nat /\ DOMAIN screens = 1..Seen /\ Len(log) \in Nat /\ DOMAIN log = 1..Len(log)
  BY <1>1, SeqParts DEF Seen
<1> QED BY <1>1, <1>2 DEF RecordsSupported, ScreensNamed, Records

LEMMA ShownIs ==
  ASSUME NEW n, NEW s
  PROVE  Shown(n, s).node = n /\ Shown(n, s).state = s
BY DEF Shown

LEMMA SomeScreen ==
  ASSUME LoadsInv, NEW n \in Screens \cup {Outside}
  PROVE  n \in Ids
<1>1. Outside \in Ids
  BY EdgesAssumption DEF Ids, Outside
<1> QED BY <1>1, ScreensAre

\* A screenshot more.
LEMMA ScreenAdded ==
  ASSUME LoadsInv, Growing, RecordsSupported, NEW c, c.node \in Ids,
         screens' = Append(screens, c)
  PROVE  /\ Seen' = Latest /\ Latest = Seen + 1 /\ DOMAIN screens' = 1..Latest
         /\ Latest \in DOMAIN screens' /\ screens'[Latest] = c
         /\ \A o \in 1..Seen : o \in 1..Latest /\ screens'[o] = screens[o]
         /\ ScreensNamed' /\ Renames(alias, screens, alias, screens')
<1>1. /\ Seen \in Nat /\ DOMAIN screens = 1..Seen /\ ASeq(screens)
      /\ \A o \in DOMAIN screens : screens[o].node \in Ids
  BY GrowingParts
<1>2. /\ ASeq(screens') /\ Len(screens') = Seen + 1 /\ screens'[Seen + 1] = c
      /\ \A o \in 1..Seen : screens'[o] = screens[o]
  BY <1>1, AppendParts DEF Seen
<1>3. DOMAIN screens' = 1..(Seen + 1)
  BY <1>2, SeqParts
<1>4. Seen + 1 \in 1..(Seen + 1) /\ \A o \in 1..(Seen + 1) : o \in 1..Seen \/ o = Seen + 1
  BY <1>1
<1>5. \A o \in 1..Seen : o \in 1..(Seen + 1)
  BY <1>1
<1>6. Seen' = Seen + 1 /\ Latest = Seen + 1
  BY <1>2 DEF Seen, Latest
<1> QED BY <1>1, <1>2, <1>3, <1>4, <1>5, <1>6 DEF ScreensNamed, Renames

\* A transition more.
LEMMA LogAdded ==
  ASSUME LoadsInv, Growing, RecordsSupported, NEW tr, NEW action, NEW target,
         Record(tr, action, target)
  PROVE  /\ Records(log, log', screens) /\ Len(log) + 1 \in DOMAIN log'
         /\ log'[Len(log) + 1].before = at.observation /\ log'[Len(log) + 1].after = Latest
<1> DEFINE t == [before |-> at.observation, after |-> Latest, action |-> action,
                 from |-> at.node, to |-> target]
<1>1. /\ Len(log) \in Nat /\ DOMAIN log = 1..Len(log) /\ ASeq(log)
      /\ \A u \in DOMAIN log : log[u].before \in DOMAIN screens /\ log[u].after \in DOMAIN screens
  BY GrowingParts
<1>2. log' = Append(log, t) /\ t.before = at.observation /\ t.after = Latest
  BY DEF Record
<1> HIDE DEF t
<1>3. /\ ASeq(log') /\ Len(log') = Len(log) + 1 /\ log'[Len(log) + 1] = t
      /\ \A u \in 1..Len(log) : log'[u] = log[u]
  BY <1>1, <1>2, AppendParts
<1>4. DOMAIN log' = 1..(Len(log) + 1)
  BY <1>3, SeqParts
<1>5. Len(log) + 1 \in 1..(Len(log) + 1) /\ \A u \in 1..Len(log) : u \in 1..(Len(log) + 1)
  BY <1>1
<1> QED BY <1>1, <1>2, <1>3, <1>4, <1>5 DEF Records

\* A step within the app, on a trail that has come to the position.
LEMMA TakenSupports ==
  ASSUME LoadsInv, Growing, RecordsSupported, NEW n \in Screens, NEW s, NEW action,
         NEW tr, NEW b \in Nat,
         TrailLeads(tr, b, at.observation, at.node, alias, screens, log, covered),
         NEW ob, ob \in {Latest, NoObservation}, TakeStep(tr, action, n, s, ob)
  PROVE  /\ RecordsSupported' /\ TrailSupports' /\ Seen' = Latest /\ alias' = alias
         /\ covered' = covered /\ phase' = phase
         /\ at'.node = n /\ screens'[Latest].node = n
<1>1. n \in Ids
  BY ScreensAre
<1>2. Shown(n, s).node = n /\ Shown(n, s).state = s
  BY ShownIs
<1>3. /\ Record(tr, action, n) /\ alias' = alias /\ covered' = covered /\ phase' = phase
      /\ trail' = Stepped(tr, alias, Len(log) + 1, n, s, ob)
      /\ at' = [node |-> n, observation |-> Latest]
      /\ screens' = Append(screens, Shown(n, s))
  BY DEF TakeStep, Identify
<1>4. /\ Seen' = Latest /\ Latest = Seen + 1 /\ DOMAIN screens' = 1..Latest
      /\ Latest \in DOMAIN screens' /\ screens'[Latest] = Shown(n, s)
      /\ \A o \in 1..Seen : o \in 1..Latest /\ screens'[o] = screens[o]
      /\ ScreensNamed' /\ Renames(alias, screens, alias, screens')
  BY <1>1, <1>2, <1>3, ScreenAdded
<1>5. /\ Records(log, log', screens) /\ Len(log) + 1 \in DOMAIN log'
      /\ log'[Len(log) + 1].before = at.observation /\ log'[Len(log) + 1].after = Latest
  BY <1>3, LogAdded
<1>6. /\ Seen \in Nat /\ at.node \in Ids /\ Records(log, log, screens)
      /\ at.observation = Seen /\ covered \subseteq 1..Seen
      /\ AllSupported(edges, alias, screens, log, covered)
  BY GrowingParts
<1>7. AllSupported(edges', alias, screens', log', covered)
  BY <1>3, <1>4, <1>5, <1>6, RecordSupports
<1>8. TrailLeads(trail', b, Latest, n, alias, screens', log', covered)
  <2>1. DOMAIN log \subseteq DOMAIN log' /\ \A t \in DOMAIN log : log'[t] = log[t]
    BY <1>5 DEF Records
  <2> DEFINE k == Len(log) + 1
             sc2 == screens'
             lg2 == log'
             tr2 == Stepped(tr, alias, k, n, s, ob)
             o2 == Latest
  <2>2. k \in DOMAIN lg2 /\ lg2[k].before = at.observation /\ lg2[k].after = o2
    BY <1>5
  <2>3. /\ Renames(alias, screens, alias, sc2) /\ o2 \in DOMAIN sc2
        /\ alias[sc2[o2].node] = alias[n] /\ sc2[o2].state = s
        /\ DOMAIN log \subseteq DOMAIN lg2 /\ \A t \in DOMAIN log : lg2[t] = log[t]
    BY <1>2, <1>4, <2>1
  <2>4. trail' = tr2 /\ tr2 = Stepped(tr, alias, k, n, s, ob)
    BY <1>3
  <2>5. ob \in Int /\ ob \in {o2, NoObservation}
    BY <1>4, <1>6 DEF NoObservation
  <2> HIDE DEF k, sc2, lg2, tr2, o2
  <2>6. TrailLeads(Stepped(tr, alias, k, n, s, ob), b, o2, n, alias, sc2, lg2, covered)
    BY <1>1, <1>6, <2>2, <2>3, <2>5, SteppedLeads
  <2> QED BY <2>4, <2>6 DEF sc2, lg2, o2
<1>9. at'.node = n /\ at'.observation = Latest
  BY <1>3
<1>10. covered' \subseteq 1..Seen'
  BY <1>3, <1>4, <1>6
<1>11. RecordsSupported'
  BY <1>3, <1>4, <1>7, <1>9, <1>10 DEF RecordsSupported
<1>12. TrailSupports'
  BY <1>3, <1>8, <1>9 DEF TrailSupports
<1> QED BY <1>2, <1>3, <1>4, <1>9, <1>11, <1>12

\* A step that leads outside, and the screen the run comes back to.
LEMMA LeftSupports ==
  ASSUME LoadsInv, Growing, RecordsSupported, NEW n \in Screens \cup {Outside}, NEW s, NEW action,
         NEW tr, NEW b \in Nat,
         TrailLeads(tr, b, at.observation, at.node, alias, screens, log, covered),
         LeaveApp(tr, action, n, s)
  PROVE  /\ RecordsSupported' /\ Seen' = Seen + 2 /\ Latest + 1 = Seen + 2 /\ alias' = alias
         /\ Seen + 2 \in DOMAIN screens' /\ covered' = covered /\ phase' = phase
         /\ at' = [node |-> n, observation |-> Seen + 2] /\ screens'[Seen + 2] = Shown(n, s)
<1> DEFINE one == << Shown(Outside, s), Shown(n, s) >>
<1>1. n \in Ids /\ Outside \in Ids
  <2>1. Outside \in Screens \cup {Outside}
    OBVIOUS
  <2> QED BY <2>1, SomeScreen
<1>2. Shown(n, s).node = n /\ Shown(Outside, s).node = Outside
  BY ShownIs
<1>3. /\ Record(tr, action, Outside) /\ alias' = alias /\ covered' = covered /\ phase' = phase
      /\ at' = [node |-> n, observation |-> Latest + 1]
      /\ screens' = screens \o one
  BY DEF LeaveApp
<1>4. /\ Seen \in Nat /\ DOMAIN screens = 1..Seen /\ ASeq(screens)
      /\ \A o \in DOMAIN screens : screens[o].node \in Ids
      /\ at.observation = Seen /\ covered \subseteq 1..Seen
      /\ AllSupported(edges, alias, screens, log, covered)
  BY GrowingParts
<1>5. /\ ASeq(one) /\ Len(one) = 2 /\ one[1] = Shown(Outside, s) /\ one[2] = Shown(n, s)
  <2>1. one \in Seq({Shown(Outside, s), Shown(n, s)})
    OBVIOUS
  <2> QED BY <2>1 DEF ASeq
<1> HIDE DEF one
<1>6. /\ ASeq(screens') /\ Len(screens') = Seen + 2
      /\ \A o \in 1..Seen : screens'[o] = screens[o]
      /\ screens'[Seen + 1] = Shown(Outside, s) /\ screens'[Seen + 2] = Shown(n, s)
  <2> DEFINE m == Seen
  <2>1. m = Len(screens)
    BY DEF Seen
  <2> HIDE DEF m
  <2> DEFINE all == screens \o one
  <2>a. /\ ASeq(all) /\ Len(all) = Len(screens) + Len(one)
        /\ \A o \in 1..Len(screens) : all[o] = screens[o]
        /\ \A i \in 1..Len(one) : all[Len(screens) + i] = one[i]
    <3>1. IsConcat(all, screens, one)
      BY <1>4, <1>5, ConcatOf
    <3> HIDE DEF all
    <3> QED BY <3>1 DEF IsConcat
  <2>b. screens' = all
    BY <1>3
  <2> HIDE DEF all
  <2>2. /\ ASeq(screens') /\ Len(screens') = m + 2 /\ \A o \in 1..m : screens'[o] = screens[o]
        /\ \A i \in 1..2 : screens'[m + i] = one[i]
    BY <1>5, <2>1, <2>a, <2>b
  <2>3. screens'[m + 1] = one[1] /\ screens'[m + 2] = one[2]
    BY <2>2
  <2> QED BY <1>5, <2>2, <2>3 DEF m
<1>7. DOMAIN screens' = 1..(Seen + 2) /\ Seen' = Seen + 2
  BY <1>6, SeqParts DEF Seen
<1>8. /\ \A o \in 1..(Seen + 2) : o \in 1..Seen \/ o = Seen + 1 \/ o = Seen + 2
      /\ \A o \in 1..Seen : o \in 1..(Seen + 2)
      /\ Latest + 1 = Seen + 2 /\ Seen + 2 \in 1..(Seen + 2)
  BY <1>4 DEF Latest
<1>9. Renames(alias, screens, alias, screens')
  BY <1>4, <1>6, <1>7, <1>8 DEF Renames
<1>10. ScreensNamed'
  BY <1>1, <1>2, <1>4, <1>6, <1>7, <1>8 DEF ScreensNamed
<1>11. /\ Records(log, log', screens) /\ Len(log) + 1 \in DOMAIN log'
       /\ log'[Len(log) + 1].before = at.observation
  BY <1>3, LogAdded
<1>12. AllSupported(edges', alias, screens', log', covered)
  BY <1>3, <1>4, <1>9, <1>11, RecordSupports
<1>13. at'.node = n /\ at'.observation = Seen + 2 /\ at' = [node |-> n, observation |-> Seen + 2]
  BY <1>3, <1>8
<1>14. covered' \subseteq 1..Seen'
  BY <1>3, <1>4, <1>7, <1>8
<1>15. RecordsSupported'
  BY <1>3, <1>7, <1>10, <1>12, <1>13, <1>14 DEF RecordsSupported
<1> QED BY <1>3, <1>6, <1>7, <1>8, <1>13, <1>15

-----------------------------------------------------------------------------
(* What each action keeps (SetupsInv).                                     *)

\* A screen that is identified while edges and log stay.
LEMMA IdentifySupports ==
  ASSUME LoadsInv, Growing, RecordsSupported, NEW n \in Screens \cup {Outside}, NEW s, Identify(n, s),
         edges' = edges, log' = log, covered \subseteq covered', covered' \subseteq covered \cup {Latest}
  PROVE  /\ RecordsSupported' /\ Seen' = Latest /\ Latest = Seen + 1 /\ alias' = alias /\ phase' = phase
         /\ Latest \in DOMAIN screens' /\ screens'[Latest] = Shown(n, s)
         /\ at' = [node |-> n, observation |-> Latest]
<1>1. n \in Ids
  BY SomeScreen
<1>2. Shown(n, s).node = n
  BY ShownIs
<1>3. /\ alias' = alias /\ phase' = phase /\ at' = [node |-> n, observation |-> Latest]
      /\ screens' = Append(screens, Shown(n, s))
  BY DEF Identify
<1>4. /\ Seen' = Latest /\ Latest = Seen + 1 /\ DOMAIN screens' = 1..Latest
      /\ Latest \in DOMAIN screens' /\ screens'[Latest] = Shown(n, s)
      /\ \A o \in 1..Seen : o \in 1..Latest /\ screens'[o] = screens[o]
      /\ ScreensNamed' /\ Renames(alias, screens, alias, screens')
  BY <1>1, <1>2, <1>3, ScreenAdded
<1>5. /\ AllSupported(edges, alias, screens, log, covered) /\ Records(log, log, screens)
      /\ covered \subseteq 1..Seen
  BY GrowingParts
<1>6. AllSupported(edges, alias, screens', log, covered')
  BY <1>4, <1>5, AllSupportedStill
<1>7. covered' \subseteq 1..Seen'
  BY <1>4, <1>5
<1>8. at'.observation = Latest
  BY <1>3
<1>9. RecordsSupported'
  BY <1>3, <1>4, <1>6, <1>7, <1>8 DEF RecordsSupported
<1> QED BY <1>3, <1>4, <1>9

LEMMA StepSupports ==
  ASSUME LoadsInv, Supports, NEW n \in Screens, NEW s, NEW action, Step(action, n, s)
  PROVE  Supports'
<1>1. phase = "explore" /\ TakeStep(trail, action, n, s, Latest) /\ Growing
  BY DEF Step, Growing
<1>2. RecordsSupported /\ TrailSupports
  BY <1>1 DEF Supports
<1>3. PICK b \in Nat : TrailLeads(trail, b, at.observation, at.node, alias, screens, log, covered)
  BY <1>2 DEF TrailSupports
<1>4. RecordsSupported' /\ TrailSupports' /\ phase' = phase
  <2>1. Latest \in {Latest, NoObservation}
    OBVIOUS
  <2> QED BY <1>1, <1>2, <1>3, <2>1, TakenSupports
<1> QED BY <1>1, <1>4 DEF Supports

LEMMA StepOutsideSupports ==
  ASSUME LoadsInv, Supports, NEW n \in Screens \cup {Outside}, NEW s, NEW action,
         StepOutside(action, n, s)
  PROVE  Supports'
<1>1. /\ phase = "explore" /\ LeaveApp(trail, action, n, s) /\ Growing
      /\ trail' = Begun(n, s, FALSE, NoObservation)
  BY DEF StepOutside, Growing
<1>2. RecordsSupported /\ TrailSupports
  BY <1>1 DEF Supports
<1>3. PICK b \in Nat : TrailLeads(trail, b, at.observation, at.node, alias, screens, log, covered)
  BY <1>2 DEF TrailSupports
<1>4. /\ RecordsSupported' /\ phase' = phase /\ Seen + 2 \in DOMAIN screens'
      /\ at' = [node |-> n, observation |-> Seen + 2] /\ screens'[Seen + 2] = Shown(n, s)
  BY <1>1, <1>2, <1>3, LeftSupports
<1>5. n \in Ids /\ NoObservation \in Int
  BY SomeScreen DEF NoObservation
<1>6. screens'[Seen + 2].node = n /\ screens'[Seen + 2].state = s
  BY <1>4, ShownIs
<1> DEFINE o == Seen + 2
           sc2 == screens'
           lg2 == log'
           al2 == alias'
           cov2 == covered'
<1>7. o \in DOMAIN sc2 /\ al2[sc2[o].node] = al2[n] /\ sc2[o].state = s
  BY <1>4, <1>6
<1>8. at'.node = n /\ at'.observation = o
  BY <1>4
<1> HIDE DEF o, sc2, lg2, al2, cov2
<1>9. TrailLeads(Begun(n, s, FALSE, NoObservation), 0, o, n, al2, sc2, lg2, cov2)
  BY <1>5, <1>7, BegunLeads
<1>10. 0 \in Nat /\ TrailLeads(trail', 0, at'.observation, at'.node, alias', screens', log', covered')
  BY <1>1, <1>8, <1>9 DEF o, sc2, lg2, al2, cov2
<1>11. TrailSupports'
  BY <1>10 DEF TrailSupports
<1> QED BY <1>1, <1>4, <1>11 DEF Supports

LEMMA ArriveSupports ==
  ASSUME LoadsInv, Supports, NEW n \in Screens \cup {Outside}, NEW s, NEW known \in BOOLEAN,
         Arrive(n, s, known)
  PROVE  Supports'
<1>1. /\ phase = "explore" /\ Growing /\ Identify(n, s) /\ edges' = edges /\ log' = log
      /\ covered' = covered /\ trail' = Begun(n, s, known, Latest)
  BY DEF Arrive, Growing
<1>2. RecordsSupported
  BY DEF Supports
<1>3. /\ RecordsSupported' /\ Latest = Seen + 1 /\ phase' = phase
      /\ Latest \in DOMAIN screens' /\ screens'[Latest] = Shown(n, s)
      /\ at' = [node |-> n, observation |-> Latest]
  BY <1>1, <1>2, IdentifySupports
<1>4. n \in Ids /\ Latest \in Int
  BY <1>1, <1>2, <1>3, SomeScreen, GrowingParts
<1>6. screens'[Latest].node = n /\ screens'[Latest].state = s
  BY <1>3, ShownIs
<1> DEFINE o == Latest
           sc2 == screens'
           lg2 == log'
           al2 == alias'
           cov2 == covered'
<1>7. o \in DOMAIN sc2 /\ al2[sc2[o].node] = al2[n] /\ sc2[o].state = s /\ o \in Int
  BY <1>3, <1>4, <1>6
<1>8. at'.node = n /\ at'.observation = o /\ trail' = Begun(n, s, known, o)
  BY <1>1, <1>3
<1> HIDE DEF o, sc2, lg2, al2, cov2
<1>9. TrailLeads(Begun(n, s, known, o), 0, o, n, al2, sc2, lg2, cov2)
  BY <1>4, <1>7, BegunLeads
<1>10. 0 \in Nat /\ TrailLeads(trail', 0, at'.observation, at'.node, alias', screens', log', covered')
  BY <1>8, <1>9 DEF sc2, lg2, al2, cov2
<1>11. TrailSupports'
  BY <1>10 DEF TrailSupports
<1> QED BY <1>1, <1>3, <1>11 DEF Supports

\* No arrival is since the covered input, so nothing is claimed of the trail.
LEMMA OverlayStepSupports ==
  ASSUME LoadsInv, Supports, NEW n \in Screens \cup {Outside}, NEW s, OverlayStep(n, s)
  PROVE  Supports'
<1>1. /\ phase = "explore" /\ Growing /\ Identify(n, s) /\ edges' = edges /\ log' = log
      /\ covered' = covered \cup {Latest} /\ trail' = trail
  BY DEF OverlayStep, Growing
<1>2. RecordsSupported /\ TrailSupports
  BY <1>1 DEF Supports
<1>3. /\ RecordsSupported' /\ Latest = Seen + 1 /\ phase' = phase /\ alias' = alias
      /\ Latest \in DOMAIN screens' /\ screens'[Latest] = Shown(n, s)
      /\ at' = [node |-> n, observation |-> Latest]
  BY <1>1, <1>2, IdentifySupports
<1>4. PICK b \in Nat : TrailLeads(trail, b, at.observation, at.node, alias, screens, log, covered)
  BY <1>2 DEF TrailSupports
<1>5. /\ ASeq(trail.sent) /\ \A k \in DOMAIN trail.sent : trail.sent[k] \in DOMAIN log
      /\ Arriving(trail.arrivals) /\ trail.arrivals # <<>>
      /\ \A k \in DOMAIN trail.arrivals : trail.arrivals[k].node \in Ids
  BY <1>4 DEF TrailLeads, JoinsUp
<1>6. Len(trail.sent) \in Nat /\ DOMAIN trail.sent = 1..Len(trail.sent)
  BY <1>5, SeqParts
<1>7. ASSUME NEW k \in DOMAIN trail.arrivals
      PROVE  trail.arrivals[k].observation \in Int /\ ~Since(trail.arrivals[k].observation, covered')
  <2>1. trail.arrivals[k].observation \in Listed(members) \cup {NoObservation}
    BY DEF LoadsInv, TrailHolds
  <2>2. Listed(members) \subseteq 1..Seen /\ Seen \in Nat
    <3>1. Seen \in Nat
      BY <1>1, <1>2, GrowingParts
    <3> QED BY <3>1 DEF LoadsInv, NodesHold, Listed
  <2>3. trail.arrivals[k].observation \in 0..Seen
    BY <2>1, <2>2 DEF NoObservation
  <2>4. Latest \in covered' /\ ~(Latest <= trail.arrivals[k].observation)
    BY <1>1, <1>3, <2>2, <2>3
  <2> QED BY <2>2, <2>3, <2>4 DEF Since
<1>8. Len(trail.arrivals) \in DOMAIN trail.arrivals
  BY <1>5, SeqParts DEF Arriving
<1>9. screens'[Latest].node = n
  BY <1>3, ShownIs
<1>10. JoinsUp(trail.sent, Len(trail.sent), Latest, alias, screens', log)
  <2>1. Len(trail.sent) \in 0..Len(trail.sent) /\ \A k \in DOMAIN trail.sent : ~(k > Len(trail.sent))
    BY <1>6
  <2> QED BY <1>3, <1>5, <2>1 DEF JoinsUp
<1>11. TrailLeads(trail, Len(trail.sent), Latest, n, alias, screens', log, covered')
  BY <1>5, <1>7, <1>8, <1>9, <1>10 DEF TrailLeads
<1>12. at'.node = n /\ at'.observation = Latest
  BY <1>3
<1>13. TrailSupports'
  BY <1>1, <1>3, <1>6, <1>11, <1>12 DEF TrailSupports
<1> QED BY <1>1, <1>3, <1>13 DEF Supports

\* The trail a step of a build is taken on has come to the position.
LEMMA StartedLeads ==
  ASSUME LoadsInv, Growing, RecordsSupported, Built
  PROVE  \E b \in Nat : TrailLeads(StartedTrail, b, at.observation, at.node, alias, screens, log, covered)
<1>1. CASE run.head = run.match
  BY <1>1 DEF Built, TrailSupports, StartedTrail
<1>2. CASE run.head # run.match
  <2> DEFINE s == screens[run.match].state
             known == run.arrival
  <2>1. StartedTrail = Begun(at.node, s, known, NoObservation)
    BY <1>2 DEF StartedTrail
  <2>2. /\ Seen \in Nat /\ Seen \in DOMAIN screens /\ at.observation = Seen /\ at.node \in Ids
    BY GrowingParts
  <2>3. /\ alias[screens[Seen].node] = alias[at.node] /\ screens[Seen].state = s /\ known \in BOOLEAN
    BY DEF Built
  <2>4. NoObservation \in Int
    BY DEF NoObservation
  <2> HIDE DEF s, known
  <2>5. TrailLeads(Begun(at.node, s, known, NoObservation), 0, Seen, at.node, alias, screens, log, covered)
    BY <2>2, <2>3, <2>4, BegunLeads
  <2> QED BY <2>1, <2>2, <2>5
<1> QED BY <1>1, <1>2

LEMMA MatchSupports ==
  ASSUME LoadsInv, Supports, NEW n \in Screens \cup {Outside}, NEW s, NEW known \in BOOLEAN,
         Match(n, s, known)
  PROVE  Supports'
<1>1. /\ phase = "build" /\ Growing /\ Identify(n, s) /\ edges' = edges /\ log' = log
      /\ covered' = covered /\ run' = [run EXCEPT !.match = Latest, !.arrival = known]
  BY DEF Match, Growing
<1>2. RecordsSupported /\ Built
  BY <1>1 DEF Supports
<1>3. /\ RecordsSupported' /\ Latest = Seen + 1 /\ phase' = phase /\ Seen' = Latest
      /\ Latest \in DOMAIN screens' /\ screens'[Latest] = Shown(n, s)
      /\ at' = [node |-> n, observation |-> Latest]
  BY <1>1, <1>2, IdentifySupports
<1>4. Seen \in Nat
  BY <1>1, <1>2, GrowingParts
<1>5. /\ run = [head |-> run.head, match |-> run.match, arrival |-> run.arrival]
      /\ run.head \in 0..Seen /\ covered = {}
  BY <1>2 DEF Built
<1>6. run' = [head |-> run.head, match |-> Latest, arrival |-> known]
  BY <1>1, <1>5
<1>7. /\ run'.head = run.head /\ run'.match = Latest /\ run'.arrival = known
      /\ run.head # Latest /\ run.head \in 0..Latest /\ Latest \in 1..Latest
  BY <1>3, <1>4, <1>5, <1>6
<1>8. screens'[Latest].node = n /\ at'.node = n
  BY <1>3, ShownIs
<1>9. Built'
  BY <1>1, <1>3, <1>5, <1>6, <1>7, <1>8 DEF Built
<1> QED BY <1>1, <1>3, <1>9 DEF Supports

LEMMA BuildStepSupports ==
  ASSUME LoadsInv, Supports, NEW n \in Screens, NEW s, NEW action, BuildStep(action, n, s)
  PROVE  Supports'
<1>1. /\ phase = "build" /\ TakeStep(StartedTrail, action, n, s, NoObservation) /\ Growing
      /\ run' = [head |-> Latest, match |-> Latest, arrival |-> FALSE]
  BY DEF BuildStep, Growing
<1>2. RecordsSupported /\ Built
  BY <1>1 DEF Supports
<1>3. PICK b \in Nat :
        TrailLeads(StartedTrail, b, at.observation, at.node, alias, screens, log, covered)
  BY <1>1, <1>2, StartedLeads
<1>4. /\ RecordsSupported' /\ TrailSupports' /\ phase' = phase /\ Seen' = Latest /\ alias' = alias
      /\ covered' = covered /\ at'.node = n /\ screens'[Latest].node = n
  <2>1. NoObservation \in {Latest, NoObservation}
    OBVIOUS
  <2> QED BY <1>1, <1>2, <1>3, <2>1, TakenSupports
<1>5. Latest \in 1..Latest /\ Latest \in 0..Latest
  <2>1. Seen \in Nat
    BY <1>1, <1>2, GrowingParts
  <2> QED BY <2>1 DEF Latest
<1>6. Built'
  <2>1. run'.head = Latest /\ run'.match = Latest /\ run'.arrival = FALSE
    BY <1>1
  <2>2. covered' = {}
    BY <1>2, <1>4 DEF Built
  <2> QED BY <1>1, <1>4, <1>5, <2>1, <2>2 DEF Built
<1> QED BY <1>1, <1>4, <1>6 DEF Supports

LEMMA BuildStepOutsideSupports ==
  ASSUME LoadsInv, Supports, NEW n \in Screens \cup {Outside}, NEW s, NEW action,
         BuildStepOutside(action, n, s)
  PROVE  Supports'
<1>1. /\ phase = "build" /\ LeaveApp(StartedTrail, action, n, s) /\ Growing
      /\ run' = [head |-> NoHead, match |-> Latest + 1, arrival |-> FALSE]
  BY DEF BuildStepOutside, Growing
<1>2. RecordsSupported /\ Built
  BY <1>1 DEF Supports
<1>3. PICK b \in Nat :
        TrailLeads(StartedTrail, b, at.observation, at.node, alias, screens, log, covered)
  BY <1>1, <1>2, StartedLeads
<1>4. /\ RecordsSupported' /\ phase' = phase /\ Seen' = Seen + 2 /\ Latest + 1 = Seen + 2
      /\ alias' = alias /\ covered' = covered
      /\ at' = [node |-> n, observation |-> Seen + 2] /\ screens'[Seen + 2] = Shown(n, s)
  BY <1>1, <1>2, <1>3, LeftSupports
<1>5. Seen \in Nat /\ covered = {}
  BY <1>1, <1>2, GrowingParts DEF Built
<1>6. /\ run'.head = 0 /\ run'.match = Seen + 2 /\ run'.arrival = FALSE
      /\ run' = [head |-> run'.head, match |-> run'.match, arrival |-> run'.arrival]
  BY <1>1, <1>4 DEF NoHead
<1>7. Seen + 2 \in 1..(Seen + 2) /\ 0 \in 0..(Seen + 2) /\ 0 # Seen + 2
  BY <1>5
<1>8. screens'[Seen + 2].node = n /\ at'.node = n
  BY <1>4, ShownIs
<1>9. Built'
  BY <1>4, <1>5, <1>6, <1>7, <1>8 DEF Built
<1> QED BY <1>1, <1>4, <1>9 DEF Supports

\* Nothing is identified: the trail leads to the same screen, whatever its node is called.
LEMMA WaitSupports ==
  ASSUME LoadsInv, Supports, Wait, UNCHANGED run
  PROVE  Supports'
<1>1. /\ Growing /\ phase' = phase /\ alias' = alias /\ edges' = edges /\ log' = log /\ trail' = trail
      /\ covered' = covered
      /\ at' = [at EXCEPT !.observation = Latest] /\ screens' = Append(screens, screens[Seen])
  BY DEF Wait, graphVars
<1>2. /\ Seen \in Nat /\ Seen >= 1 /\ DOMAIN screens = 1..Seen
      /\ \A o \in DOMAIN screens : screens[o].node \in Ids
      /\ AllSupported(edges, alias, screens, log, covered) /\ Records(log, log, screens)
      /\ at.observation = Seen /\ at.node \in Ids /\ covered \subseteq 1..Seen /\ RecordsSupported
  BY <1>1, GrowingParts DEF Supports
<1>3. screens[Seen].node \in Ids
  BY <1>2
<1>4. /\ Seen' = Latest /\ Latest = Seen + 1 /\ DOMAIN screens' = 1..Latest
      /\ Latest \in DOMAIN screens' /\ screens'[Latest] = screens[Seen]
      /\ \A o \in 1..Seen : o \in 1..Latest /\ screens'[o] = screens[o]
      /\ ScreensNamed' /\ Renames(alias, screens, alias, screens')
  BY <1>1, <1>2, <1>3, ScreenAdded
<1>5. AllSupported(edges, alias, screens', log, covered)
  BY <1>2, <1>4, AllSupportedStill
<1>6. at' = [node |-> at.node, observation |-> Latest]
  BY <1>1 DEF LoadsInv, PositionHolds
<1>7. at'.node = at.node /\ at'.observation = Latest
  BY <1>6
<1>8. RecordsSupported'
  <2>1. covered' \subseteq 1..Seen'
    BY <1>1, <1>2, <1>4
  <2> QED BY <1>1, <1>4, <1>5, <1>7, <2>1 DEF RecordsSupported
<1>9. ASSUME TrailSupports PROVE TrailSupports'
  <2>1. PICK b \in Nat : TrailLeads(trail, b, Seen, at.node, alias, screens, log, covered)
    BY <1>2, <1>9 DEF TrailSupports
  <2>2. TrailLeads(trail, b, Latest, at.node, alias, screens', log, covered)
    BY <1>2, <1>4, <2>1, TrailLeadsStill
  <2> QED BY <1>1, <1>7, <2>2 DEF TrailSupports
<1>10. ASSUME Built PROVE Built'
  <2>1. /\ covered = {} /\ run.match \in 1..Seen /\ run.head \in 0..Seen
        /\ screens[run.match] = screens[Seen] /\ run.arrival \in BOOLEAN
        /\ run = [head |-> run.head, match |-> run.match, arrival |-> run.arrival]
        /\ alias[screens[Seen].node] = alias[at.node]
        /\ run.head = run.match => TrailSupports
    BY <1>10 DEF Built
  <2>2. run.match \in 1..Latest /\ run.head \in 0..Latest /\ screens'[run.match] = screens'[Latest]
    BY <1>2, <1>4, <2>1
  <2> QED BY <1>1, <1>4, <1>7, <1>9, <2>1, <2>2 DEF Built
<1> QED BY <1>1, <1>8, <1>9, <1>10 DEF Supports

LEMMA MergeSupports ==
  ASSUME LoadsInv, Supports, NEW keep \in InApp, NEW remove \in InApp, Merge(keep, remove), UNCHANGED run
  PROVE  Supports'
<1>1. /\ keep \in Ids /\ alias[keep] = keep /\ remove \in Ids /\ alias[remove] = remove
  BY InAppAre
<1>2. /\ Growing /\ phase' = phase /\ keep # remove /\ log' = log /\ trail' = trail
      /\ screens' = screens /\ covered' = covered
      /\ edges' = Rewired(edges, keep, remove)
      /\ alias' = [n \in Ids |-> IF alias[n] = remove THEN keep ELSE alias[n]]
      /\ at' = [at EXCEPT !.node = IF @ = remove THEN keep ELSE @]
  <2>1. keep < remove
    BY DEF Merge
  <2>2. keep \in Int /\ remove \in Int
    BY <1>1 DEF Ids
  <2> QED BY <2>1, <2>2 DEF Merge
<1>3. /\ Seen \in Nat /\ DOMAIN screens = 1..Seen /\ Seen >= 1
      /\ \A o \in DOMAIN screens : screens[o].node \in Ids
      /\ AllSupported(edges, alias, screens, log, covered) /\ Records(log, log, screens)
      /\ at.observation = Seen /\ at.node \in Ids /\ covered \subseteq 1..Seen
  BY <1>2, GrowingParts DEF Supports
<1>4. Renames(alias, screens, alias', screens)
  BY <1>2, <1>3 DEF Renames
<1>5. AllSupported(edges, alias', screens, log, covered)
  BY <1>3, <1>4, AllSupportedStill
<1>6. AllSupported(edges', alias', screens, log, covered)
  <2>1. PreparedAll(edges) /\ DOMAIN edges \subseteq Ids \X Ids
    BY DEF LoadsInv, EdgesHold
  <2> QED BY <1>2, <1>5, <2>1, RewiredSupported
<1>7. at' = [node |-> IF at.node = remove THEN keep ELSE at.node, observation |-> at.observation]
  BY <1>2 DEF LoadsInv, PositionHolds
<1>8. /\ alias'[at'.node] = alias'[at.node] /\ at'.observation = Seen
      /\ \A n \in Ids : alias[n] = alias[at.node] => alias'[n] = alias'[at.node]
  BY <1>1, <1>2, <1>3, <1>7
<1>9. Seen \in DOMAIN screens
  BY <1>3
<1>10. ScreensNamed' /\ Seen' = Seen
  BY <1>2, <1>3 DEF ScreensNamed, Seen
<1>11. RecordsSupported'
  BY <1>2, <1>3, <1>6, <1>8, <1>10 DEF RecordsSupported
<1>12. ASSUME TrailSupports PROVE TrailSupports'
  <2>1. PICK b \in Nat : TrailLeads(trail, b, Seen, at.node, alias, screens, log, covered)
    BY <1>3, <1>12 DEF TrailSupports
  <2>2. TrailLeads(trail, b, Seen, at'.node, alias', screens, log, covered)
    BY <1>3, <1>4, <1>8, <1>9, <2>1, TrailLeadsStill
  <2> QED BY <1>2, <1>8, <2>2 DEF TrailSupports
<1>13. ASSUME Built PROVE Built'
  <2>1. /\ covered = {} /\ run.match \in 1..Seen /\ run.head \in 0..Seen
        /\ screens[run.match] = screens[Seen] /\ run.arrival \in BOOLEAN
        /\ run = [head |-> run.head, match |-> run.match, arrival |-> run.arrival]
        /\ alias[screens[Seen].node] = alias[at.node]
        /\ run.head = run.match => TrailSupports
    BY <1>13 DEF Built
  <2>2. alias'[screens[Seen].node] = alias'[at'.node]
    BY <1>3, <1>8, <1>9, <2>1
  <2> QED BY <1>2, <1>10, <1>12, <2>1, <2>2 DEF Built
<1> QED BY <1>2, <1>11, <1>12, <1>13 DEF Supports

-----------------------------------------------------------------------------
(* SetupsInv is inductive, and setups lead to their action.                *)

LEMMA InitSupports ==
  ASSUME BuildInit
  PROVE  Supports
<1>1. PICK first \in {1, Outside}, s \in States :
        /\ at = [node |-> first, observation |-> 1] /\ covered = {}
        /\ alias = [n \in Ids |-> n]
        /\ edges = <<>> /\ trail = Begun(first, s, TRUE, 1)
        /\ screens = << [node |-> first, state |-> s] >>
  BY DEF BuildInit, Init
<1>2. run = [head |-> NoHead, match |-> 1, arrival |-> FALSE]
  BY DEF BuildInit
<1>3. /\ DOMAIN screens = {1} /\ Seen = 1 /\ screens[1].node = first /\ screens[1].state = s
  BY <1>1 DEF Seen
<1>4. first \in Ids
  BY EdgesAssumption DEF Ids, Outside
<1>5. AllSupported(edges, alias, screens, log, covered)
  <2>1. DOMAIN edges = {}
    BY <1>1
  <2> QED BY <2>1 DEF AllSupported
<1>6. at.node = first /\ at.observation = 1
  BY <1>1
<1>7. RecordsSupported
  BY <1>1, <1>3, <1>4, <1>5, <1>6 DEF RecordsSupported, ScreensNamed
<1>8. TrailSupports
  <2> DEFINE known == TRUE
             o == 1
  <2>1. /\ o \in DOMAIN screens /\ alias[screens[o].node] = alias[first] /\ screens[o].state = s
        /\ o \in Int /\ known \in BOOLEAN /\ (known => o \in {o, NoObservation})
    BY <1>3
  <2>2. trail = Begun(first, s, known, o) /\ at.node = first /\ at.observation = o
    BY <1>1, <1>6
  <2> HIDE DEF known, o
  <2>3. TrailLeads(Begun(first, s, known, o), 0, o, first, alias, screens, log, covered)
    BY <1>4, <2>1, BegunLeads
  <2>4. 0 \in Nat
    OBVIOUS
  <2> QED BY <2>2, <2>3, <2>4 DEF TrailSupports
<1>9. Built
  <2>1. /\ run.head = 0 /\ run.match = 1 /\ run.arrival = FALSE
        /\ run = [head |-> run.head, match |-> run.match, arrival |-> run.arrival]
    BY <1>2 DEF NoHead
  <2>2. run.match \in 1..Seen /\ run.head \in 0..Seen /\ run.head # run.match
    <3>1. Seen = 1 /\ run.match = 1 /\ run.head = 0
      BY <1>3, <2>1
    <3> QED BY ONLY <3>1
  <2>3. run.arrival \in BOOLEAN
    BY <2>1
  <2>4. /\ screens[run.match] = screens[Seen] /\ alias[screens[Seen].node] = alias[at.node]
        /\ covered = {}
    BY <1>1, <1>3, <1>6, <2>1
  <2>5. /\ covered = {} /\ run.match \in 1..Seen /\ run.head \in 0..Seen
        /\ screens[run.match] = screens[Seen] /\ run.arrival \in BOOLEAN
        /\ run = [head |-> run.head, match |-> run.match, arrival |-> run.arrival]
        /\ alias[screens[Seen].node] = alias[at.node]
    BY <2>1, <2>2, <2>3, <2>4
  <2>6. run.head = run.match => TrailSupports
    BY <1>8
  <2> QED BY ONLY <2>5, <2>6 DEF Built
<1> QED BY <1>7, <1>8, <1>9 DEF Supports

LEMMA NextSupports ==
  ASSUME LoadsInv, Growing => Supports, [BuildNext]_buildVars, Growing'
  PROVE  Supports'
<1>0. CASE UNCHANGED buildVars
  <2>1. UNCHANGED <<phase, at, alias, edges, log, trail, screens, covered, run>>
    BY <1>0 DEF buildVars, vars, graphVars
  <2>2. Seen' = Seen /\ ScreensNamed' = ScreensNamed /\ TrailSupports' = TrailSupports
    BY <2>1 DEF Seen, ScreensNamed, TrailSupports
  <2>3. RecordsSupported' = RecordsSupported
    BY <2>1, <2>2 DEF RecordsSupported
  <2>4. Built' = Built
    BY <2>1, <2>2 DEF Built
  <2> QED BY <2>1, <2>2, <2>3, <2>4 DEF Supports, Growing
<1>1. ASSUME NEW n \in Screens, NEW s \in States, NEW a \in Actions, Step(a, n, s) PROVE Supports'
  BY <1>1, StepSupports DEF Step, Growing
<1>2. ASSUME NEW n \in Screens \cup {Outside}, NEW s \in States, NEW a \in Actions, StepOutside(a, n, s)
      PROVE  Supports'
  BY <1>2, StepOutsideSupports DEF StepOutside, Growing
<1>3. ASSUME NEW n \in Screens \cup {Outside}, NEW s \in States, NEW known \in BOOLEAN,
             Arrive(n, s, known)
      PROVE  Supports'
  BY <1>3, ArriveSupports DEF Arrive, Growing
<1>4. ASSUME NEW n \in Screens \cup {Outside}, NEW s \in States, OverlayStep(n, s) PROVE Supports'
  BY <1>4, OverlayStepSupports DEF OverlayStep, Growing
<1>5. ASSUME NEW n \in Screens, NEW s \in States, NEW a \in Actions, BuildStep(a, n, s) PROVE Supports'
  BY <1>5, BuildStepSupports DEF BuildStep, Growing
<1>6. ASSUME NEW n \in Screens \cup {Outside}, NEW s \in States, NEW a \in Actions,
             BuildStepOutside(a, n, s)
      PROVE  Supports'
  BY <1>6, BuildStepOutsideSupports DEF BuildStepOutside, Growing
<1>7. ASSUME NEW n \in Screens \cup {Outside}, NEW s \in States, NEW known \in BOOLEAN,
             Match(n, s, known)
      PROVE  Supports'
  BY <1>7, MatchSupports DEF Match, Growing
<1>8. CASE Wait /\ UNCHANGED run
  BY <1>8, WaitSupports DEF Wait
<1>9. ASSUME NEW n \in InApp, NEW m \in InApp, Merge(n, m), UNCHANGED run PROVE Supports'
  BY <1>9, MergeSupports DEF Merge
<1>10. CASE Build
  BY <1>5, <1>6, <1>7, <1>10 DEF Build
<1>11. CASE Explore
  BY <1>1, <1>2, <1>3, <1>4, <1>11 DEF Explore
<1>12. CASE Done /\ UNCHANGED run
  BY <1>0, <1>12 DEF Done, buildVars
<1>13. ASSUME NEW outside, BeginChecks(outside) PROVE FALSE
  BY <1>13 DEF BeginChecks, Growing
<1>14. ASSUME NEW n, NEW group, Split(n, group) PROVE FALSE
  BY <1>14 DEF Split, Growing
<1>15. ASSUME NEW n, NEW o, NEW to, Move(n, o, to) PROVE FALSE
  BY <1>15 DEF Move, Growing
<1>16. ASSUME BeginMoves \/ EndChecks PROVE FALSE
  BY <1>16 DEF BeginMoves, EndChecks, Growing
<1>17. CASE Next /\ UNCHANGED run
  BY <1>8, <1>9, <1>11, <1>12, <1>13, <1>14, <1>15, <1>16, <1>17 DEF Next
<1> QED BY <1>0, <1>10, <1>17 DEF BuildNext

\* A setup that leads over screens that show the same is a chain.
LEMMA ChainedIsChain ==
  ASSUME NEW setup, NEW o, Chained(setup, o, alias, screens, log)
  PROVE  Chain(setup, o)
<1> DEFINE s == setup.sent
           m == Len(s)
           first == IF s = <<>> THEN setup.step ELSE Head(s)
<1>1. /\ ASeq(s)
      /\ o # NoObservation => Shows(alias, screens, o) = Shows(alias, screens, log[FirstOf(setup)].before)
      /\ s # <<>> => Shows(alias, screens, log[s[m]].after) = Shows(alias, screens, log[setup.step].before)
      /\ \A i \in 2..m :
           Shows(alias, screens, log[s[i - 1]].after) = Shows(alias, screens, log[s[i]].before)
  BY DEF Chained
<1>2. \A x, y : Shows(alias, screens, x) = Shows(alias, screens, y) => Alike(x, y)
  BY DEF Shows, Alike
<1>3. FirstOf(setup) = first
  <2>1. s # <<>> => Head(s) = s[1]
    BY <1>1 DEF ASeq
  <2> QED BY <2>1 DEF FirstOf
<1> QED BY <1>1, <1>2, <1>3 DEF Chain

LEMMA SetupsInvGives ==
  ASSUME SetupsInv
  PROVE  SetupsLeadToTheirAction
<1> SUFFICES ASSUME Growing, NEW p \in RecordedPreparations, Uncovered(p.setup, p.observation)
             PROVE  Chain(p.setup, p.observation)
  BY DEF SetupsLeadToTheirAction
<1>1. /\ Known(p.setup)
      /\ \E e \in DOMAIN edges : \E i \in DOMAIN edges[e].actions :
           p \in {[setup |-> edges[e].setups[i], observation |-> edges[e].anchors[i]]}
                   \cup ToSet(edges[e].alternatives[i])
  BY DEF RecordedPreparations
<1>2. PICK e \in DOMAIN edges : \E i \in DOMAIN edges[e].actions :
           p \in {[setup |-> edges[e].setups[i], observation |-> edges[e].anchors[i]]}
                   \cup ToSet(edges[e].alternatives[i])
  BY <1>1
<1>3. PICK i \in DOMAIN edges[e].actions :
           p \in {[setup |-> edges[e].setups[i], observation |-> edges[e].anchors[i]]}
                   \cup ToSet(edges[e].alternatives[i])
  BY <1>2
<1>4. Supported(edges[e], i, alias, screens, log, covered)
  BY DEF SetupsInv, Supports, RecordsSupported, AllSupported
<1>5. Leads(p.setup, p.observation, alias, screens, log, covered)
  <2>1. CASE p = [setup |-> edges[e].setups[i], observation |-> edges[e].anchors[i]]
    BY <1>1, <1>4, <2>1 DEF Supported
  <2>2. CASE \E j \in DOMAIN edges[e].alternatives[i] : p = edges[e].alternatives[i][j]
    BY <1>4, <2>2 DEF Supported
  <2> QED BY <1>3, <2>1, <2>2 DEF ToSet
<1>6. Open(p.setup, p.observation, log, covered)
  BY DEF Uncovered, Open
<1> QED BY <1>5, <1>6, ChainedIsChain DEF Leads

\* SetupsLeadToTheirAction: every preparation on an edge, sent from the observation it is
\* anchored at, leads over alike screens to the screen its action was taken on, after any waits,
\* replays, steps outside and merges and in a build as in exploration, unless system feedback
\* covered an input on the way.
THEOREM SetupsLead == BuildSpec => []SetupsLeadToTheirAction
<1>1. BuildInit => SetupsInv
  BY InitLoads, InitSupports DEF SetupsInv, BuildInit
<1>2. SetupsInv /\ [BuildNext]_buildVars => SetupsInv'
  BY NextLoads, NextSupports DEF SetupsInv
<1>3. SetupsInv => SetupsLeadToTheirAction
  BY SetupsInvGives
<1> QED BY <1>1, <1>2, <1>3, PTL DEF BuildSpec
=============================================================================
