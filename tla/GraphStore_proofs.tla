-------------------------- MODULE GraphStore_proofs --------------------------
(***************************************************************************)
(* Proofs about GraphStore for any number of screenshots and program       *)
(* starts, and for a process that is killed wherever it may be.            *)
(*                                                                         *)
(* The number of the next screenshot is above every record, so what it     *)
(* overwrites no line speaks of.  What a member needs is on disk, and its  *)
(* text vector in memory, once it is placed; the files of save_graph are   *)
(* replaced in the order that keeps this true of the saved graph.          *)
(***************************************************************************)
EXTENDS GraphStore, TLAPS, NaturalsInduction, WellFoundedInduction

USE StoreAssumption

-----------------------------------------------------------------------------
(* The inductive invariant.                                                *)

LineType == [id : Ids, shot : 1..MaxShots, from : Ids]

Types ==
  /\ pc \in {"down", "idle", "captured", "seen", "placed", "deciding", "appending",
             "saving", "texts", "graph"}
  /\ stopping \in BOOLEAN /\ saved \in BOOLEAN
  /\ current \in [id : Ids, kind : Kinds, from : Ids]
  /\ members \subseteq Ids \X Kinds /\ graphFile \subseteq Ids \X Kinds
  /\ texts \subseteq Ids /\ vectors \subseteq Ids
  /\ textFile \subseteq Ids /\ vectorFile \subseteq Ids
  /\ number \in Nat /\ shots \in 0..MaxShots /\ runs \in 0..MaxRuns
  /\ images \in [Ids -> 0..MaxShots] /\ records \in [Ids -> 0..MaxShots]
  /\ lines \in Seq(LineType)
  /\ tail \in {"none", "torn", "split"} /\ (pc = "appending" => tail \in {"torn", "split"})

\* The step log: what has a record is below the next number, and the screenshot being
\* placed has its record, and no line.
Placing == {"placed", "deciding", "appending"}
StepLogInv ==
  /\ \A id \in Ids : records[id] # 0 => id < number
  /\ pc \in Placing \cup {"captured", "seen"} =>
       /\ current.id < number /\ images[current.id] # 0
       /\ \A i \in DOMAIN lines : lines[i].id # current.id
  /\ pc \in Placing \cup {"seen"} => records[current.id] = images[current.id]

\* A member's evidence in the step log, in memory and in the saved graph.
Recorded(ids) == \A id \in ids : images[id] # 0 /\ records[id] # 0
MembersInv ==
  /\ Recorded(IdsOf(members)) /\ Recorded(IdsOf(graphFile))
  /\ ~saved => graphFile = {}

\* These described members have their line, which leads to another, and their text vector.
Explained(file, ids, all, vectored) ==
  \A id \in ids :
    /\ id \in vectored /\ \E i \in DOMAIN file : file[i].id = id
    /\ \A i \in DOMAIN file : file[i].id = id => file[i].from \in all

Now == OfKind(members, Described)
Saved == OfKind(graphFile, Described)
EvidenceInv ==
  /\ Explained(lines, Saved, Saved, textFile)
  /\ pc # "down" =>
       /\ Saved \subseteq Now
       /\ Explained(lines, IF pc \in Placing THEN Now \ {current.id} ELSE Now, Now, texts)
  /\ pc \in Placing /\ current.kind \in Described => current.from \in Now
  /\ pc \in {"deciding", "appending"} /\ current.kind \in Described => current.id \in texts
  /\ pc \in Placing /\ current.id \in Now => current.kind \in Described
  /\ pc = "texts" => Now \subseteq textFile

StoreInv ==
  /\ Types /\ StepLogInv /\ MembersInv
  /\ LinesSpeakOfTheirScreens /\ MembersHaveImageVectors

-----------------------------------------------------------------------------
(* Operators on members, and the next free number.                         *)

LEMMA PlacedIs ==
  ASSUME NEW kind, NEW K, members' = members \cup {<<current.id, kind>>}
  PROVE  /\ IdsOf(members') = IdsOf(members) \cup {current.id}
         /\ OfKind(members', K) = OfKind(members, K) \cup (IF kind \in K THEN {current.id} ELSE {})
<1> DEFINE m == <<current.id, kind>>
           T == members'
<1>1. m[1] = current.id /\ m[2] = kind /\ \A t : t \in T <=> t \in members \/ t = m
  OBVIOUS
<1> HIDE DEF m, T
<1>2. IdsOf(T) = IdsOf(members) \cup {current.id}
  BY <1>1 DEF IdsOf
<1>3. OfKind(T, K) = OfKind(members, K) \cup (IF kind \in K THEN {current.id} ELSE {})
  <2>1. {t \in T : t[2] \in K} = {t \in members : t[2] \in K} \cup (IF kind \in K THEN {m} ELSE {})
    BY <1>1
  <2> QED BY <1>1, <2>1 DEF OfKind
<1> QED BY <1>2, <1>3 DEF T

LEMMA MembersAreIds ==
  ASSUME NEW S \in SUBSET (Ids \X Kinds), NEW K
  PROVE  IdsOf(S) \subseteq Ids /\ OfKind(S, K) \subseteq IdsOf(S)
BY DEF IdsOf, OfKind

\* A set of numbers below a bound has a greatest one.
LEMMA GreatestExists ==
  ASSUME NEW T \in SUBSET Nat, T # {}, NEW b \in Nat, \A k \in T : k < b
  PROVE  \E n \in T : \A k \in T : k <= n
<1> DEFINE Above == {m \in Nat : \A k \in T : k < m}
<1>1. PICK m \in Above : \A n \in Above : ~(<<n, m>> \in OpToRel(<, Nat))
  BY WFMin, NatLessThanWellFounded
<1>2. m \in Nat /\ (\A k \in T : k < m) /\ \A n \in Above : ~(n < m)
  BY <1>1 DEF OpToRel
<1>3. m # 0
  <2>1. PICK k \in T : k < m
    BY <1>2
  <2> QED BY <2>1, <1>2
<1>4. m - 1 \in Nat /\ m - 1 \notin Above
  BY <1>2, <1>3
<1>5. PICK k \in T : ~(k < m - 1)
  BY <1>4
<1>6. \A j \in T : j <= k
  BY <1>2, <1>5
<1> QED BY <1>6

\* _first_free_number returns a number above every record.
LEMMA FirstFreeIs ==
  ASSUME records \in [Ids -> 0..MaxShots], NEW b \in Nat, \A id \in Ids : records[id] # 0 => id < b
  PROVE  FirstFree \in Nat /\ \A id \in Ids : records[id] # 0 => id < FirstFree
<1> DEFINE used == {id \in Ids : records[id] # 0}
           top == CHOOSE n \in used : \A k \in used : k <= n
<1>1. used \in SUBSET Nat /\ \A k \in used : k < b
  OBVIOUS
<1>2. FirstFree = IF used = {} THEN 0 ELSE 1 + top
  BY DEF FirstFree, NumberAfter
<1>3. ASSUME used # {}
      PROVE  top \in used /\ \A k \in used : k <= top
  <2> HIDE DEF used
  <2>1. \E n \in used : \A k \in used : k <= n
    BY <1>1, <1>3, GreatestExists
  <2> QED BY <2>1
<1>4. CASE used = {}
  BY <1>2, <1>4
<1>5. CASE used # {}
  <2>1. top \in Nat /\ \A k \in used : k <= top
    BY <1>1, <1>3, <1>5
  <2> HIDE DEF top
  <2>2. \A k \in used : k < 1 + top
    <3> HIDE DEF used
    <3> QED BY <1>1, <2>1
  <2> QED BY <1>2, <1>5, <2>1, <2>2
<1> QED BY <1>4, <1>5

LEMMA LineAdded ==
  ASSUME lines \in Seq(LineType), NEW l \in LineType, lines' = Append(lines, l)
  PROVE  /\ lines' \in Seq(LineType) /\ Len(lines) + 1 \notin DOMAIN lines
         /\ DOMAIN lines' = DOMAIN lines \cup {Len(lines) + 1}
         /\ lines'[Len(lines) + 1] = l /\ \A i \in DOMAIN lines : lines'[i] = lines[i]
<1>1. DOMAIN lines = 1..Len(lines) /\ Len(lines) \in Nat /\ Len(lines') = Len(lines) + 1
  OBVIOUS
<1>2. lines' \in Seq(LineType) /\ DOMAIN lines' = 1..(Len(lines) + 1)
  BY <1>1
<1> QED BY <1>1, <1>2

-----------------------------------------------------------------------------
(* Types and the step log.                                                 *)

USE DEF memory, stepLog, identifyFile, savedFiles

LEMMA TypesStep ==
  ASSUME StoreInv, Next
  PROVE  Types'
<1> USE DEF StoreInv, Types
<1>1. CASE Start
  <2>1. FirstFree \in Nat
    BY FirstFreeIs DEF StepLogInv
  <2>2. Embedded \subseteq Ids
    BY MembersAreIds DEF Embedded
  <2>3. /\ members' \subseteq Ids \X Kinds /\ texts' \subseteq Ids /\ vectors' \subseteq Ids
        /\ vectorFile' \subseteq Ids
    BY <1>1, <2>2 DEF Start
  <2>4. pc' = "idle" /\ UNCHANGED <<tail, lines, current, images, records, shots>>
    BY <1>1 DEF Start
  <2>5. runs' \in 0..MaxRuns /\ number' \in Nat
    BY <1>1, <2>1 DEF Start
  <2>6. stopping' \in BOOLEAN /\ UNCHANGED <<saved, textFile, graphFile>>
    BY <1>1 DEF Start
  <2> QED BY <2>3, <2>4, <2>5, <2>6
<1>2. CASE WriteImage
  <2>1. images' \in [Ids -> 0..MaxShots] /\ shots' \in 0..MaxShots /\ number' \in Nat
    BY <1>2 DEF WriteImage
  <2>2. current' \in [id : Ids, kind : Kinds, from : Ids]
    BY <1>2 DEF WriteImage, Nothing, Kinds
  <2> QED BY <1>2, <2>1, <2>2 DEF WriteImage
<1>3. CASE WriteRecord
  <2>1. records' \in [Ids -> 0..MaxShots]
    BY <1>3 DEF WriteRecord
  <2> QED BY <1>3, <2>1 DEF WriteRecord
<1>4. ASSUME NEW kind \in Kinds, NEW from \in Ids, Place(kind, from)
      PROVE  Types'
  <2>1. current' \in [id : Ids, kind : Kinds, from : Ids]
    BY <1>4 DEF Place
  <2>2. members' \subseteq Ids \X Kinds /\ vectors' \subseteq Ids
    BY <1>4 DEF Place
  <2>3. pc' \in {"placed", "deciding", "idle"}
    BY <1>4 DEF Place, Kinds, Described
  <2> QED BY <1>4, <2>1, <2>2, <2>3 DEF Place
<1>5. CASE AddTextVector
  BY <1>5 DEF AddTextVector
<1>6. CASE BeginAppend
  BY <1>6 DEF BeginAppend, TornTails
<1>7. CASE EndAppend
  <2>1. [id |-> current.id, shot |-> records[current.id], from |-> current.from] \in LineType
    <3>1. current.id \in Ids /\ current.from \in Ids
      OBVIOUS
    <3>2. records[current.id] = images[current.id] /\ images[current.id] # 0
      BY <1>7 DEF EndAppend, StepLogInv, Placing
    <3>3. records[current.id] \in 1..MaxShots
      BY <3>1, <3>2
    <3> QED BY <3>1, <3>3 DEF LineType
  <2>2. lines' \in Seq(LineType)
    BY <1>7, <2>1, LineAdded DEF EndAppend
  <2> QED BY <1>7, <2>2 DEF EndAppend
<1>8. CASE SaveTexts \/ SaveNodes \/ SaveVectors
  BY <1>8 DEF SaveTexts, SaveNodes, SaveVectors
<1>9. CASE Interrupt \/ Kill \/ NotPlaced
  BY <1>9 DEF Interrupt, Kill, NotPlaced
<1> QED BY <1>1, <1>2, <1>3, <1>4, <1>5, <1>6, <1>7, <1>8, <1>9 DEF Next

\* The record the line names is there, and below the next number.
LEMMA LinesAreNumbered ==
  ASSUME StoreInv, NEW i \in DOMAIN lines
  PROVE  lines[i].id \in Ids /\ lines[i].shot # 0 /\ lines[i].id < number
<1>1. lines[i] \in LineType
  BY DEF StoreInv, Types
<1>2. records[lines[i].id] = lines[i].shot
  BY DEF StoreInv, LinesSpeakOfTheirScreens
<1>3. lines[i].id \in Ids /\ lines[i].shot # 0
  BY <1>1 DEF LineType
<1> QED BY <1>2, <1>3 DEF StoreInv, StepLogInv

LEMMA StepLogStep ==
  ASSUME StoreInv, Next
  PROVE  StepLogInv' /\ LinesSpeakOfTheirScreens'
<1> USE DEF StoreInv, Types, Placing
<1>1. CASE Start
  <2>1. \A id \in Ids : records[id] # 0 => id < FirstFree
    BY FirstFreeIs DEF StepLogInv
  <2>2. pc' = "idle" /\ number' = FirstFree /\ UNCHANGED <<records, images, lines>>
    BY <1>1 DEF Start
  <2> QED BY <2>1, <2>2 DEF StepLogInv, LinesSpeakOfTheirScreens
<1>2. CASE WriteImage
  <2>1. /\ number \in Ids /\ number' = number + 1 /\ current' = [Nothing EXCEPT !.id = number]
        /\ images' = [images EXCEPT ![number] = shots + 1] /\ pc' = "captured"
        /\ UNCHANGED <<records, lines>>
    BY <1>2 DEF WriteImage
  <2>2. /\ current'.id = number /\ images'[number] = shots + 1 /\ shots + 1 # 0 /\ number < number'
        /\ \A id \in Ids : id # number => images'[id] = images[id]
    BY <2>1 DEF Nothing
  <2>3. \A i \in DOMAIN lines : lines[i].id \in Ids /\ lines[i].id # number
    BY LinesAreNumbered
  <2>4. StepLogInv'
    <3>1. \A id \in Ids : records'[id] # 0 => id < number'
      BY <2>1 DEF StepLogInv
    <3>2. /\ current'.id < number' /\ images'[current'.id] # 0
          /\ \A i \in DOMAIN lines' : lines'[i].id # current'.id
      BY <2>1, <2>2, <2>3
    <3> QED BY <2>1, <3>1, <3>2 DEF StepLogInv
  <2>5. LinesSpeakOfTheirScreens'
    BY <2>1, <2>2, <2>3 DEF LinesSpeakOfTheirScreens
  <2> QED BY <2>4, <2>5
<1>3. CASE WriteRecord
  <2>1. /\ pc = "captured" /\ pc' = "seen" /\ current.id \in Ids
        /\ records' = [records EXCEPT ![current.id] = images[current.id]]
        /\ UNCHANGED <<current, images, number, lines>>
    BY <1>3 DEF WriteRecord
  <2>2. /\ records'[current.id] = images[current.id]
        /\ \A id \in Ids : id # current.id => records'[id] = records[id]
    BY <2>1
  <2>3. \A i \in DOMAIN lines : lines[i].id \in Ids /\ lines[i].id # current.id
    BY <2>1, LinesAreNumbered DEF StepLogInv
  <2>4. StepLogInv'
    BY <2>1, <2>2, <2>3 DEF StepLogInv
  <2>5. LinesSpeakOfTheirScreens'
    BY <2>1, <2>2, <2>3 DEF LinesSpeakOfTheirScreens
  <2> QED BY <2>4, <2>5
<1>4. ASSUME NEW kind \in Kinds, NEW from \in Ids, Place(kind, from)
      PROVE  StepLogInv' /\ LinesSpeakOfTheirScreens'
  <2>1. /\ pc = "seen" /\ current'.id = current.id /\ pc' \in {"placed", "deciding", "idle"}
        /\ UNCHANGED <<records, images, number, lines>>
    BY <1>4 DEF Place, Kinds, Described
  <2> QED BY <2>1 DEF StepLogInv, LinesSpeakOfTheirScreens
<1>5. CASE AddTextVector \/ BeginAppend
  <2>1. /\ pc \in {"placed", "deciding"} /\ pc' \in {"deciding", "appending"}
        /\ UNCHANGED <<records, images, number, lines, current>>
    BY <1>5 DEF AddTextVector, BeginAppend
  <2> QED BY <2>1 DEF StepLogInv, LinesSpeakOfTheirScreens
<1>6. CASE EndAppend
  <2> DEFINE l == [id |-> current.id, shot |-> records[current.id], from |-> current.from]
             n == Len(lines) + 1
  <2>1. /\ pc = "appending" /\ pc' = "idle" /\ lines' = Append(lines, l)
        /\ UNCHANGED <<records, images, number, current>>
    BY <1>6 DEF EndAppend
  <2>2. /\ l.id = current.id /\ l.shot = records[current.id] /\ images[current.id] = records[current.id]
        /\ current.id \in Ids /\ current.from \in Ids /\ images[current.id] # 0
        /\ \A i \in DOMAIN lines : lines[i].id # current.id
    BY <2>1 DEF StepLogInv
  <2>3. records[current.id] \in 1..MaxShots
    BY <2>2
  <2>4. l \in LineType
    BY <2>2, <2>3 DEF LineType
  <2> HIDE DEF l
  <2>5. /\ DOMAIN lines' = DOMAIN lines \cup {n} /\ lines'[n] = l
        /\ \A i \in DOMAIN lines : lines'[i] = lines[i]
    BY <2>1, <2>4, LineAdded
  <2> HIDE DEF n
  <2>6. LinesSpeakOfTheirScreens'
    BY <2>1, <2>2, <2>5 DEF LinesSpeakOfTheirScreens
  <2>7. StepLogInv'
    BY <2>1 DEF StepLogInv
  <2> QED BY <2>6, <2>7
<1>7. CASE SaveTexts \/ SaveNodes \/ SaveVectors \/ Interrupt \/ Kill \/ NotPlaced
  <2>1. /\ pc' \in {"texts", "graph", "down", "idle", "saving"}
        /\ UNCHANGED <<records, images, number, lines, current>>
    BY <1>7 DEF SaveTexts, SaveNodes, SaveVectors, Interrupt, Kill, NotPlaced
  <2> QED BY <2>1 DEF StepLogInv, LinesSpeakOfTheirScreens
<1> QED BY <1>1, <1>2, <1>3, <1>4, <1>5, <1>6, <1>7 DEF Next

-----------------------------------------------------------------------------
(* The members.                                                            *)

LEMMA MembersStep ==
  ASSUME StoreInv, Next
  PROVE  MembersInv' /\ MembersHaveImageVectors'
<1> USE DEF StoreInv, Types
<1>1. CASE Start
  <2>1. /\ members' = graphFile /\ pc' = "idle" /\ vectors' = IF saved THEN Embedded ELSE {}
        /\ UNCHANGED <<images, records, graphFile, saved>>
    BY <1>1 DEF Start
  <2>2. MembersInv'
    BY <2>1 DEF MembersInv, Recorded
  <2>3. OfKind(graphFile, InApp) \subseteq vectors'
    BY <2>1, MembersAreIds DEF Embedded, MembersInv, OfKind
  <2> QED BY <2>1, <2>2, <2>3 DEF MembersHaveImageVectors
<1>2. CASE WriteImage \/ WriteRecord
  <2>1. /\ UNCHANGED <<members, vectors, graphFile, saved>> /\ pc # "down"
        /\ \A id \in Ids : images[id] # 0 => images'[id] # 0
        /\ \A id \in Ids : records[id] # 0 => records'[id] # 0
    BY <1>2 DEF WriteImage, WriteRecord, StepLogInv
  <2>2. MembersInv'
    BY <2>1, MembersAreIds DEF MembersInv, Recorded
  <2> QED BY <2>1, <2>2 DEF MembersHaveImageVectors
<1>3. ASSUME NEW kind \in Kinds, NEW from \in Ids, Place(kind, from)
      PROVE  MembersInv' /\ MembersHaveImageVectors'
  <2>1. /\ pc = "seen" /\ members' = members \cup {<<current.id, kind>>}
        /\ vectors' = IF kind = "app" THEN vectors ELSE vectors \cup {current.id}
        /\ UNCHANGED <<images, records, graphFile, saved>>
    BY <1>3 DEF Place
  <2>2. /\ IdsOf(members') = IdsOf(members) \cup {current.id}
        /\ OfKind(members', InApp) =
             OfKind(members, InApp) \cup (IF kind \in InApp THEN {current.id} ELSE {})
    BY <2>1, PlacedIs
  <2>3. images[current.id] # 0 /\ records[current.id] # 0
    BY <2>1 DEF StepLogInv
  <2>4. MembersInv'
    BY <2>1, <2>2, <2>3 DEF MembersInv, Recorded
  <2>5. OfKind(members, InApp) \subseteq vectors /\ "app" \notin InApp
    BY <2>1 DEF MembersHaveImageVectors, InApp
  <2> QED BY <2>1, <2>2, <2>4, <2>5 DEF MembersHaveImageVectors
<1>4. CASE SaveNodes
  <2>1. /\ graphFile' = members /\ saved' = TRUE /\ pc = "texts"
        /\ UNCHANGED <<members, vectors, images, records>>
    BY <1>4 DEF SaveNodes
  <2> QED BY <2>1 DEF MembersInv, Recorded, MembersHaveImageVectors
<1>5. CASE \/ AddTextVector \/ BeginAppend \/ EndAppend \/ SaveTexts \/ SaveVectors
           \/ Interrupt \/ Kill \/ NotPlaced
  <2>1. UNCHANGED <<members, vectors, images, records, graphFile, saved>> /\ pc # "down"
    BY <1>5 DEF AddTextVector, BeginAppend, EndAppend, SaveTexts, SaveVectors, Interrupt, Kill,
                NotPlaced, Interruptible
  <2> QED BY <2>1 DEF MembersInv, Recorded, MembersHaveImageVectors
<1> QED BY <1>1, <1>2, <1>3, <1>4, <1>5 DEF Next

-----------------------------------------------------------------------------
(* The evidence of the described members.                                  *)

\* More members, more lines of other screenshots, more vectors: what was explained still is.
LEMMA ExplainedGrows ==
  ASSUME NEW file, NEW ids, NEW all, NEW vectored, NEW more, NEW others,
         Explained(file, ids, all, vectored), all \subseteq more, vectored \subseteq others
  PROVE  Explained(file, ids, more, others)
BY DEF Explained

LEMMA ExplainedSubset ==
  ASSUME NEW file, NEW ids, NEW all, NEW vectored, NEW few, NEW others,
         Explained(file, ids, all, vectored), few \subseteq ids, few \subseteq others
  PROVE  Explained(file, few, all, others)
BY DEF Explained

LEMMA ExplainedAppend ==
  ASSUME lines \in Seq(LineType), NEW l \in LineType, lines' = Append(lines, l),
         NEW ids, NEW all, NEW vectored, Explained(lines, ids, all, vectored),
         \A i \in DOMAIN lines : lines[i].id # l.id, l.from \in all, l.id \in vectored
  PROVE  Explained(lines', ids \cup {l.id}, all, vectored)
<1>1. /\ DOMAIN lines' = DOMAIN lines \cup {Len(lines) + 1}
      /\ lines'[Len(lines) + 1] = l /\ \A i \in DOMAIN lines : lines'[i] = lines[i]
  BY LineAdded
<1> QED BY <1>1 DEF Explained

LEMMA ExplainedElse ==
  ASSUME lines \in Seq(LineType), NEW l \in LineType, lines' = Append(lines, l),
         NEW ids, NEW all, NEW vectored, Explained(lines, ids, all, vectored),
         \A i \in DOMAIN lines : lines[i].id # l.id
  PROVE  Explained(lines', ids, all, vectored)
<1>1. /\ DOMAIN lines' = DOMAIN lines \cup {Len(lines) + 1}
      /\ lines'[Len(lines) + 1] = l /\ \A i \in DOMAIN lines : lines'[i] = lines[i]
  BY LineAdded
<1>2. l.id \notin ids
  BY DEF Explained
<1> QED BY <1>1, <1>2 DEF Explained

\* What save_graph writes needs no exception to have left identify_state half-way.
LEMMA EvidenceStep ==
  ASSUME StoreInv, EvidenceInv, Next, ~InterruptsInIdentify
  PROVE  EvidenceInv'
<1> USE DEF Placing
<1>1. CASE Start
  <2>1. /\ pc' = "idle" /\ Now' = Saved /\ Saved' = Saved /\ texts' = IF saved THEN textFile ELSE {}
        /\ UNCHANGED <<lines, textFile>>
    BY <1>1 DEF Start, Now, Saved
  <2>2. ~saved => Saved = {}
    BY DEF StoreInv, MembersInv, Saved, OfKind
  <2>3. Explained(lines, Saved, Saved, texts')
    BY <2>1, <2>2 DEF EvidenceInv, Explained
  <2> QED BY <2>1, <2>3 DEF EvidenceInv
<1>2. CASE WriteImage \/ WriteRecord \/ NotPlaced
  <2>1. /\ Now' = Now /\ Saved' = Saved /\ pc \notin Placing \cup {"down"} /\ pc' \in {"captured", "seen", "idle"}
        /\ UNCHANGED <<lines, texts, textFile>>
    BY <1>2 DEF WriteImage, WriteRecord, NotPlaced, Now, Saved
  <2> QED BY <2>1 DEF EvidenceInv
<1>3. ASSUME NEW kind \in Kinds, NEW from \in Ids, Place(kind, from)
      PROVE  EvidenceInv'
  <2>1. /\ pc = "seen" /\ Saved' = Saved /\ current'.id = current.id /\ current'.kind = kind
        /\ current'.from = from /\ members' = members \cup {<<current.id, kind>>}
        /\ kind = "exact" => from \in Now
        /\ kind # "exact" => from = current.id
        /\ kind \in Described => pc' = "placed"
        /\ pc' \in {"placed", "deciding", "idle"} /\ (pc' = "deciding" => kind \notin Described)
        /\ UNCHANGED <<lines, texts, textFile>>
    BY <1>3 DEF Place, Now, Saved, StoreInv, Types, Kinds, Described
  <2>2. Now' = Now \cup (IF kind \in Described THEN {current.id} ELSE {})
    BY <2>1, PlacedIs DEF Now
  <2>3. Explained(lines, Now, Now, texts) /\ Saved \subseteq Now
    BY <2>1 DEF EvidenceInv
  <2>4. current.id \notin Now
    BY <2>1, <2>3 DEF Explained, StoreInv, StepLogInv
  <2>5. Explained(lines, Now, Now', texts) /\ Now' \ {current.id} = Now
    BY <2>2, <2>3, <2>4, ExplainedGrows
  <2>6. kind \in Described => from \in Now'
    BY <2>1, <2>2
  <2>7. pc' \notin Placing => Now' = Now
    BY <2>1, <2>2
  <2>8. Explained(lines', IF pc' \in Placing THEN Now' \ {current'.id} ELSE Now', Now', texts')
    BY <2>1, <2>5, <2>7
  <2>9. /\ pc' \in Placing /\ current'.id \in Now' => kind \in Described
        /\ Explained(lines', Saved', Saved', textFile') /\ Saved' \subseteq Now'
    BY <2>1, <2>2, <2>3, <2>4 DEF EvidenceInv
  <2> QED BY <2>1, <2>6, <2>8, <2>9 DEF EvidenceInv
<1>4. CASE AddTextVector
  <2>1. /\ pc = "placed" /\ pc' = "deciding" /\ Now' = Now /\ Saved' = Saved
        /\ texts' = texts \cup {current.id} /\ UNCHANGED <<lines, textFile, current>>
    BY <1>4 DEF AddTextVector, Now, Saved
  <2>2. Explained(lines, Now \ {current.id}, Now, texts')
    BY <2>1, ExplainedGrows DEF EvidenceInv
  <2> QED BY <2>1, <2>2 DEF EvidenceInv
<1>5. CASE BeginAppend
  <2>1. /\ pc = "deciding" /\ pc' = "appending" /\ Now' = Now /\ Saved' = Saved
        /\ UNCHANGED <<lines, texts, textFile, current>>
    BY <1>5 DEF BeginAppend, Now, Saved
  <2> QED BY <2>1 DEF EvidenceInv
<1>6. CASE EndAppend
  <2> DEFINE l == [id |-> current.id, shot |-> records[current.id], from |-> current.from]
  <2>1. /\ pc = "appending" /\ pc' = "idle" /\ Now' = Now /\ Saved' = Saved /\ tail # "joined"
        /\ lines' = Append(lines, l) /\ UNCHANGED <<texts, textFile, current>>
        /\ lines \in Seq(LineType)
    BY <1>6 DEF EndAppend, Now, Saved, StoreInv, Types
  <2>2. current.id \in Ids /\ current.from \in Ids /\ records[current.id] \in 1..MaxShots
    <3>1. current.id \in Ids /\ current.from \in Ids /\ records[current.id] \in 0..MaxShots
      BY DEF StoreInv, Types
    <3>2. records[current.id] # 0
      BY <2>1 DEF StoreInv, StepLogInv
    <3> QED BY <3>1, <3>2
  <2>3. l \in LineType /\ l.id = current.id /\ l.from = current.from
    BY <2>2 DEF LineType
  <2> HIDE DEF l
  <2>4. \A i \in DOMAIN lines : lines[i].id # l.id
    BY <2>1, <2>3 DEF StoreInv, StepLogInv
  <2>5. /\ Explained(lines, Saved, Saved, textFile) /\ Saved \subseteq Now
        /\ Explained(lines, Now \ {current.id}, Now, texts)
    BY <2>1 DEF EvidenceInv
  <2>6. Explained(lines', Saved, Saved, textFile)
    BY <2>1, <2>3, <2>4, <2>5, ExplainedElse
  <2>7. Explained(lines', Now, Now, texts)
    <3>1. CASE current.id \in Now
      <4>1. l.from \in Now /\ l.id \in texts /\ (Now \ {current.id}) \cup {l.id} = Now
        BY <2>1, <2>3, <3>1 DEF EvidenceInv
      <4> HIDE DEF Now
      <4> QED BY <2>1, <2>3, <2>4, <2>5, <4>1, ExplainedAppend
    <3>2. CASE current.id \notin Now
      <4>1. Now \ {current.id} = Now
        BY <3>2
      <4> QED BY <2>1, <2>3, <2>4, <2>5, <4>1, ExplainedElse
    <3> QED BY <3>1, <3>2
  <2> QED BY <2>1, <2>5, <2>6, <2>7 DEF EvidenceInv
<1>7. CASE SaveTexts
  <2>1. /\ pc \in {"idle", "saving"} /\ pc' = "texts" /\ Now' = Now /\ Saved' = Saved
        /\ textFile' = IF texts = {} THEN textFile ELSE texts
        /\ UNCHANGED <<lines, texts, current>>
    BY <1>7 DEF SaveTexts, Now, Saved
  <2>2. Explained(lines, Now, Now, texts) /\ Saved \subseteq Now
    BY <2>1 DEF EvidenceInv
  <2>3. Now \subseteq texts
    BY <2>2 DEF Explained
  <2>4. Now \subseteq textFile'
    BY <2>1, <2>3
  <2>5. Explained(lines, Saved, Saved, textFile')
    BY <2>2, <2>4, ExplainedSubset DEF EvidenceInv
  <2> QED BY <2>1, <2>2, <2>4, <2>5 DEF EvidenceInv
<1>8. CASE SaveNodes
  <2>1. /\ pc = "texts" /\ pc' = "graph" /\ Now' = Now /\ Saved' = Now
        /\ UNCHANGED <<lines, texts, textFile, current>>
    BY <1>8 DEF SaveNodes, Now, Saved
  <2>2. Explained(lines, Now, Now, texts) /\ Now \subseteq textFile
    BY <2>1 DEF EvidenceInv
  <2>3. Explained(lines, Now, Now, textFile)
    BY <2>2, ExplainedSubset
  <2> QED BY <2>1, <2>2, <2>3 DEF EvidenceInv
<1>9. CASE SaveVectors \/ Interrupt \/ Kill
  <2>1. /\ Now' = Now /\ Saved' = Saved /\ pc' \in {"down", "idle", "saving"}
        /\ pc' # "down" => pc \notin Placing \cup {"down"}
        /\ UNCHANGED <<lines, texts, textFile, current>>
    BY <1>9 DEF SaveVectors, Interrupt, Interruptible, Kill, Now, Saved
  <2> QED BY <2>1 DEF EvidenceInv
<1> QED BY <1>1, <1>2, <1>3, <1>4, <1>5, <1>6, <1>7, <1>8, <1>9 DEF Next

-----------------------------------------------------------------------------
(* The invariant, and what follows from it.                                *)

LEMMA InitIsInv == Init => StoreInv /\ EvidenceInv
<1> SUFFICES ASSUME Init PROVE StoreInv /\ EvidenceInv
  OBVIOUS
<1> USE DEF Init
<1>1. Types
  <2>1. current \in [id : Ids, kind : Kinds, from : Ids]
    BY DEF Nothing, Kinds
  <2>2. lines \in Seq(LineType) /\ 0 \in 0..MaxShots
    OBVIOUS
  <2>3. tail \in {"none", "torn", "split"} /\ (pc = "appending" => tail \in {"torn", "split"})
    OBVIOUS
  <2>4. /\ images \in [Ids -> 0..MaxShots] /\ records \in [Ids -> 0..MaxShots]
        /\ shots \in 0..MaxShots /\ runs \in 0..MaxRuns
    OBVIOUS
  <2> QED BY <2>1, <2>2, <2>3, <2>4 DEF Types
<1>2. StepLogInv /\ LinesSpeakOfTheirScreens
  BY DEF StepLogInv, Placing, LinesSpeakOfTheirScreens
<1>3. MembersInv /\ MembersHaveImageVectors
  BY DEF MembersInv, Recorded, IdsOf, MembersHaveImageVectors
<1>4. EvidenceInv
  BY DEF EvidenceInv, Explained, Saved, Now, OfKind, Placing
<1> QED BY <1>1, <1>2, <1>3, <1>4 DEF StoreInv

LEMMA NothingChanges ==
  ASSUME UNCHANGED vars
  PROVE  (StoreInv => StoreInv') /\ (EvidenceInv => EvidenceInv')
BY DEF vars, StoreInv, Types, StepLogInv, LinesSpeakOfTheirScreens, MembersInv, Recorded,
       MembersHaveImageVectors, EvidenceInv, Saved, Now

THEOREM StoreKeepsInv == Spec => []StoreInv
<1>1. Init => StoreInv
  BY InitIsInv
<1>2. StoreInv /\ [Next]_vars => StoreInv'
  BY TypesStep, StepLogStep, MembersStep, NothingChanges DEF StoreInv
<1> QED BY <1>1, <1>2, PTL DEF Spec

THEOREM EvidenceIsKept ==
  ASSUME ~InterruptsInIdentify
  PROVE  Spec => []EvidenceInv
<1>1. Init => EvidenceInv
  BY InitIsInv
<1>2. StoreInv /\ EvidenceInv /\ [Next]_vars => EvidenceInv'
  BY EvidenceStep, NothingChanges
<1> QED BY <1>1, <1>2, StoreKeepsInv, PTL DEF Spec

(* Types of the process's state and of the files.                          *)
THEOREM StoreTypes == Spec => []TypeOK
<1>1. StoreInv => TypeOK
  BY DEF StoreInv, Types, TypeOK, LineType
<1> QED BY <1>1, StoreKeepsInv, PTL

(* However often the program is killed and started again, a line of the    *)
(* identify file speaks of the screenshot the step log shows under its id: *)
(* _first_free_number never hands out a number that a line has.            *)
THEOREM LinesStayTrue == Spec => []LinesSpeakOfTheirScreens
<1>1. StoreInv => LinesSpeakOfTheirScreens
  BY DEF StoreInv
<1> QED BY <1>1, StoreKeepsInv, PTL

(* closest_member finds a vector of every in-app member in a running       *)
(* process, whatever a crash left of image_emb.json.                       *)
THEOREM VectorsAreThere == Spec => []MembersHaveImageVectors
<1>1. StoreInv => MembersHaveImageVectors
  BY DEF StoreInv
<1> QED BY <1>1, StoreKeepsInv, PTL

(* A graph that was saved loads, wherever the process dies, unless an      *)
(* exception ended identify_state between its member and its line, or the  *)
(* crash tore the line it was writing inside a character.                  *)
THEOREM SavedGraphsLoad ==
  ASSUME ~InterruptsInIdentify
  PROVE  Spec => []SavedGraphLoads
<1>1. StoreInv /\ EvidenceInv => SavedGraphLoads
  <2> SUFFICES ASSUME StoreInv, EvidenceInv, tail # "split" PROVE Loadable
    BY DEF SavedGraphLoads
  <2>1. \A id \in IdsOf(graphFile) : images[id] # 0 /\ records[id] # 0
    BY DEF StoreInv, MembersInv, Recorded
  <2>2. ASSUME NEW i \in DOMAIN lines
        PROVE  lines[i] # Corrupt
    <3>1. lines[i].id \in Ids /\ Corrupt.id \notin Nat
      BY LinesAreNumbered DEF Corrupt
    <3> QED BY <3>1
  <2>3. Explained(lines, Saved, Saved, textFile)
    BY DEF EvidenceInv
  <2>4. ASSUME NEW id \in Saved
        PROVE  Describes(id)
    <3>1. Saved \in SUBSET Ids
      BY MembersAreIds DEF Saved, StoreInv, Types
    <3>2. ASSUME NEW k \in Saved
          PROVE  Lined(k) /\ LineOf(k).from \in Saved
      <4>1. \E i \in DOMAIN lines : lines[i].id = k
        BY <2>3 DEF Explained
      <4>2. PICK i \in DOMAIN lines : lines[i].id = k /\ LineOf(k) = lines[i]
        BY <4>1 DEF LineOf
      <4> QED BY <2>3, <4>1, <4>2 DEF Explained, Lined
    <3> QED BY <3>1, <3>2 DEF Describes
  <2>5. Saved \subseteq textFile
    BY <2>3 DEF Explained
  <2> QED BY <2>1, <2>2, <2>4, <2>5 DEF Loadable, Saved
<1> QED BY <1>1, StoreKeepsInv, EvidenceIsKept, PTL
=============================================================================
