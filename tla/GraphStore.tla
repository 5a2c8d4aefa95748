----------------------------- MODULE GraphStore -----------------------------
(***************************************************************************)
(* The files of one graph and the order they are written in: the step log  *)
(* (an image, then a record, per screenshot), the identify file (a line    *)
(* per screenshot placed in the graph), and the three files save_graph     *)
(* replaces, text vectors, graph and image vectors.  Each is replaced      *)
(* atomically (_write_atomically) except the identify file, which grows by *)
(* append_json_line.  The process may be killed between any two writes and *)
(* inside an append, where the line may be torn between two characters or  *)
(* inside one; load_graph refuses a graph whose members lack what it needs *)
(* or whose identify file is no UTF-8, and nothing repairs such a graph.   *)
(***************************************************************************)
EXTENDS Integers, Sequences

CONSTANTS
  Ids,                   \* step ids, by number
  MaxShots,              \* bound: screenshots taken
  MaxRuns,               \* bound: how often the program is started
  InterruptsInIdentify,  \* whether Ctrl-C or a failed write may end identify_state
                         \* after it added the member and before it appended its line
  TearsCharacters        \* whether an append may stop inside a character of several
                         \* bytes, which append_json_line writes as it is

ASSUME StoreAssumption ==
  /\ Ids \subseteq Nat /\ 0 \in Ids
  /\ MaxShots \in Nat \ {0} /\ MaxRuns \in Nat \ {0}
  /\ InterruptsInIdentify \in BOOLEAN /\ TearsCharacters \in BOOLEAN

VARIABLES
  pc,          \* what the process is doing, "down" when there is none
  stopping,    \* the exception handler of explore is saving the graph
  current,     \* the screenshot being placed: its id, kind and the member it copies
  members,     \* the graph in memory: its members and how each was placed
  texts,       \* _text_vectors
  vectors,     \* _image_vectors
  number,      \* StepRecorder._next_number
  images,      \* the step log's images, by id: the screenshot each shows, 0 for none
  records,     \* the step log's records, likewise
  lines,       \* the complete lines of the identify file
  tail,        \* what follows them: nothing, or a line torn between two characters
               \* ("torn") or inside one ("split")
  textFile,    \* the members with a vector in the text-vector file
  graphFile,   \* the members of the saved graph
  saved,       \* whether a graph was saved
  vectorFile,  \* the members with a vector in image_emb.json
  shots,       \* screenshots taken
  runs         \* program starts

memory == <<members, texts, vectors>>
stepLog == <<images, records, number, shots>>
identifyFile == <<lines, tail>>
savedFiles == <<textFile, graphFile, saved, vectorFile>>
vars == <<pc, stopping, current, memory, stepLog, identifyFile, savedFiles, runs>>

\* How a screenshot is placed: by the describe call, as an exact copy, as a black
\* screen, as an outside web page, as a screen of another app.
Kinds == {"described", "exact", "black", "web", "app"}
InApp == {"described", "exact", "black"}
Described == {"described", "exact"}

Nothing == [id |-> 0, kind |-> "app", from |-> 0]
Corrupt == [id |-> -1, shot |-> 0, from |-> -1]
IdsOf(S) == {m[1] : m \in S}
OfKind(S, K) == {m[1] : m \in {m \in S : m[2] \in K}}

-----------------------------------------------------------------------------
(* What load_graph requires of the files.                                  *)

Lined(id) == \E i \in DOMAIN lines : lines[i].id = id
LineOf(id) == lines[CHOOSE i \in DOMAIN lines : lines[i].id = id]

\* _line_description: a copy's description is that of the member it copied.
Describes(id) ==
  \E chain \in SUBSET Ids :
    id \in chain /\ \A k \in chain : Lined(k) /\ LineOf(k).from \in chain

\* read_json_lines decodes the whole file before it leaves a torn last line out.
Loadable ==
  /\ tail # "split"
  /\ \A id \in IdsOf(graphFile) : images[id] # 0 /\ records[id] # 0
  /\ \A i \in DOMAIN lines : lines[i] # Corrupt
  /\ \A id \in OfKind(graphFile, Described) : Describes(id)
  /\ OfKind(graphFile, Described) \subseteq textFile

-----------------------------------------------------------------------------
Init ==
  /\ pc = "down" /\ stopping = FALSE /\ current = Nothing
  /\ members = {} /\ texts = {} /\ vectors = {} /\ number = 0
  /\ images = [id \in Ids |-> 0] /\ records = [id \in Ids |-> 0]
  /\ lines = <<>> /\ tail = "none"
  /\ textFile = {} /\ graphFile = {} /\ saved = FALSE /\ vectorFile = {}
  /\ shots = 0 /\ runs = 0

NumberAfter(used) == IF used = {} THEN 0 ELSE 1 + (CHOOSE n \in used : \A k \in used : k <= n)

\* Fault: the numbers continue after the saved graph's members.
FirstFreeOfGraph == NumberAfter(IdsOf(graphFile))

\* _first_free_number: after the highest number a record has.
FirstFree == NumberAfter({id \in Ids : records[id] # 0})

\* Fault: the members' missing image vectors are not computed again.
EmbeddedAsSaved == vectorFile

\* embed_missing_members: every in-app member gets a vector again.
Embedded == vectorFile \cup OfKind(graphFile, InApp)

\* Kobe.__init__: load the graph when there is one, and embed what lacks a vector.
Start ==
  /\ pc = "down" /\ runs < MaxRuns /\ (saved => Loadable)
  /\ pc' = "idle" /\ stopping' = FALSE /\ runs' = runs + 1
  /\ members' = graphFile /\ texts' = (IF saved THEN textFile ELSE {})
  /\ vectors' = (IF saved THEN Embedded ELSE {}) /\ number' = FirstFree
  /\ vectorFile' = IF saved /\ Embedded # vectorFile THEN Embedded ELSE vectorFile
  /\ UNCHANGED <<current, images, records, shots, identifyFile, textFile, graphFile, saved>>

-----------------------------------------------------------------------------
(* StepRecorder.get_state: the image, then the record.                     *)

WriteImage ==
  /\ pc = "idle" /\ ~stopping /\ shots < MaxShots /\ number \in Ids
  /\ shots' = shots + 1 /\ images' = [images EXCEPT ![number] = shots + 1]
  /\ current' = [Nothing EXCEPT !.id = number] /\ number' = number + 1
  /\ pc' = "captured"
  /\ UNCHANGED <<stopping, memory, records, identifyFile, savedFiles, runs>>

WriteRecord ==
  /\ pc = "captured"
  /\ records' = [records EXCEPT ![current.id] = images[current.id]] /\ pc' = "seen"
  /\ UNCHANGED <<stopping, current, memory, images, number, shots, identifyFile, savedFiles, runs>>

\* The screenshot was only looked at, as before a replayed action.
NotPlaced ==
  /\ pc = "seen" /\ pc' = "idle"
  /\ UNCHANGED <<stopping, current, memory, stepLog, identifyFile, savedFiles, runs>>

-----------------------------------------------------------------------------
(* identify_state: the member, its text vector, its line.                  *)

Place(kind, from) ==
  /\ pc = "seen"
  /\ kind = "exact" => from \in OfKind(members, Described)
  /\ kind # "exact" => from = current.id
  /\ current' = [current EXCEPT !.kind = kind, !.from = from]
  /\ members' = members \cup {<<current.id, kind>>}
  /\ vectors' = IF kind = "app" THEN vectors ELSE vectors \cup {current.id}
  /\ pc' = CASE kind \in Described -> "placed"
             [] kind \in {"black", "web"} -> "deciding"
             [] kind = "app" -> "idle"
  /\ UNCHANGED <<stopping, texts, stepLog, identifyFile, savedFiles, runs>>

AddTextVector ==
  /\ pc = "placed"
  /\ texts' = texts \cup {current.id} /\ pc' = "deciding"
  /\ UNCHANGED <<stopping, current, members, vectors, stepLog, identifyFile, savedFiles, runs>>

\* What is on disk of a line that is being written.
TornTails == {"torn"} \cup (IF TearsCharacters THEN {"split"} ELSE {})

\* Fault: the line is written after a torn one without cutting it off.
BeginAppendUncut ==
  /\ pc = "deciding"
  /\ tail' \in (IF tail = "none" THEN TornTails ELSE {"joined"}) /\ pc' = "appending"
  /\ UNCHANGED <<stopping, current, memory, stepLog, lines, savedFiles, runs>>

\* append_json_line cuts a torn last line off, then writes its own.
BeginAppend ==
  /\ pc = "deciding"
  /\ tail' \in TornTails /\ pc' = "appending"
  /\ UNCHANGED <<stopping, current, memory, stepLog, lines, savedFiles, runs>>

EndAppend ==
  /\ pc = "appending"
  /\ lines' = Append(lines, IF tail = "joined" THEN Corrupt
                            ELSE [id |-> current.id, shot |-> records[current.id],
                                  from |-> current.from])
  /\ tail' = "none" /\ pc' = "idle"
  /\ UNCHANGED <<stopping, current, memory, stepLog, savedFiles, runs>>

-----------------------------------------------------------------------------
(* save_graph: the text vectors, the graph, the image vectors.             *)

\* Fault: the text vectors are written only when the file is missing.
SaveTextsOnce ==
  /\ pc \in {"idle", "saving"}
  /\ textFile' = (IF textFile = {} THEN texts ELSE textFile) /\ pc' = "texts"
  /\ UNCHANGED <<stopping, current, memory, stepLog, identifyFile, graphFile, saved, vectorFile,
                 runs>>

SaveTexts ==
  /\ pc \in {"idle", "saving"}
  /\ textFile' = (IF texts = {} THEN textFile ELSE texts) /\ pc' = "texts"
  /\ UNCHANGED <<stopping, current, memory, stepLog, identifyFile, graphFile, saved, vectorFile,
                 runs>>

SaveNodes ==
  /\ pc = "texts"
  /\ graphFile' = members /\ saved' = TRUE /\ pc' = "graph"
  /\ UNCHANGED <<stopping, current, memory, stepLog, identifyFile, textFile, vectorFile, runs>>

SaveVectors ==
  /\ pc = "graph"
  /\ vectorFile' = (IF vectors = {} THEN vectorFile ELSE vectors)
  /\ pc' = IF stopping THEN "down" ELSE "idle"
  /\ UNCHANGED <<stopping, current, memory, stepLog, identifyFile, textFile, graphFile, saved, runs>>

-----------------------------------------------------------------------------
\* The steps at which an exception reaches the handlers of explore, which save.
Interruptible == {"idle", "captured", "seen", "texts", "graph"} \cup
                 (IF InterruptsInIdentify THEN {"placed", "deciding", "appending"} ELSE {})

Interrupt ==
  /\ pc \in Interruptible /\ ~stopping
  /\ stopping' = TRUE /\ pc' = "saving"
  /\ UNCHANGED <<current, memory, stepLog, identifyFile, savedFiles, runs>>

\* The process dies, and what it only had in memory with it.
Kill ==
  /\ pc # "down" /\ pc' = "down"
  /\ UNCHANGED <<stopping, current, memory, stepLog, identifyFile, savedFiles, runs>>

Next ==
  \/ Start \/ WriteImage \/ WriteRecord \/ NotPlaced
  \/ \E kind \in Kinds, from \in Ids : Place(kind, from)
  \/ AddTextVector \/ BeginAppend \/ EndAppend
  \/ SaveTexts \/ SaveNodes \/ SaveVectors
  \/ Interrupt \/ Kill

Spec == Init /\ [][Next]_vars

-----------------------------------------------------------------------------
(* The state of the process and of the files.                              *)
TypeOK ==
  /\ pc \in {"down", "idle", "captured", "seen", "placed", "deciding", "appending",
             "saving", "texts", "graph"}
  /\ stopping \in BOOLEAN /\ saved \in BOOLEAN
  /\ current \in [id : Ids, kind : Kinds, from : Ids]
  /\ members \subseteq Ids \X Kinds /\ graphFile \subseteq Ids \X Kinds
  /\ texts \subseteq Ids /\ vectors \subseteq Ids
  /\ textFile \subseteq Ids /\ vectorFile \subseteq Ids
  /\ number \in Nat /\ shots \in 0..MaxShots /\ runs \in 0..MaxRuns
  /\ images \in [Ids -> 0..MaxShots] /\ records \in [Ids -> 0..MaxShots]
  /\ lines \in Seq([id : Ids, shot : 1..MaxShots, from : Ids])
  /\ tail \in {"none", "torn", "split"}

(* Whenever the process dies, the saved graph still loads: every described *)
(* member has its image, its record, its line and its text vector, and no  *)
(* torn line is ever joined to the next (save_graph: "a crash between the  *)
(* two writes must not leave a member without one").  The exception is a   *)
(* last line torn inside a character, which the file cannot be read with.  *)
SavedGraphLoads == saved /\ tail # "split" => Loadable

(* What read_json_lines says of the identify file: "A last line without    *)
(* its newline, torn off by a crash, is left out", so the graph loads.     *)
TornLastLineIsLeftOut == pc = "down" /\ saved => Loadable

(* A line of the identify file still speaks of the screenshot the step log *)
(* shows under its id, however often runs died and reused free numbers.    *)
LinesSpeakOfTheirScreens ==
  \A i \in DOMAIN lines :
    /\ records[lines[i].id] = lines[i].shot /\ images[lines[i].id] = lines[i].shot
    /\ \A j \in DOMAIN lines : lines[i].id = lines[j].id => i = j

(* In a running process every in-app member has an image vector, which     *)
(* closest_member looks up without a default, although a crash can lose    *)
(* the vectors of members that were saved.                                 *)
MembersHaveImageVectors ==
  pc # "down" => OfKind(members, InApp) \subseteq vectors

(* A saved graph with no torn, missing or foreign evidence is what every   *)
(* exit leaves, an interruption in the middle of identify_state included:  *)
(* crashes "lose at most one step" (explore), never the graph.             *)
EveryExitLeavesALoadableGraph == pc = "down" /\ saved => Loadable
=============================================================================
