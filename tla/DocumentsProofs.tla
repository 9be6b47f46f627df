-------------------------- MODULE DocumentsProofs ---------------------------
(***************************************************************************)
(* Proofs about the documents and what is kept of them: the chunks a text  *)
(* is cut into, the index of the chunks, and the saved simulations.        *)
(***************************************************************************)
EXTENDS Chunker, RagIndex, Simulations, TLAPS

(***************************************************************************)
(* What chunk_text promises, for every text and every pair of sizes.       *)
(***************************************************************************)

-----------------------------------------------------------------------------
(* The cut lies in the window: past its first character, at most MaxChars  *)
(* away and not past the end of the text.                                  *)
LEMMA CutInWindow ==
  ASSUME ChunkerTypeOK, NEW e \in start + 1 .. Length, IsCut(e)
  PROVE  e - start <= MaxChars
<1>1. Length \in Nat /\ start \in Nat /\ MaxChars \in Nat
  BY TextsAssumption, SizesAssumption DEF ChunkerTypeOK, Length
<1>2. WindowEnd \in Int /\ WindowEnd - start <= MaxChars
  BY <1>1, SizesAssumption DEF WindowEnd, ChunkerTypeOK
<1>3. e <= WindowEnd
  BY <1>1, <1>2 DEF IsCut, IsLastAfter
<1> QED
  BY <1>1, <1>2, <1>3

\* The chunks hold every visible character before start, and while a window
\* is cut but not emitted the window lies within MaxChars of start.
CoverInv ==
  /\ ChunkerTypeOK
  /\ \A i \in 0 .. start - 1 : IsSolid(i) => \E c \in chunks : i \in c
  /\ pc = "cut" => start < Length
  /\ pc = "emit" => start < end /\ end - start <= MaxChars
  /\ ChunksCoverText
  /\ ChunksFit

(* A text has a length.                                                    *)
LEMMA TextType ==
  ASSUME ChunkerTypeOK
  PROVE  Length \in Nat
BY TextsAssumption DEF ChunkerTypeOK, Length

(* Nothing is covered at first, and nothing has to be.                     *)
LEMMA CoverInit == ChunkerInit => CoverInv
<1> SUFFICES ASSUME ChunkerInit PROVE CoverInv
  OBVIOUS
<1>1. Length \in Nat
  BY TextsAssumption DEF ChunkerInit, Length
<1>2. ChunkerTypeOK
  BY <1>1 DEF ChunkerInit, ChunkerTypeOK
<1>3. ChunksCoverText /\ ChunksFit
  BY <1>1 DEF ChunkerInit, ChunksCoverText, ChunksFit
<1> QED
  BY <1>1, <1>2, <1>3 DEF CoverInv, ChunkerInit

(* A cut chooses the next window and drops nothing.                        *)
LEMMA CutKeepsCover ==
  ASSUME CoverInv, CutWindow
  PROVE  CoverInv'
<1>1. Length \in Nat /\ Length' = Length
  BY TextType DEF CoverInv, CutWindow, Length
<1>2. PICK e \in start + 1 .. Length : IsCut(e) /\ end' = e
  BY DEF CutWindow
<1>3. e - start <= MaxChars
  BY <1>2, CutInWindow DEF CoverInv
<1>4. UNCHANGED <<text, start, chunks>> /\ pc' = "emit"
  BY DEF CutWindow
<1>5. ChunkerTypeOK'
  BY <1>1, <1>2, <1>4 DEF CoverInv, ChunkerTypeOK
<1>6. (\A i \in 0 .. start - 1 : IsSolid(i) => \E c \in chunks : i \in c)'
  BY <1>4 DEF CoverInv, IsSolid, Char
<1>7. ChunksFit'
  BY <1>4 DEF CoverInv, ChunksFit, IsSolid, Char
<1>8. ChunksCoverText'
  BY <1>4 DEF ChunksCoverText
<1>9. start' < end' /\ end' - start' <= MaxChars
  BY <1>1, <1>2, <1>3, <1>4 DEF CoverInv, ChunkerTypeOK
<1> QED
  BY <1>4, <1>5, <1>6, <1>7, <1>8, <1>9 DEF CoverInv

\* The visible characters of a window are all in its stripped chunk, and the
\* chunk, when there is one, fits and has visible ends.
LEMMA StrippedHoldsSolid ==
  ASSUME ChunkerTypeOK, NEW i \in start .. end - 1, IsSolid(i)
  PROVE  i \in Stripped
<1>1. start \in Int /\ end \in Int
  BY TextType DEF ChunkerTypeOK
<1> QED
  BY <1>1 DEF Stripped


(* A chunk that is emitted holds every character of its window that is no  *)
(* blank, and the next window starts no later than it ends.                *)
LEMMA EmitKeepsCover ==
  ASSUME CoverInv, EmitChunk
  PROVE  CoverInv'
<1>1. Length \in Nat /\ Length' = Length
  BY TextType DEF CoverInv, EmitChunk, Length
<1>2. /\ start \in Nat /\ end \in Nat /\ start < end /\ end <= Length
      /\ end - start <= MaxChars /\ MaxChars \in Nat /\ OverlapChars \in Nat
  BY <1>1, SizesAssumption DEF CoverInv, EmitChunk, ChunkerTypeOK
<1>3. \A i : IsSolid(i)' <=> IsSolid(i)
  BY DEF EmitChunk, IsSolid, Char
<1>4. chunks \subseteq chunks' /\ (Stripped # {} => Stripped \in chunks')
      /\ \A c \in chunks' : c \in chunks \/ (c = Stripped /\ c # {})
  BY DEF EmitChunk
<1>5. \A i \in 0 .. end - 1 : IsSolid(i) => \E c \in chunks' : i \in c
  <2> SUFFICES ASSUME NEW i \in 0 .. end - 1, IsSolid(i)
               PROVE  \E c \in chunks' : i \in c
    OBVIOUS
  <2>1. CASE i < start
    BY <1>2, <1>4, <2>1 DEF CoverInv
  <2>2. CASE i >= start
    BY <1>2, <1>4, <2>2, StrippedHoldsSolid DEF CoverInv
  <2> QED
    BY <1>2, <2>1, <2>2
<1>6. /\ start' \in 0 .. end
      /\ pc' = "cut"  => end < Length
      /\ pc' = "done" => end = Length
      /\ pc' \in {"cut", "done"}
  <2>1. CASE end < Length
    BY <1>1, <1>2, <2>1 DEF EmitChunk, NextStart
  <2>2. CASE ~(end < Length)
    BY <1>1, <1>2, <2>2 DEF EmitChunk
  <2> QED
    BY <2>1, <2>2
<1>7. ChunkerTypeOK'
  <2>1. Stripped \subseteq 0 .. Length - 1
    BY <1>1, <1>2 DEF Stripped
  <2>2. chunks' \in SUBSET (SUBSET (0 .. Length - 1))
    BY <1>4, <2>1 DEF CoverInv, ChunkerTypeOK
  <2>3. UNCHANGED <<text, end>>
    BY DEF EmitChunk
  <2> QED
    BY <1>1, <1>2, <1>6, <2>2, <2>3 DEF CoverInv, ChunkerTypeOK
<1>8. ChunksFit'
  <2> SUFFICES ASSUME NEW c \in chunks'
               PROVE  /\ \A i, j \in c : j - i < MaxChars
                      /\ \E i \in c : IsSolid(i)'
    BY DEF ChunksFit
  <2>1. CASE c \in chunks
    BY <1>3, <2>1 DEF CoverInv, ChunksFit
  <2>2. CASE c = Stripped /\ c # {}
    <3>1. PICK i \in c : i \in start .. end - 1 /\ \E a \in start .. i : IsSolid(a)
      BY <2>2 DEF Stripped
    <3>2. PICK a \in start .. i : IsSolid(a)
      BY <3>1
    <3>3. a \in Stripped
      BY <1>2, <3>1, <3>2, StrippedHoldsSolid DEF CoverInv
    <3>4. \A k, j \in c : j - k < MaxChars
      BY <1>2, <2>2 DEF Stripped
    <3> QED
      BY <1>3, <2>2, <3>2, <3>3, <3>4
  <2> QED
    BY <1>4, <2>1, <2>2
<1>9. (\A i \in 0 .. start - 1 : IsSolid(i) => \E c \in chunks : i \in c)'
  <2> DEFINE next == start'
  <2>1. next \in 0 .. end
    BY <1>6
  <2> HIDE DEF next
  <2>2. \A i \in 0 .. next - 1 : i \in 0 .. end - 1
    BY <1>2, <2>1
  <2> USE DEF next
  <2> QED
    BY <1>3, <1>5, <2>2
<1>10. ChunksCoverText'
  BY <1>1, <1>3, <1>5, <1>6 DEF ChunksCoverText
<1>11. pc' = "cut" => start' < Length'
  BY <1>1, <1>2, <1>6
<1> QED
  BY <1>6, <1>7, <1>8, <1>9, <1>10, <1>11 DEF CoverInv

(* No step of the chunker leaves a character out.                          *)
LEMMA CoverStep == CoverInv /\ [ChunkerNext]_chunkerVars => CoverInv'
<1> SUFFICES ASSUME CoverInv, [ChunkerNext]_chunkerVars PROVE CoverInv'
  OBVIOUS
<1>1. CASE CutWindow
  BY <1>1, CutKeepsCover
<1>2. CASE EmitChunk
  BY <1>2, EmitKeepsCover
<1>3. CASE UNCHANGED chunkerVars
  BY <1>3 DEF chunkerVars, CoverInv, ChunkerTypeOK, ChunksCoverText, ChunksFit,
              IsSolid, Char, Length
<1> QED
  BY <1>1, <1>2, <1>3 DEF ChunkerNext

(* The windows of chunk_text stay in the text and its chunks in the        *)
(* windows.                                                                *)
THEOREM ChunkerTypeCorrect == ChunkerSpec => []ChunkerTypeOK
<1>1. CoverInv => ChunkerTypeOK
  BY DEF CoverInv
<1> QED
  BY <1>1, CoverInit, CoverStep, PTL DEF ChunkerSpec

(* Whatever the text and the two sizes are, what chunk_text returns holds  *)
(* every visible character.                                                *)
THEOREM ChunkerCovers == ChunkerSpec => []ChunksCoverText
<1>1. CoverInv => ChunksCoverText
  BY DEF CoverInv
<1> QED
  BY <1>1, CoverInit, CoverStep, PTL DEF ChunkerSpec

(* No chunk is longer than max_chars, and none is blank.                   *)
THEOREM ChunkerFits == ChunkerSpec => []ChunksFit
<1>1. CoverInv => ChunksFit
  BY DEF CoverInv
<1> QED
  BY <1>1, CoverInit, CoverStep, PTL DEF ChunkerSpec

-----------------------------------------------------------------------------
\* What the cut of a window of short lines is.
FarCutInv ==
  /\ CoverInv
  /\ ShortLines /\ pc = "emit" /\ end < Length => end > start + OverlapChars

(* With short lines a cut inside the text lies further from the start      *)
(* than the overlap.                                                       *)
LEMMA FarCut ==
  ASSUME CoverInv, ShortLines, CutWindow, end' < Length
  PROVE  end' > start + OverlapChars
<1>1. /\ Length \in Nat /\ start \in Nat /\ MaxChars \in Nat /\ OverlapChars \in Nat
      /\ OverlapChars < MaxChars /\ start < Length
  BY TextType, SizesAssumption DEF CoverInv, CutWindow, ChunkerTypeOK
<1>2. PICK e \in start + 1 .. Length : IsCut(e) /\ end' = e
  BY DEF CutWindow
<1>3. CASE WindowEnd < Length
  <2>1. WindowEnd = start + MaxChars
    BY <1>1, <1>3 DEF WindowEnd
  <2> DEFINE reach == MaxChars - OverlapChars - 1
  <2>2. start + OverlapChars + 1 \in 0 .. Length - reach
    BY <1>1, <1>3, <2>1
  <2>3. PICK j \in start + OverlapChars + 1 .. start + OverlapChars + 1 + reach - 1 :
          Char(j) = Newline
    BY <2>2 DEF ShortLines
  <2>4. j \in start + 1 .. WindowEnd - 1 /\ j > start + OverlapChars
    BY <1>1, <2>1, <2>3
  <2>5. ~NoneAfter(Newline, start, WindowEnd)
    BY <2>3, <2>4 DEF NoneAfter
  <2>6. IsLastAfter(e, Newline, start, WindowEnd)
    BY <1>2, <1>3, <2>5 DEF IsCut
  <2>7. ~(j > e)
    BY <1>1, <2>3, <2>4, <2>6 DEF IsLastAfter
  <2> QED
    BY <1>1, <1>2, <2>4, <2>7
<1>4. CASE ~(WindowEnd < Length)
  BY <1>1, <1>2, <1>4 DEF IsCut, WindowEnd
<1> QED
  BY <1>3, <1>4

(* Which holds after every step.                                           *)
LEMMA FarCutStep == FarCutInv /\ [ChunkerNext]_chunkerVars => FarCutInv'
<1> SUFFICES ASSUME FarCutInv, [ChunkerNext]_chunkerVars PROVE FarCutInv'
  OBVIOUS
<1>1. CoverInv'
  BY CoverStep DEF FarCutInv
<1>2. CASE CutWindow
  <2>1. UNCHANGED <<text, start>>
    BY <1>2 DEF CutWindow
  <2>2. (ShortLines' => ShortLines) /\ Length' = Length
    BY <2>1 DEF ShortLines, Char, Length
  <2> QED
    BY <1>1, <1>2, <2>1, <2>2, FarCut DEF FarCutInv
<1>3. CASE EmitChunk
  BY <1>1, <1>3 DEF FarCutInv, EmitChunk
<1>4. CASE UNCHANGED chunkerVars
  BY <1>1, <1>4 DEF FarCutInv, chunkerVars, ShortLines, Char, Length
<1> QED
  BY <1>2, <1>3, <1>4 DEF ChunkerNext

(* In a text of short lines each window begins after the one before it,    *)
(* for every pair of sizes the code accepts: the loop of chunk_text comes  *)
(* to an end on such a text.                                               *)
THEOREM ChunkerMovesOn == ChunkerSpec => WindowsMoveOn
<1>1. ChunkerInit => FarCutInv
  BY CoverInit DEF FarCutInv, ChunkerInit
<1>2. ASSUME FarCutInv, [ChunkerNext]_chunkerVars,
             ShortLines, pc = "emit", pc' = "cut"
      PROVE  start' > start
  <2>1. EmitChunk
    BY <1>2 DEF ChunkerNext, CutWindow, chunkerVars
  <2>2. end < Length /\ start' = NextStart
    BY <1>2, <2>1 DEF EmitChunk
  <2>3. end > start + OverlapChars
    BY <1>2, <2>2 DEF FarCutInv
  <2>4. start \in Nat /\ end \in Nat /\ OverlapChars \in Nat
    BY <1>2, TextType, SizesAssumption DEF FarCutInv, CoverInv, ChunkerTypeOK
  <2> QED
    BY <2>2, <2>3, <2>4 DEF NextStart
<1>3. FarCutInv /\ [ChunkerNext]_chunkerVars
        => [ShortLines /\ pc = "emit" /\ pc' = "cut" => start' > start]_chunkerVars
  BY <1>2
<1> QED
  BY <1>1, <1>3, FarCutStep, PTL DEF ChunkerSpec, WindowsMoveOn

-----------------------------------------------------------------------------
(***************************************************************************)
(* The document index, for any files, directories and embedders and any    *)
(* number of runs that overlap.                                            *)
(*                                                                         *)
(* SyncedIndexMatchesDisk speaks of files no run is at work on.  Around it *)
(* the induction needs what a calm run knows of its directory halfway:     *)
(* what it has kept is in the index as it is on disk, what it has still to *)
(* keep it has still to read, and no other run is under way.               *)
(***************************************************************************)

Runs == [pc: {"idle", "walk", "upsert"}, root: SUBSET Files, todo: SUBSET Files,
         kept: SUBSET Files, embedder: Embedders \cup {"none"}, file: Files \cup {0},
         read: Int, all: BOOLEAN, calm: BOOLEAN]

RagTypes ==
  /\ version \in [Files -> Int]
  /\ store \in [Files -> [version: Int, embedder: Embedders \cup {"none"}]]
  /\ indexer \in [Indexers -> Runs]
  /\ synced \in SUBSET Files

\* The files whose documents a run may write or remove.
Scope(run) == IF run.all THEN {run.file} ELSE run.root

ScopesApart ==
  \A i \in Indexers :
    ~In(i, "idle") =>
      /\ Scope(indexer[i]) \cap synced = {}
      /\ In(i, "upsert") => indexer[i].file \in Scope(indexer[i]) \cap Files
      /\ In(i, "walk") => ~indexer[i].all
      /\ indexer[i].todo \subseteq indexer[i].root
      /\ indexer[i].kept \subseteq indexer[i].root

InHand(run) == IF run.pc = "upsert" THEN {run.file} ELSE {}

\* What a run knows of its directory that nothing has disturbed.
Knows(run) ==
  /\ run.kept \subseteq FrontMatter \cap OnDisk
  /\ \A f \in run.kept : store[f].version = version[f]
  /\ FrontMatter \cap OnDisk \cap run.root \subseteq run.kept \cup run.todo \cup InHand(run)
  /\ run.pc = "upsert" => /\ run.file \in FrontMatter \cap OnDisk
                          /\ run.read = version[run.file]

CalmRuns ==
  \A i \in Indexers : indexer[i].calm => ~In(i, "idle") /\ ~indexer[i].all /\ NoneBut(i)
                                           /\ Knows(indexer[i])

IndexInv == RagTypes /\ ScopesApart /\ CalmRuns /\ SyncedIndexMatchesDisk

-----------------------------------------------------------------------------
(* What a run at rest holds.                                               *)
LEMMA IdleIsRun ==
  /\ IdleIndexer \in Runs
  /\ IdleIndexer.pc = "idle" /\ IdleIndexer.calm = FALSE /\ IdleIndexer.all = FALSE
  /\ IdleIndexer.root = {} /\ IdleIndexer.todo = {} /\ IdleIndexer.kept = {}
BY DEF IdleIndexer, Runs

(* The entry of a file that is not stored.                                 *)
LEMMA NoDocumentType ==
  /\ NoDocument \in [version: Int, embedder: Embedders \cup {"none"}]
BY DEF NoDocument

(* It holds at the start.                                                  *)
LEMMA InitIndexInv == RagInit => IndexInv
<1> SUFFICES ASSUME RagInit PROVE IndexInv
  OBVIOUS
<1>1. RagTypes
  BY IdleIsRun, NoDocumentType DEF RagInit, RagTypes
<1>2. \A i \in Indexers : In(i, "idle") /\ ~indexer[i].calm
  BY IdleIsRun DEF RagInit, In
<1>3. QED BY <1>1, <1>2 DEF RagInit, IndexInv, ScopesApart, CalmRuns, SyncedIndexMatchesDisk

-----------------------------------------------------------------------------
(* A file that changes: the runs over its directory are no longer calm,    *)
(* and the file is in step no more.                                        *)
LEMMA DisturbedRuns ==
  ASSUME IndexInv, NEW f \in Files, indexer' = Disturbed(f)
  PROVE  /\ indexer' \in [Indexers -> Runs]
         /\ \A i \in Indexers :
              /\ indexer'[i].pc = indexer[i].pc
              /\ indexer'[i].root = indexer[i].root
              /\ indexer'[i].todo = indexer[i].todo
              /\ indexer'[i].kept = indexer[i].kept
              /\ indexer'[i].file = indexer[i].file
              /\ indexer'[i].read = indexer[i].read
              /\ indexer'[i].all = indexer[i].all
              /\ indexer'[i].calm => indexer[i].calm /\ f \notin indexer[i].root
<1> DEFINE Still(i) == indexer[i].calm /\ f \notin indexer[i].root
<1>1. \A i \in Indexers : Still(i) \in BOOLEAN
  OBVIOUS
<1>2. indexer' = [i \in Indexers |-> [indexer[i] EXCEPT !.calm = Still(i)]]
  BY DEF Disturbed
<1> HIDE DEF Still
<1>3. \A i \in Indexers : indexer[i] \in Runs
  BY DEF IndexInv, RagTypes
<1>4. \A i \in Indexers : [indexer[i] EXCEPT !.calm = Still(i)] \in Runs
  BY <1>1, <1>3 DEF Runs
<1>5. \A i \in Indexers : indexer'[i].calm = Still(i)
  BY <1>2, <1>3 DEF Runs
<1>6. \A i \in Indexers : indexer'[i].calm => indexer[i].calm /\ f \notin indexer[i].root
  BY <1>5 DEF Still
<1>7. indexer' \in [Indexers -> Runs]
  BY <1>2, <1>4
<1>8. \A i \in Indexers :
        /\ indexer'[i].pc = indexer[i].pc
        /\ indexer'[i].root = indexer[i].root
        /\ indexer'[i].todo = indexer[i].todo
        /\ indexer'[i].kept = indexer[i].kept
        /\ indexer'[i].file = indexer[i].file
        /\ indexer'[i].read = indexer[i].read
        /\ indexer'[i].all = indexer[i].all
  BY <1>2, <1>3 DEF Runs
<1>9. QED BY <1>6, <1>7, <1>8

(* A file that is written, removed or restored.                            *)
LEMMA ChangeStep ==
  ASSUME IndexInv, NEW f \in Files, NEW v \in Int,
         version' = [version EXCEPT ![f] = v],
         indexer' = Disturbed(f), synced' = synced \ {f}, UNCHANGED store
  PROVE  IndexInv'
<1>1. indexer' \in [Indexers -> Runs]
  BY DisturbedRuns
<1>2. \A i \in Indexers :
        /\ indexer'[i].pc = indexer[i].pc
        /\ indexer'[i].root = indexer[i].root
        /\ indexer'[i].todo = indexer[i].todo
        /\ indexer'[i].kept = indexer[i].kept
        /\ indexer'[i].file = indexer[i].file
        /\ indexer'[i].read = indexer[i].read
        /\ indexer'[i].all = indexer[i].all
        /\ indexer'[i].calm => indexer[i].calm /\ f \notin indexer[i].root
  BY DisturbedRuns
<1>3. \A g \in Files \ {f} : version'[g] = version[g]
  BY DEF IndexInv, RagTypes
<1>4. RagTypes'
  BY <1>1 DEF IndexInv, RagTypes
<1>5. ScopesApart'
  BY <1>2 DEF IndexInv, ScopesApart, Scope, In
<1>6. CalmRuns'
  <2> SUFFICES ASSUME NEW i \in Indexers, indexer'[i].calm
               PROVE  /\ ~In(i, "idle")' /\ ~indexer'[i].all /\ NoneBut(i)'
                      /\ Knows(indexer[i])'
    BY DEF CalmRuns
  <2>1. indexer[i].calm /\ f \notin indexer[i].root
    BY <1>2
  <2>2. ~In(i, "idle") /\ ~indexer[i].all /\ NoneBut(i) /\ Knows(indexer[i])
    BY <2>1 DEF IndexInv, CalmRuns
  <2>3. ~In(i, "idle")' /\ ~indexer'[i].all /\ NoneBut(i)'
    BY <1>2, <2>2 DEF In, NoneBut
  <2>4. /\ indexer[i].kept \subseteq indexer[i].root
        /\ In(i, "upsert") => indexer[i].file \in indexer[i].root \cap Files
        /\ indexer[i].root \subseteq Files
    BY <2>2 DEF IndexInv, ScopesApart, Scope, In, RagTypes, Runs
  <2>5. \A g \in indexer[i].root : (g \in OnDisk' <=> g \in OnDisk) /\ version'[g] = version[g]
    BY <1>3, <2>1, <2>4 DEF OnDisk
  <2>6. Knows(indexer[i])'
    BY <1>2, <2>2, <2>4, <2>5 DEF Knows, InHand, In
  <2>7. QED BY <2>3, <2>6
<1>7. SyncedIndexMatchesDisk'
  BY <1>3 DEF IndexInv, SyncedIndexMatchesDisk, OnDisk, Stored, RagTypes
<1>8. QED BY <1>4, <1>5, <1>6, <1>7 DEF IndexInv

-----------------------------------------------------------------------------
(* The vectors of an old store change nothing but the embedder, and no     *)
(* document comes or goes.                                                 *)
LEMMA OpenedStore ==
  ASSUME IndexInv, NEW e \in Embedders
  PROVE  /\ Opened(e) \in [Files -> [version: Int, embedder: Embedders \cup {"none"}]]
         /\ \A f \in Files : /\ Opened(e)[f].version = store[f].version
                             /\ Opened(e)[f] = NoDocument <=> store[f] = NoDocument
<1>1. store \in [Files -> [version: Int, embedder: Embedders \cup {"none"}]]
  BY DEF IndexInv, RagTypes
<1>2. PICK T : T = [version: Int, embedder: Embedders \cup {"none"}]
  OBVIOUS
<1>3. ASSUME NEW d \in T
      PROVE  /\ [d EXCEPT !.embedder = e] \in T
             /\ [d EXCEPT !.embedder = e].version = d.version
             /\ [d EXCEPT !.embedder = e] # NoDocument
  BY <1>2, EmbedderAssumption DEF NoDocument
<1>4. CASE Opened(e) = store
  BY <1>1, <1>4
<1>5. CASE Opened(e) = [f \in Files |-> IF f \in Stored THEN [store[f] EXCEPT !.embedder = e]
                                       ELSE store[f]]
  BY <1>1, <1>2, <1>3, <1>5 DEF Stored
<1>6. QED BY <1>4, <1>5 DEF Opened

(* A store that is opened stays in step.                                   *)
LEMMA OpenStoreStep ==
  ASSUME IndexInv, OpenStore
  PROVE  IndexInv'
<1>1. store' = Opened(Hashing) /\ UNCHANGED <<version, indexer, synced>>
  BY DEF OpenStore
<1>2. Hashing \in Embedders
  BY EmbedderAssumption
<1>3. RagTypes'
  BY <1>1, <1>2, OpenedStore DEF IndexInv, RagTypes
<1>4. ScopesApart'
  BY <1>1 DEF IndexInv, ScopesApart, Scope, In
<1>5. CalmRuns'
  <2>1. \A i \in Indexers : indexer[i] \in Runs
    BY DEF IndexInv, RagTypes
  <2>2. ASSUME NEW i \in Indexers, Knows(indexer[i]) PROVE Knows(indexer[i])'
    <3>1. \A f \in Files : store'[f].version = store[f].version
      BY <1>1, <1>2, OpenedStore
    <3>2. QED BY <1>1, <2>1, <2>2, <3>1 DEF Knows, InHand, OnDisk, Runs
  <2>3. QED BY <1>1, <2>2 DEF IndexInv, CalmRuns, In, NoneBut
<1>6. SyncedIndexMatchesDisk'
  BY <1>1, <1>2, OpenedStore DEF IndexInv, SyncedIndexMatchesDisk, OnDisk, Stored, RagTypes
<1>7. QED BY <1>3, <1>4, <1>5, <1>6 DEF IndexInv

-----------------------------------------------------------------------------
(* A run that begins: what it may write is in step no more, and it is calm *)
(* only if no other run is under way; those that are, are calm no more.    *)
LEMMA StartStep ==
  ASSUME IndexInv, NEW i \in Indexers, NEW run \in Runs, NEW e \in Embedders,
         indexer' = Started(i, run), synced' = synced \ Scope(run),
         version' = version, store' = Opened(e),
         run.pc # "idle",
         run.pc = "upsert" => run.all /\ run.file \in Files,
         run.pc = "walk" => ~run.all,
         run.kept = {}, run.todo \subseteq run.root,
         run.calm => /\ run.pc = "walk" /\ NoneBut(i)
                     /\ run.todo = run.root \cap OnDisk
  PROVE  IndexInv'
<1>1. indexer'[i] = run
  BY DEF Started
<1>2. \A k \in Indexers : indexer[k] \in Runs
  BY DEF IndexInv, RagTypes
<1>3. \A k \in Indexers \ {i} : indexer'[k] = [indexer[k] EXCEPT !.calm = FALSE]
  BY DEF Started
<1>4. \A k \in Indexers \ {i} :
        /\ indexer'[k] \in Runs
        /\ indexer'[k].pc = indexer[k].pc
        /\ indexer'[k].root = indexer[k].root
        /\ indexer'[k].todo = indexer[k].todo
        /\ indexer'[k].kept = indexer[k].kept
        /\ indexer'[k].file = indexer[k].file
        /\ indexer'[k].all = indexer[k].all
        /\ ~indexer'[k].calm
  <2> SUFFICES ASSUME NEW k \in Indexers \ {i}
               PROVE  /\ indexer'[k] \in Runs
                      /\ indexer'[k].pc = indexer[k].pc
                      /\ indexer'[k].root = indexer[k].root
                      /\ indexer'[k].todo = indexer[k].todo
                      /\ indexer'[k].kept = indexer[k].kept
                      /\ indexer'[k].file = indexer[k].file
                      /\ indexer'[k].all = indexer[k].all
                      /\ ~indexer'[k].calm
    OBVIOUS
  <2>1. indexer[k] \in Runs /\ indexer'[k] = [indexer[k] EXCEPT !.calm = FALSE]
    BY <1>2, <1>3
  <2>2. QED BY <2>1 DEF Runs
<1>5. indexer' \in [Indexers -> Runs]
  BY <1>1, <1>4 DEF Started
<1>6. RagTypes'
  BY <1>5, OpenedStore DEF IndexInv, RagTypes
<1>7. ScopesApart'
  <2>1. ASSUME NEW k \in Indexers \ {i}, indexer[k].pc # "idle"
        PROVE  /\ Scope(indexer'[k]) \cap synced' = {}
               /\ indexer'[k].pc = "upsert" => indexer'[k].file \in Scope(indexer'[k]) \cap Files
               /\ indexer'[k].pc = "walk" => ~indexer'[k].all
               /\ indexer'[k].todo \subseteq indexer'[k].root
               /\ indexer'[k].kept \subseteq indexer'[k].root
    BY <1>4, <2>1 DEF IndexInv, ScopesApart, Scope, In
  <2>2. /\ Scope(run) \cap synced' = {}
        /\ run.pc = "upsert" => run.file \in Scope(run) \cap Files
    BY DEF Scope
  <2>3. QED BY <1>1, <1>4, <2>1, <2>2 DEF ScopesApart, In
<1>8. CalmRuns'
  <2> SUFFICES ASSUME NEW k \in Indexers, indexer'[k].calm
               PROVE  /\ ~In(k, "idle")' /\ ~indexer'[k].all /\ NoneBut(k)'
                      /\ Knows(indexer[k])'
    BY DEF CalmRuns
  <2>1. k = i
    BY <1>4
  <2>2. run.pc = "walk" /\ ~run.all /\ NoneBut(i) /\ run.todo = run.root \cap OnDisk
    BY <1>1, <2>1
  <2>3. NoneBut(i)'
    BY <1>4, <2>2 DEF NoneBut, In
  <2>4. Knows(run)'
    BY <2>2 DEF Knows, InHand, OnDisk
  <2>5. QED BY <1>1, <2>1, <2>2, <2>3, <2>4 DEF In
<1>9. SyncedIndexMatchesDisk'
  BY OpenedStore DEF IndexInv, SyncedIndexMatchesDisk, OnDisk, Stored
<1>10. QED BY <1>6, <1>7, <1>8, <1>9 DEF IndexInv

(* Every other step is taken by one run, which goes on or ends.            *)
LEMMA RunStep ==
  ASSUME IndexInv, NEW i \in Indexers, NEW run \in Runs,
         ~In(i, "idle"),
         indexer' = [indexer EXCEPT ![i] = run],
         UNCHANGED version,
         store' \in [Files -> [version: Int, embedder: Embedders \cup {"none"}]],
         \A f \in Files \ Scope(indexer[i]) : store'[f] = store[f],
         synced' = synced,
         run.pc # "idle" =>
           /\ run.root = indexer[i].root /\ ~run.all /\ ~indexer[i].all
           /\ run.todo \subseteq run.root /\ run.kept \subseteq run.root
           /\ run.pc = "upsert" => run.file \in run.root,
         run.calm => run.pc # "idle" /\ indexer[i].calm /\ Knows(run)'
  PROVE  IndexInv'
<1>1. indexer'[i] = run /\ \A k \in Indexers \ {i} : indexer'[k] = indexer[k]
  BY DEF IndexInv, RagTypes
<1>2. RagTypes'
  BY DEF IndexInv, RagTypes
<1>3. Scope(indexer[i]) \cap synced = {}
  BY DEF IndexInv, ScopesApart
<1>4. ScopesApart'
  <2>1. run.pc # "idle" =>
          /\ Scope(run) \cap synced' = {}
          /\ run.pc = "upsert" => run.file \in Scope(run) \cap Files
    BY <1>3 DEF Scope, Runs
  <2>2. QED BY <1>1, <2>1 DEF IndexInv, ScopesApart, In
<1>5. CalmRuns'
  <2> SUFFICES ASSUME NEW k \in Indexers, indexer'[k].calm
               PROVE  /\ ~In(k, "idle")' /\ ~indexer'[k].all /\ NoneBut(k)'
                      /\ Knows(indexer[k])'
    BY DEF CalmRuns
  <2>1. k = i
    BY <1>1 DEF IndexInv, CalmRuns, NoneBut
  <2>2. run.pc # "idle" /\ indexer[i].calm /\ Knows(run)' /\ ~run.all
    BY <1>1, <2>1
  <2>3. NoneBut(i)
    BY <2>2 DEF IndexInv, CalmRuns
  <2>4. QED BY <1>1, <2>1, <2>2, <2>3 DEF NoneBut, In
<1>6. SyncedIndexMatchesDisk'
  <2>1. \A f \in synced : store'[f] = store[f]
    BY <1>3 DEF IndexInv, RagTypes
  <2>2. QED BY <2>1 DEF IndexInv, SyncedIndexMatchesDisk, OnDisk, Stored, RagTypes
<1>7. QED BY <1>2, <1>4, <1>5, <1>6 DEF IndexInv

-----------------------------------------------------------------------------
(* What the steps of a run may use of it.                                  *)
LEMMA RunFacts ==
  ASSUME IndexInv, NEW i \in Indexers, ~In(i, "idle")
  PROVE  /\ indexer[i] \in Runs
         /\ indexer[i].todo \subseteq indexer[i].root
         /\ indexer[i].kept \subseteq indexer[i].root
         /\ In(i, "walk") => ~indexer[i].all
         /\ In(i, "upsert") => indexer[i].file \in Scope(indexer[i]) \cap Files
         /\ indexer[i].calm => Knows(indexer[i]) /\ ~indexer[i].all
BY DEF IndexInv, RagTypes, ScopesApart, CalmRuns, Scope

(* A run over a directory begins.                                          *)
LEMMA StartDirectoryStep ==
  ASSUME IndexInv, NEW i \in Indexers, NEW root \in Roots, NEW e \in Embedders,
         StartDirectory(i, root, e)
  PROVE  IndexInv'
<1>1. NoneBut(i) \in BOOLEAN
  BY DEF NoneBut
<1>2. root \in SUBSET Files /\ root \cap OnDisk \in SUBSET Files
  BY FilesAssumption
<1>3. PICK run : run = [IdleIndexer EXCEPT !.pc = "walk", !.root = root, !.todo = root \cap OnDisk,
                                           !.embedder = e, !.calm = NoneBut(i)]
  OBVIOUS
<1>4. /\ run \in Runs
      /\ run.pc = "walk" /\ run.root = root /\ run.todo = root \cap OnDisk
      /\ run.kept = {} /\ run.all = FALSE /\ run.calm = NoneBut(i)
  BY <1>1, <1>2, <1>3, IdleIsRun DEF Runs
<1>5. /\ indexer' = Started(i, run) /\ synced' = synced \ root
      /\ version' = version /\ store' = Opened(e)
  BY <1>3 DEF StartDirectory
<1>6. Scope(run) = root
  BY <1>4 DEF Scope
<1>7. QED BY <1>4, <1>5, <1>6, StartStep

(* A run over one file begins.                                             *)
LEMMA StartFileStep ==
  ASSUME IndexInv, NEW i \in Indexers, NEW f \in Files, NEW e \in Embedders,
         StartFile(i, f, e)
  PROVE  IndexInv'
<1>1. version[f] \in Int
  BY DEF IndexInv, RagTypes
<1>2. PICK run : run = [IdleIndexer EXCEPT !.pc = "upsert", !.file = f, !.read = version[f],
                                           !.embedder = e, !.all = TRUE]
  OBVIOUS
<1>3. /\ run \in Runs
      /\ run.pc = "upsert" /\ run.root = {} /\ run.todo = {} /\ run.kept = {}
      /\ run.file = f /\ run.all = TRUE /\ run.calm = FALSE
  BY <1>1, <1>2, IdleIsRun DEF Runs
<1>4. /\ indexer' = Started(i, run) /\ synced' = synced \ {f}
      /\ version' = version /\ store' = Opened(e)
  BY <1>2 DEF StartFile
<1>5. Scope(run) = {f}
  BY <1>3 DEF Scope
<1>6. QED BY <1>3, <1>4, <1>5, StartStep

(* A run reads a file.                                                     *)
LEMMA ReadFileStep ==
  ASSUME IndexInv, NEW i \in Indexers, NEW f \in Files, ReadFile(i, f)
  PROVE  IndexInv'
<1>1. ~In(i, "idle") /\ In(i, "walk") /\ f \in indexer[i].todo /\ f \in FrontMatter \cap OnDisk
  BY DEF ReadFile, In, IsNext, OnDisk
<1>2. indexer[i] \in Runs /\ version[f] \in Int
  BY DEF IndexInv, RagTypes
<1>3. PICK run : run = [indexer[i] EXCEPT !.pc = "upsert", !.file = f, !.read = version[f],
                                          !.todo = @ \ {f}]
  OBVIOUS
<1>4. indexer' = [indexer EXCEPT ![i] = run]
  BY <1>3 DEF ReadFile
<1>5. /\ run \in Runs
      /\ run.pc = "upsert" /\ run.file = f /\ run.read = version[f]
      /\ run.todo = indexer[i].todo \ {f} /\ run.kept = indexer[i].kept
      /\ run.root = indexer[i].root /\ run.all = indexer[i].all
      /\ run.calm = indexer[i].calm
  BY <1>2, <1>3 DEF Runs
<1>6. UNCHANGED <<version, store, synced>>
  BY DEF ReadFile
<1>7. run.calm => indexer[i].calm /\ Knows(run)'
  BY <1>1, <1>5, <1>6, RunFacts DEF Knows, InHand, In, OnDisk
<1>8. store' \in [Files -> [version: Int, embedder: Embedders \cup {"none"}]]
  BY <1>6 DEF IndexInv, RagTypes
<1>9. QED BY <1>1, <1>4, <1>5, <1>6, <1>7, <1>8, RunFacts, RunStep

(* A run passes a file over; it stays calm only if there was nothing to    *)
(* read.                                                                   *)
LEMMA SkipStep ==
  ASSUME IndexInv, NEW i \in Indexers, NEW f \in Files, NEW calm \in BOOLEAN,
         In(i, "walk"), f \in indexer[i].todo,
         indexer' = [indexer EXCEPT ![i].todo = @ \ {f}, ![i].calm = calm],
         calm => indexer[i].calm /\ f \notin FrontMatter \cap OnDisk,
         UNCHANGED <<version, store, synced>>
  PROVE  IndexInv'
<1>1. ~In(i, "idle")
  BY DEF In
<1>2. indexer[i] \in Runs
  BY DEF IndexInv, RagTypes
<1>3. PICK run : run = [indexer[i] EXCEPT !.todo = @ \ {f}, !.calm = calm]
  OBVIOUS
<1>4. indexer' = [indexer EXCEPT ![i] = run]
  BY <1>3
<1>5. /\ run \in Runs
      /\ run.pc = "walk" /\ run.read = indexer[i].read
      /\ run.todo = indexer[i].todo \ {f} /\ run.kept = indexer[i].kept
      /\ run.root = indexer[i].root /\ run.all = indexer[i].all
      /\ run.calm = calm
  BY <1>2, <1>3 DEF Runs, In
<1>6. run.calm => indexer[i].calm /\ Knows(run)'
  BY <1>1, <1>5, RunFacts DEF Knows, InHand, In, OnDisk
<1>7. store' \in [Files -> [version: Int, embedder: Embedders \cup {"none"}]]
  BY DEF IndexInv, RagTypes
<1>8. QED BY <1>1, <1>4, <1>5, <1>6, <1>7, RunFacts, RunStep

(* Which is so for a file without front matter and not for one that        *)
(* cannot be read.                                                         *)
LEMMA SkipFileStep ==
  ASSUME IndexInv, NEW i \in Indexers, NEW f \in Files,
         SkipFile(i, f) \/ SkipUnreadable(i, f)
  PROVE  IndexInv'
<1>1. indexer[i] \in Runs
  BY DEF IndexInv, RagTypes
<1>2. CASE SkipFile(i, f)
  <2>1. indexer[i].calm \in BOOLEAN
    BY <1>1 DEF Runs
  <2>2. [indexer[i] EXCEPT !.todo = @ \ {f}]
          = [indexer[i] EXCEPT !.todo = @ \ {f}, !.calm = indexer[i].calm]
    BY <1>1 DEF Runs
  <2>3. indexer' = [indexer EXCEPT ![i].todo = @ \ {f}, ![i].calm = indexer[i].calm]
    BY <1>2, <2>2 DEF SkipFile
  <2>4. f \notin FrontMatter \cap OnDisk
    BY <1>2 DEF SkipFile, OnDisk, IndexInv, RagTypes
  <2>5. QED BY <1>2, <2>1, <2>3, <2>4, SkipStep DEF SkipFile, IsNext
<1>3. CASE SkipUnreadable(i, f)
  BY <1>3, SkipStep DEF SkipUnreadable, IsNext
<1>4. QED BY <1>2, <1>3

(* A run stores what it has read.                                          *)
LEMMA UpsertStep ==
  ASSUME IndexInv, NEW i \in Indexers, Upsert(i)
  PROVE  IndexInv'
<1>1. In(i, "upsert") /\ ~In(i, "idle")
  BY DEF Upsert, In
<1>2. PICK old : old = indexer[i]
  OBVIOUS
<1>3. old \in Runs /\ old.file \in Scope(old) \cap Files /\ old.pc = "upsert"
  BY <1>1, <1>2, RunFacts DEF In
<1>4. store' = [store EXCEPT ![old.file] = [version |-> old.read, embedder |-> old.embedder]]
  BY <1>2 DEF Upsert
<1>5. UNCHANGED <<version, synced>>
  BY DEF Upsert
<1>6. old.read \in Int /\ old.embedder \in Embedders \cup {"none"}
  BY <1>3 DEF Runs
<1>7. store' \in [Files -> [version: Int, embedder: Embedders \cup {"none"}]]
  BY <1>4, <1>6 DEF IndexInv, RagTypes
<1>8. \A f \in Files \ Scope(indexer[i]) : store'[f] = store[f]
  BY <1>2, <1>3, <1>4 DEF IndexInv, RagTypes
<1>9. CASE old.all
  <2>1. indexer' = [indexer EXCEPT ![i] = IdleIndexer]
    BY <1>2, <1>9 DEF Upsert
  <2>2. QED BY <1>1, <1>5, <1>7, <1>8, <2>1, IdleIsRun, RunStep
<1>10. CASE ~old.all
  <2>1. PICK run : run = [old EXCEPT !.pc = "walk", !.file = 0, !.read = 0,
                                     !.kept = @ \cup {old.file}]
    OBVIOUS
  <2>2. indexer' = [indexer EXCEPT ![i] = run]
    BY <1>2, <1>10, <2>1 DEF Upsert
  <2>3. old.kept \subseteq old.root /\ old.todo \subseteq old.root /\ old.root \subseteq Files
    BY <1>1, <1>2, <1>3, RunFacts DEF Runs
  <2>4. /\ run \in Runs
        /\ run.pc = "walk" /\ run.kept = old.kept \cup {old.file}
        /\ run.todo = old.todo /\ run.root = old.root /\ run.all = old.all
        /\ run.calm = old.calm
    <3>1. PICK kept \in SUBSET Files : kept = old.kept \cup {old.file}
      BY <1>3 DEF Runs
    <3>2. PICK none \in Files \cup {0} : none = 0
      OBVIOUS
    <3>3. PICK zero \in Int : zero = 0
      OBVIOUS
    <3>4. run = [old EXCEPT !.pc = "walk", !.file = none, !.read = zero, !.kept = kept]
      BY <2>1, <3>1, <3>2, <3>3
    <3>5. old \in Runs
      BY <1>3
    <3>6. run \in Runs
      BY <3>4, <3>5 DEF Runs
    <3>7. /\ run.pc = "walk" /\ run.kept = kept
          /\ run.todo = old.todo /\ run.root = old.root /\ run.all = old.all
          /\ run.calm = old.calm
      BY <3>4, <3>5 DEF Runs
    <3>8. QED BY <3>1, <3>6, <3>7
  <2>5. old.file \in old.root
    BY <1>3, <1>10 DEF Scope
  <2>6. store'[old.file].version = old.read
    BY <1>3, <1>4 DEF IndexInv, RagTypes
  <2>7. \A f \in Files \ {old.file} : store'[f] = store[f]
    BY <1>4 DEF IndexInv, RagTypes
  <2>8. old.calm => Knows(old)
    BY <1>1, <1>2, RunFacts
  <2>9. run.calm => indexer[i].calm /\ Knows(run)'
    BY <1>2, <1>3, <1>5, <2>3, <2>4, <2>5, <2>6, <2>7, <2>8 DEF Knows, InHand, OnDisk
  <2>10. QED BY <1>1, <1>2, <1>5, <1>7, <1>8, <1>10, <2>2, <2>3, <2>4, <2>5, <2>9, RunStep
<1>11. QED BY <1>9, <1>10

(* A run that fails stores nothing and knows nothing.                      *)
LEMMA FailStep ==
  ASSUME IndexInv, NEW i \in Indexers, FailIndexing(i)
  PROVE  IndexInv'
<1>1. store' \in [Files -> [version: Int, embedder: Embedders \cup {"none"}]]
  BY DEF FailIndexing, IndexInv, RagTypes
<1>2. ~In(i, "idle")
  BY DEF FailIndexing, In
<1>3. QED BY <1>1, <1>2, IdleIsRun, RunStep DEF FailIndexing

(* The end of a run over a directory.  If it was calm, what it kept is all *)
(* that is eligible, and what it did not keep goes.                        *)
LEMMA PruneStep ==
  ASSUME IndexInv, NEW i \in Indexers, Prune(i)
  PROVE  IndexInv'
<1> DEFINE old == indexer[i]
<1>1. In(i, "walk") /\ ~In(i, "idle") /\ old.todo = {}
  BY DEF Prune, In
<1>2. old \in Runs /\ ~old.all /\ old.kept \subseteq old.root /\ Scope(old) = old.root
  BY <1>1, RunFacts DEF Scope
<1>3. store' = [f \in Files |-> IF f \in old.root \ old.kept THEN NoDocument ELSE store[f]]
  BY DEF Prune
<1>4. store' \in [Files -> [version: Int, embedder: Embedders \cup {"none"}]]
  BY <1>3, NoDocumentType DEF IndexInv, RagTypes
<1>5. indexer' = [indexer EXCEPT ![i] = IdleIndexer] /\ UNCHANGED version
  BY DEF Prune
<1>6. \A f \in Files \ Scope(old) : store'[f] = store[f]
  BY <1>2, <1>3
<1>7. CASE ~old.calm
  <2>1. synced' = synced
    BY <1>7 DEF Prune
  <2>2. QED BY <1>1, <1>4, <1>5, <1>6, <2>1, IdleIsRun, RunStep
<1>8. CASE old.calm
  <2>1. NoneBut(i) /\ Knows(old)
    BY <1>8 DEF IndexInv, CalmRuns
  <2>2. synced' = synced \cup old.root
    BY <1>8 DEF Prune
  <2>3. \A k \in Indexers : In(k, "idle")' /\ ~indexer'[k].calm
    <3>1. ASSUME NEW k \in Indexers \ {i}
          PROVE  In(k, "idle") /\ ~indexer[k].calm
      BY <2>1 DEF NoneBut, IndexInv, CalmRuns
    <3>2. QED BY <1>5, <3>1, IdleIsRun DEF IndexInv, RagTypes, In
  <2>4. RagTypes'
    BY <1>2, <1>4, <1>5, <2>2, IdleIsRun DEF IndexInv, RagTypes, Runs
  <2>5. ASSUME NEW f \in old.root
        PROVE  IF f \in FrontMatter \cap OnDisk THEN store'[f].version = version[f]
               ELSE store'[f] = NoDocument
    <3>1. f \in Files
      BY <1>2 DEF Runs
    <3>2. f \in FrontMatter \cap OnDisk <=> f \in old.kept
      BY <1>1, <2>1 DEF Knows, InHand, In
    <3>3. QED BY <1>3, <2>1, <3>1, <3>2 DEF Knows
  <2>6. ASSUME NEW f \in synced \ old.root
        PROVE  store'[f] = store[f]
    BY <1>2, <1>6 DEF IndexInv, RagTypes
  <2>7. SyncedIndexMatchesDisk'
    BY <1>5, <2>2, <2>5, <2>6 DEF IndexInv, SyncedIndexMatchesDisk, OnDisk, Stored
  <2>8. QED BY <2>3, <2>4, <2>7 DEF IndexInv, ScopesApart, CalmRuns
<1>9. QED BY <1>7, <1>8

-----------------------------------------------------------------------------
(* No step breaks the invariant.                                           *)
LEMMA NextIndexInv == IndexInv /\ [RagNext]_ragVars => IndexInv'
<1> SUFFICES ASSUME IndexInv, [RagNext]_ragVars
             PROVE  IndexInv'
  OBVIOUS
<1>1. \A f \in Files : version[f] \in Int
  BY DEF IndexInv, RagTypes
<1>2. ASSUME NEW f \in Files, WriteFile(f)
      PROVE  IndexInv'
  <2>1. PICK v \in Int : v = version[f] + 1
    BY <1>1
  <2>2. QED BY <1>2, <2>1, ChangeStep DEF WriteFile
<1>3. ASSUME NEW f \in Files, RemoveFile(f)
      PROVE  IndexInv'
  <2>1. PICK v \in Int : v = -version[f]
    BY <1>1
  <2>2. QED BY <1>3, <2>1, ChangeStep DEF RemoveFile
<1>4. ASSUME NEW f \in Files, RestoreFile(f)
      PROVE  IndexInv'
  <2>1. PICK v \in Int : v = 1 - version[f]
    BY <1>1
  <2>2. QED BY <1>4, <2>1, ChangeStep DEF RestoreFile
<1>5. CASE UNCHANGED ragVars
  BY <1>5 DEF ragVars, IndexInv, RagTypes, ScopesApart, CalmRuns, SyncedIndexMatchesDisk,
              Scope, Knows, InHand, In, NoneBut, OnDisk, Stored
<1>6. QED BY <1>2, <1>3, <1>4, <1>5, OpenStoreStep, StartDirectoryStep, StartFileStep, ReadFileStep,
             SkipFileStep, UpsertStep, FailStep, PruneStep DEF RagNext

(* The types of the index and of its runs, and the promise of              *)
(* index_directory, that the store stays in sync with what is eligible on  *)
(* disk: for every number of files, directories, embedders and overlapping *)
(* runs.                                                                   *)
THEOREM IndexInvAlways == RagSpec => []IndexInv
<1>1. QED BY InitIndexInv, NextIndexInv, PTL DEF RagSpec

(* What a run that nothing disturbed has left in step with the disk stays  *)
(* so until the file changes or another run works on it: the promise of    *)
(* index_directory, whatever later runs over other directories do.         *)
THEOREM IndexMatchesDisk == RagSpec => []SyncedIndexMatchesDisk
<1>1. IndexInv => SyncedIndexMatchesDisk
  BY DEF IndexInv
<1>2. QED BY <1>1, IndexInvAlways, PTL

-----------------------------------------------------------------------------
(***************************************************************************)
(* One space.  What a calm run has kept has its embedder, and so has the   *)
(* meta table as soon as it has kept anything; what it has not kept goes   *)
(* when it ends.                                                           *)
(***************************************************************************)
OneSpace(run) ==
  run.calm =>
    /\ run.embedder \in Embedders
    /\ \A f \in run.kept : store[f].embedder = run.embedder /\ meta = run.embedder

SpaceInv == \A i \in Indexers : OneSpace(indexer[i])

(* The runs that a step leaves calm as they are.                           *)
LEMMA SpaceStays ==
  ASSUME SpaceInv, NEW i \in Indexers, UNCHANGED <<store, meta>>,
         indexer'[i].calm =>
           /\ indexer[i].calm
           /\ indexer'[i].kept \subseteq indexer[i].kept
           /\ indexer'[i].embedder = indexer[i].embedder
  PROVE  OneSpace(indexer[i])'
BY DEF SpaceInv, OneSpace

(* A run that is changed alone, and nothing of the store.                  *)
LEMMA RunStaysInSpace ==
  ASSUME IndexInv, SpaceInv, UNCHANGED <<store, meta>>, NEW i \in Indexers, NEW run,
         indexer' = [indexer EXCEPT ![i] = run],
         run.calm => /\ indexer[i].calm /\ run.kept \subseteq indexer[i].kept
                     /\ run.embedder = indexer[i].embedder
  PROVE  SpaceInv'
<1>1. indexer'[i] = run /\ \A k \in Indexers \ {i} : indexer'[k] = indexer[k]
  BY DEF IndexInv, RagTypes
<1>2. \A k \in Indexers : OneSpace(indexer[k])'
  BY <1>1, SpaceStays
<1>3. QED BY <1>2 DEF SpaceInv

(* A file that changes takes the calm from the runs whose root holds it.   *)
LEMMA ChangeKeepsSpace ==
  ASSUME IndexInv, SpaceInv, NEW f \in Files, indexer' = Disturbed(f), UNCHANGED <<store, meta>>
  PROVE  SpaceInv'
<1>1. ASSUME NEW i \in Indexers
      PROVE  /\ indexer'[i].calm => indexer[i].calm
             /\ indexer'[i].kept = indexer[i].kept /\ indexer'[i].embedder = indexer[i].embedder
  <2>1. indexer[i] \in Runs /\ indexer'[i] = [indexer[i] EXCEPT !.calm = @ /\ f \notin indexer[i].root]
    BY DEF IndexInv, RagTypes, Disturbed
  <2>2. indexer'[i].embedder = indexer[i].embedder
    BY <2>1 DEF Runs
  <2>3. QED BY <2>2, DisturbedRuns
<1>2. \A i \in Indexers : OneSpace(indexer[i])'
  BY <1>1, SpaceStays
<1>3. QED BY <1>2 DEF SpaceInv

(* A run that starts has kept nothing, and takes the calm from the others.  *)
LEMMA StartKeepsSpace ==
  ASSUME IndexInv, SpaceInv, NEW i \in Indexers, NEW run, indexer' = Started(i, run),
         run.calm => run.kept = {} /\ run.embedder \in Embedders
  PROVE  SpaceInv'
<1>1. indexer'[i] = run
  BY DEF Started
<1>2. ASSUME NEW k \in Indexers \ {i}
      PROVE  ~indexer'[k].calm
  <2>1. indexer[k] \in Runs /\ indexer'[k] = [indexer[k] EXCEPT !.calm = FALSE]
    BY DEF IndexInv, RagTypes, Started
  <2>2. QED BY <2>1 DEF Runs
<1>3. \A k \in Indexers : OneSpace(indexer[k])'
  BY <1>1, <1>2 DEF OneSpace
<1>4. QED BY <1>3 DEF SpaceInv

(* While a run is at work that is not calm, none is.                       *)
LEMMA NoOtherIsCalm ==
  ASSUME IndexInv, NEW i \in Indexers, ~In(i, "idle"), NEW k \in Indexers \ {i}
  PROVE  ~indexer[k].calm
BY DEF IndexInv, CalmRuns, NoneBut

(* What a run upserts has its embedder, and so has the meta table then.    *)
LEMMA UpsertKeepsSpace ==
  ASSUME IndexInv, SpaceInv, NEW i \in Indexers, Upsert(i)
  PROVE  SpaceInv'
<1>1. In(i, "upsert") /\ ~In(i, "idle") /\ indexer \in [Indexers -> Runs]
  BY DEF Upsert, In, IndexInv, RagTypes
<1>2. PICK old \in Runs : old = indexer[i] /\ old.file \in Files
  BY <1>1, RunFacts
<1>3. /\ store' = [store EXCEPT ![old.file] = [version |-> old.read, embedder |-> old.embedder]]
      /\ meta' = old.embedder
  BY <1>2 DEF Upsert
<1>4. \A k \in Indexers \ {i} : indexer'[k] = indexer[k] /\ ~indexer'[k].calm
  <2>1. \A k \in Indexers \ {i} : indexer'[k] = indexer[k]
    BY <1>1 DEF Upsert
  <2>2. QED BY <1>1, <2>1, NoOtherIsCalm
<1>5. CASE old.all
  <2>1. indexer'[i] = IdleIndexer
    BY <1>1, <1>2, <1>5 DEF Upsert
  <2>2. \A k \in Indexers : ~indexer'[k].calm
    BY <1>4, <2>1, IdleIsRun
  <2>3. \A k \in Indexers : OneSpace(indexer[k])'
    BY <2>2 DEF OneSpace
  <2>4. QED BY <2>3 DEF SpaceInv
<1>6. CASE ~old.all
  <2>1. indexer'[i] = [old EXCEPT !.pc = "walk", !.file = 0, !.read = 0, !.kept = @ \cup {old.file}]
    BY <1>1, <1>2, <1>6 DEF Upsert
  <2>2. /\ indexer'[i].kept = old.kept \cup {old.file} /\ indexer'[i].embedder = old.embedder
        /\ indexer'[i].calm = old.calm
    BY <2>1 DEF Runs
  <2>3. store \in [Files -> [version: Int, embedder: Embedders \cup {"none"}]] /\ old.kept \subseteq Files
    BY DEF IndexInv, RagTypes, Runs
  <2>4. store'[old.file].embedder = old.embedder /\ \A f \in Files \ {old.file} : store'[f] = store[f]
    BY <1>2, <1>3, <2>3
  <2>5. old.calm => \A f \in old.kept : store[f].embedder = old.embedder
    BY <1>2 DEF SpaceInv, OneSpace
  <2>10. old.calm => old.embedder \in Embedders
    BY <1>2 DEF SpaceInv, OneSpace
  <2>6. OneSpace(indexer[i])'
    <3>1. SUFFICES ASSUME old.calm, NEW f \in old.kept \cup {old.file}
                   PROVE  store'[f].embedder = old.embedder
      BY <1>3, <2>2, <2>10 DEF OneSpace
    <3>2. CASE f = old.file
      BY <2>4, <3>2
    <3>3. CASE f # old.file
      BY <2>3, <2>4, <2>5, <3>1, <3>3
    <3>4. QED BY <3>2, <3>3
  <2>7. \A k \in Indexers \ {i} : OneSpace(indexer[k])'
    BY <1>4 DEF OneSpace
  <2>8. QED BY <2>6, <2>7 DEF SpaceInv
<1>7. QED BY <1>5, <1>6

(* A run that prunes ends, and no other is calm.                           *)
LEMMA PruneKeepsSpace ==
  ASSUME IndexInv, SpaceInv, NEW i \in Indexers, Prune(i)
  PROVE  SpaceInv'
<1>1. ~In(i, "idle") /\ indexer \in [Indexers -> Runs]
  BY DEF Prune, In, IndexInv, RagTypes
<1>2. indexer'[i] = IdleIndexer /\ \A k \in Indexers \ {i} : indexer'[k] = indexer[k]
  BY <1>1 DEF Prune
<1>3. \A k \in Indexers : ~indexer'[k].calm
  BY <1>1, <1>2, NoOtherIsCalm, IdleIsRun
<1>4. \A k \in Indexers : OneSpace(indexer[k])'
  BY <1>3 DEF OneSpace
<1>5. QED BY <1>4 DEF SpaceInv

(* Where a calm run has kept a document, there are vectors.                *)
LEMMA OpenKeepsSpace ==
  ASSUME IndexInv, SpaceInv, OpenStore
  PROVE  SpaceInv'
<1>1. store' = Opened(Hashing) /\ UNCHANGED <<indexer, meta>>
  BY DEF OpenStore
<1>2. ASSUME NEW i \in Indexers PROVE OneSpace(indexer[i])'
  <2>1. CASE indexer[i].calm /\ indexer[i].kept # {}
    <3>1. PICK f \in indexer[i].kept : store[f].embedder \in Embedders
      BY <1>2, <2>1 DEF SpaceInv, OneSpace
    <3>2. f \in Files
      BY <1>2, <3>1 DEF IndexInv, RagTypes, Runs
    <3>3. store[f].embedder # "none"
      BY <3>1, EmbedderAssumption
    <3>4. f \in Stored
      BY <3>2, <3>3 DEF Stored, NoDocument
    <3>5. store' = store
      BY <1>1, <3>3, <3>4 DEF Opened
    <3>6. QED BY <1>1, <1>2, <3>5 DEF SpaceInv, OneSpace
  <2>2. CASE ~(indexer[i].calm /\ indexer[i].kept # {})
    BY <1>1, <1>2, <2>2 DEF SpaceInv, OneSpace
  <2>3. QED BY <2>1, <2>2
<1>3. QED BY <1>2 DEF SpaceInv

(* No step of the index breaks it.                                         *)
LEMMA NextSpaceInv == IndexInv /\ SpaceInv /\ [RagNext]_ragVars => SpaceInv'
<1> SUFFICES ASSUME IndexInv, SpaceInv, [RagNext]_ragVars
             PROVE  SpaceInv'
  OBVIOUS
<1>1. ASSUME NEW i \in Indexers
      PROVE  indexer[i] \in Runs
  BY DEF IndexInv, RagTypes
<1>2. ASSUME NEW f \in Files, WriteFile(f) \/ RemoveFile(f) \/ RestoreFile(f)
      PROVE  SpaceInv'
  BY <1>2, ChangeKeepsSpace DEF WriteFile, RemoveFile, RestoreFile
<1>3. ASSUME NEW i \in Indexers, NEW root \in Roots, NEW e \in Embedders, StartDirectory(i, root, e)
      PROVE  SpaceInv'
  <2>1. PICK run : run = [IdleIndexer EXCEPT !.pc = "walk", !.root = root, !.todo = root \cap OnDisk,
                                             !.embedder = e, !.calm = NoneBut(i)]
    OBVIOUS
  <2>2. run.kept = {} /\ run.embedder \in Embedders
    BY <2>1, IdleIsRun DEF IdleIndexer
  <2>3. indexer' = Started(i, run)
    BY <1>3, <2>1 DEF StartDirectory
  <2>4. QED BY <2>2, <2>3, StartKeepsSpace
<1>4. ASSUME NEW i \in Indexers, NEW f \in Files, NEW e \in Embedders, StartFile(i, f, e)
      PROVE  SpaceInv'
  <2>1. PICK run : run = [IdleIndexer EXCEPT !.pc = "upsert", !.file = f, !.read = version[f],
                                             !.embedder = e, !.all = TRUE]
    OBVIOUS
  <2>2. run.kept = {} /\ run.embedder \in Embedders
    BY <2>1, IdleIsRun DEF IdleIndexer
  <2>3. indexer' = Started(i, run)
    BY <1>4, <2>1 DEF StartFile
  <2>4. QED BY <2>2, <2>3, StartKeepsSpace
<1>5. ASSUME NEW i \in Indexers, NEW f \in Files, ReadFile(i, f) PROVE SpaceInv'
  <2>1. PICK run : run = [indexer[i] EXCEPT !.pc = "upsert", !.file = f, !.read = version[f],
                                            !.todo = @ \ {f}]
    OBVIOUS
  <2>2. indexer' = [indexer EXCEPT ![i] = run] /\ UNCHANGED <<store, meta>>
    BY <1>5, <2>1 DEF ReadFile
  <2>3. /\ run.kept = indexer[i].kept /\ run.embedder = indexer[i].embedder
        /\ run.calm = indexer[i].calm
    BY <1>1, <2>1 DEF Runs
  <2>4. QED BY <2>2, <2>3, RunStaysInSpace
<1>6. ASSUME NEW i \in Indexers, NEW f \in Files, SkipFile(i, f) PROVE SpaceInv'
  <2>1. PICK run : run = [indexer[i] EXCEPT !.todo = @ \ {f}]
    OBVIOUS
  <2>2. indexer' = [indexer EXCEPT ![i] = run] /\ UNCHANGED <<store, meta>>
    BY <1>6, <2>1 DEF SkipFile
  <2>3. /\ run.kept = indexer[i].kept /\ run.embedder = indexer[i].embedder
        /\ run.calm = indexer[i].calm
    BY <1>1, <2>1 DEF Runs
  <2>4. QED BY <2>2, <2>3, RunStaysInSpace
<1>7. ASSUME NEW i \in Indexers, NEW f \in Files, SkipUnreadable(i, f) PROVE SpaceInv'
  <2>1. PICK run : run = [indexer[i] EXCEPT !.todo = @ \ {f}, !.calm = FALSE]
    OBVIOUS
  <2>2. indexer' = [indexer EXCEPT ![i] = run] /\ UNCHANGED <<store, meta>>
    BY <1>7, <2>1 DEF SkipUnreadable
  <2>3. ~run.calm
    BY <1>1, <2>1 DEF Runs
  <2>4. QED BY <2>2, <2>3, RunStaysInSpace
<1>8. ASSUME NEW i \in Indexers, FailIndexing(i) PROVE SpaceInv'
  <2>1. indexer' = [indexer EXCEPT ![i] = IdleIndexer] /\ UNCHANGED <<store, meta>>
    BY <1>8 DEF FailIndexing
  <2>2. QED BY <2>1, RunStaysInSpace, IdleIsRun
<1>9. CASE UNCHANGED ragVars
  <2>1. UNCHANGED <<store, meta, indexer>>
    BY <1>9 DEF ragVars
  <2>2. \A i \in Indexers : OneSpace(indexer[i])'
    BY <2>1, SpaceStays
  <2>3. QED BY <2>2 DEF SpaceInv
<1>10. QED BY <1>2, <1>3, <1>4, <1>5, <1>6, <1>7, <1>8, <1>9, OpenKeepsSpace, UpsertKeepsSpace,
              PruneKeepsSpace DEF RagNext

(* Only the prune at its end takes a run from its walk to rest.            *)
LEMMA WalkEndsInPrune ==
  ASSUME IndexInv, RagNext, NEW i \in Indexers, In(i, "walk"), indexer'[i].pc = "idle"
  PROVE  Prune(i)
<1>1. \A k \in Indexers : indexer[k] \in Runs
  BY DEF IndexInv, RagTypes
<1>2. ASSUME NEW f \in Files, WriteFile(f) \/ RemoveFile(f) \/ RestoreFile(f)
      PROVE  FALSE
  <2>1. indexer' = Disturbed(f)
    BY <1>2 DEF WriteFile, RemoveFile, RestoreFile
  <2>2. QED BY <2>1, DisturbedRuns DEF In
<1>3. ASSUME NEW k \in Indexers, NEW run, indexer' = Started(k, run), In(k, "idle")
      PROVE  FALSE
  <2>1. k # i
    BY <1>3 DEF In
  <2>2. indexer'[i] = [indexer[i] EXCEPT !.calm = FALSE]
    BY <1>3, <2>1 DEF Started
  <2>3. indexer'[i].pc = indexer[i].pc
    BY <1>1, <2>2 DEF Runs
  <2>4. QED BY <2>3 DEF In
<1>4. ASSUME NEW k \in Indexers, NEW root \in Roots, NEW e \in Embedders, StartDirectory(k, root, e)
      PROVE  FALSE
  BY <1>3, <1>4 DEF StartDirectory
<1>5. ASSUME NEW k \in Indexers, NEW f \in Files, NEW e \in Embedders, StartFile(k, f, e)
      PROVE  FALSE
  BY <1>3, <1>5 DEF StartFile
<1>6. ASSUME NEW k \in Indexers, NEW f \in Files,
             ReadFile(k, f) \/ SkipFile(k, f) \/ SkipUnreadable(k, f)
      PROVE  FALSE
  <2>1. k # i => indexer'[i] = indexer[i]
    BY <1>6 DEF ReadFile, SkipFile, SkipUnreadable, IndexInv, RagTypes
  <2>2. k = i => indexer'[i].pc \in {"walk", "upsert"}
    BY <1>1, <1>6 DEF ReadFile, SkipFile, SkipUnreadable, In, IndexInv, RagTypes, Runs
  <2>3. QED BY <2>1, <2>2 DEF In
<1>7. ASSUME NEW k \in Indexers, Upsert(k) \/ FailIndexing(k)
      PROVE  FALSE
  <2>1. In(k, "upsert") /\ k # i
    BY <1>7 DEF Upsert, FailIndexing, In
  <2>2. indexer'[i] = indexer[i]
    BY <1>7, <2>1 DEF Upsert, FailIndexing, IndexInv, RagTypes
  <2>3. QED BY <2>2 DEF In
<1>8. ASSUME NEW k \in Indexers, Prune(k)
      PROVE  k = i
  <2>1. k # i => indexer'[i] = indexer[i]
    BY <1>8 DEF Prune, IndexInv, RagTypes
  <2>2. QED BY <2>1 DEF In
<1>9. OpenStore => FALSE
  BY DEF OpenStore, In
<1>10. QED BY <1>2, <1>4, <1>5, <1>6, <1>7, <1>8, <1>9 DEF RagNext

(* A rebuild with the wanted embedder brings every vector into the space   *)
(* that rag_meta names, when no other run overlaps it, its files do not    *)
(* change meanwhile, and its directory holds all that is stored.           *)
THEOREM RebuildsRestoreSpace == RagSpec => RebuildRestoresSpace
<1>1. RagInit => SpaceInv
  BY IdleIsRun DEF RagInit, SpaceInv, OneSpace
<1>2. RagSpec => []SpaceInv
  BY <1>1, IndexInvAlways, NextSpaceInv, PTL DEF RagSpec
<1>3. ASSUME IndexInv, SpaceInv, RagNext, NEW i \in Indexers,
             In(i, "walk"), indexer'[i].pc = "idle", indexer[i].calm,
             Stored' \subseteq indexer[i].root
      PROVE  SearchOneSpace'
  <2>1. Prune(i)
    BY <1>3, WalkEndsInPrune
  <2>2. /\ store' = [f \in Files |-> IF f \in indexer[i].root \ indexer[i].kept
                                       THEN NoDocument ELSE store[f]]
        /\ meta' = meta
    BY <2>1 DEF Prune
  <2>3. SUFFICES ASSUME NEW f \in Files, store'[f] # NoDocument PROVE store'[f].embedder = meta
    BY <2>2 DEF SearchOneSpace, Stored
  <2>4. f \in indexer[i].kept /\ store'[f] = store[f]
    BY <1>3, <2>2, <2>3 DEF Stored
  <2>5. QED BY <1>3, <2>4 DEF SpaceInv, OneSpace
<1>4. ASSUME IndexInv, SpaceInv, [RagNext]_ragVars
      PROVE  [\A i \in Indexers :
                /\ In(i, "walk") /\ indexer'[i].pc = "idle"
                /\ indexer[i].calm
                /\ Stored' \subseteq indexer[i].root
                => SearchOneSpace']_ragVars
  BY <1>3, <1>4
<1>5. QED BY <1>2, <1>4, IndexInvAlways, PTL DEF RagSpec, RebuildRestoresSpace

-----------------------------------------------------------------------------
(***************************************************************************)
(* The saved simulations, for any set of records and any number of         *)
(* clients.                                                                *)
(*                                                                         *)
(* SimulationsKept speaks of threads at rest.  What makes it inductive is  *)
(* what a thread between its read and its write holds: as long as no two   *)
(* of them have overlapped, at most one client is not at rest, and the     *)
(* list it is about to write is what the history will say once the request *)
(* is answered.                                                            *)
(***************************************************************************)

Threads == [pc: {"rest", "open", "write"}, list: SUBSET Records,
            record: SUBSET Records, crossed: BOOLEAN]

(* A client's list is what the answered requests leave with its own.       *)
ListFits(c) ==
  client[c].list = (answered \ client[c].record) \cup (client[c].list \cap client[c].record)

Alone(c) == \A d \in Clients \ {c} : Rests(d)

SimInv ==
  /\ client \in [Clients -> Threads]
  /\ ~mixed /\ ~cut =>
       /\ \A c \in Clients : ~Rests(c) => /\ ListFits(c)
                                          /\ Alone(c)
                                          /\ ~client[c].crossed
       /\ (\A c \in Clients : client[c].pc # "write") => file.records = answered

-----------------------------------------------------------------------------
(* It holds at the start.                                                  *)
LEMMA InitSimInv == SimInit => SimInv
BY DEF SimInit, SimInv, Threads, Resting, Rests, Absent

(* A thread that takes up a request: when it does not overlap another, its *)
(* list is made of what the answered requests left.                        *)
LEMMA BeginStep ==
  ASSUME SimInv, NEW c \in Clients, NEW r \in Records, NEW list \in SUBSET Records,
         Rests(c), Begin(c, list, r),
         list \in {file.records \cup {r}, file.records \ {r}},
         UNCHANGED <<file, answered, cut>>
  PROVE  SimInv'
<1>1. client' = [client EXCEPT ![c] = [pc |-> "open", list |-> list, record |-> {r},
                                       crossed |-> FALSE]]
  BY DEF Begin
<1>2. client' \in [Clients -> Threads]
  BY <1>1 DEF SimInv, Threads
<1>3. ASSUME ~mixed', ~cut'
      PROVE  /\ \A d \in Clients : ~Rests(d)' => ListFits(d)' /\ Alone(d)' /\ ~client'[d].crossed
             /\ (\A d \in Clients : client'[d].pc # "write") => file'.records = answered'
  <2>1. ~mixed /\ ~cut /\ \A d \in Clients \ {c} : Rests(d)
    BY <1>3 DEF Begin
  <2>2. file.records = answered
    BY <2>1 DEF SimInv, Rests
  <2>3. \A d \in Clients \ {c} : client'[d] = client[d]
    BY <1>1 DEF SimInv
  <2>4. client'[c] = [pc |-> "open", list |-> list, record |-> {r}, crossed |-> FALSE]
    BY <1>1 DEF SimInv
  <2>5. list = (answered \ {r}) \cup (list \cap {r})
    BY <2>2
  <2>6. ListFits(c)' /\ Alone(c)' /\ ~client'[c].crossed
    BY <2>1, <2>3, <2>4, <2>5 DEF ListFits, Alone, Rests
  <2>7. QED BY <2>1, <2>2, <2>3, <2>6 DEF Rests
<1>4. QED BY <1>2, <1>3 DEF SimInv

(* A thread empties the file, which then no history speaks of.             *)
LEMMA OpenStep ==
  ASSUME SimInv, NEW c \in Clients, Open(c)
  PROVE  SimInv'
<1>1. client' \in [Clients -> Threads]
  <2>1. client[c] \in Threads
    BY DEF SimInv
  <2>2. [client[c] EXCEPT !.pc = "write", !.crossed = FALSE] \in Threads
    BY <2>1 DEF Threads
  <2>3. client' = [client EXCEPT ![c] = [client[c] EXCEPT !.pc = "write", !.crossed = FALSE]]
    BY DEF SimInv, Open
  <2>4. QED BY <2>2, <2>3 DEF SimInv
<1>2. client'[c].pc = "write" /\ client'[c].list = client[c].list
        /\ client'[c].record = client[c].record /\ ~client'[c].crossed
  BY DEF SimInv, Open
<1>3. \A d \in Clients \ {c} : client'[d] = client[d]
  BY DEF SimInv, Open
<1>4. ~Rests(c)
  BY DEF Open, Rests
<1>5. ASSUME ~mixed', ~cut'
      PROVE  /\ \A d \in Clients : ~Rests(d)' => ListFits(d)' /\ Alone(d)' /\ ~client'[d].crossed
             /\ (\A d \in Clients : client'[d].pc # "write") => file'.records = answered'
  <2>1. ListFits(c) /\ Alone(c)
    BY <1>4, <1>5 DEF SimInv, Open
  <2>2. ListFits(c)' /\ Alone(c)'
    BY <1>2, <1>3, <2>1 DEF ListFits, Alone, Rests, Open
  <2>3. \A d \in Clients \ {c} : Rests(d)'
    BY <1>3, <2>1 DEF Alone, Rests
  <2>4. QED BY <1>2, <2>2, <2>3
<1>6. QED BY <1>1, <1>5 DEF SimInv

(* The thread that writes alone leaves the file and the history the same.  *)
LEMMA CloseStep ==
  ASSUME SimInv, NEW c \in Clients, Close(c)
  PROVE  SimInv'
<1>1. client'[c] = Resting
  BY DEF Close
<1>2. \A d \in Clients \ {c} :
        client'[d] = [client[d] EXCEPT !.crossed = @ \/ client[d].pc = "write"]
  BY DEF Close
<1>3. client' \in [Clients -> Threads]
  <2>1. Resting \in Threads
    BY DEF Threads, Resting
  <2>2. ASSUME NEW d \in Clients
        PROVE  [client[d] EXCEPT !.crossed = @ \/ client[d].pc = "write"] \in Threads
    <3>1. client[d] \in Threads
      BY DEF SimInv
    <3>2. (client[d].crossed \/ client[d].pc = "write") \in BOOLEAN
      OBVIOUS
    <3>3. QED BY <3>1, <3>2 DEF Threads
  <2>3. QED BY <2>1, <2>2 DEF Close
<1>4. ~Rests(c)
  BY DEF Close, Rests
<1>5. ASSUME ~mixed', ~cut'
      PROVE  /\ \A d \in Clients : Rests(d)'
             /\ file'.records = answered'
  <2>1. ListFits(c) /\ Alone(c) /\ ~client[c].crossed
    BY <1>4, <1>5 DEF SimInv, Close
  <2>2. file'.records = client[c].list
    BY <2>1 DEF Close, List
  <2>3. \A d \in Clients \ {c} : client'[d].pc = client[d].pc
    BY <1>2 DEF SimInv, Threads
  <2>4. \A d \in Clients : Rests(d)'
    BY <1>1, <2>1, <2>3 DEF Alone, Rests, Resting
  <2>5. QED BY <2>1, <2>2, <2>4 DEF ListFits, Close
<1>6. QED BY <1>3, <1>5 DEF SimInv

(* A stop outside a write changes nothing but the threads.                 *)
LEMMA StopStep ==
  ASSUME SimInv, StopProcess
  PROVE  SimInv'
<1>1. \A d \in Clients : client'[d] = Resting
  BY DEF StopProcess
<1>2. client' \in [Clients -> Threads]
  BY <1>1 DEF StopProcess, Threads, Resting
<1>3. ASSUME ~mixed', ~cut'
      PROVE  file'.records = answered'
  <2>1. ~mixed /\ ~cut /\ \A d \in Clients : client[d].pc # "write"
    BY <1>3 DEF StopProcess
  <2>2. QED BY <2>1 DEF SimInv, StopProcess
<1>4. \A d \in Clients : Rests(d)'
  BY <1>1 DEF Rests, Resting
<1>5. QED BY <1>2, <1>3, <1>4 DEF SimInv

(* Every step keeps the invariant, if the file only ever holds records.    *)
FileType == file \in [is: {"absent", "garbled", "list"}, records: SUBSET Records]

(* No step of a request breaks it.                                         *)
LEMMA StepSimInv == SimInv /\ FileType /\ [SimNext]_simVars => SimInv' /\ FileType'
<1> SUFFICES ASSUME SimInv, FileType, [SimNext]_simVars
             PROVE  SimInv' /\ FileType'
  OBVIOUS
<1>1. ASSUME NEW c \in Clients, NEW r \in Records, Save(c, r)
      PROVE  SimInv' /\ FileType'
  <2>1. file.records \cup {r} \in SUBSET Records
    BY DEF FileType
  <2>2. SimInv'
    BY <1>1, <2>1, BeginStep DEF Save, Existing
  <2>3. QED BY <1>1, <2>2 DEF Save, FileType
<1>2. ASSUME NEW c \in Clients, NEW r \in Records, Delete(c, r)
      PROVE  SimInv' /\ FileType'
  <2>1. file.records \ {r} \in SUBSET Records
    BY DEF FileType
  <2>2. SimInv'
    BY <1>2, <2>1, BeginStep DEF Delete
  <2>3. QED BY <1>2, <2>2 DEF Delete, FileType
<1>3. ASSUME NEW c \in Clients, Open(c)
      PROVE  SimInv' /\ FileType'
  BY <1>3, OpenStep DEF Open, FileType, Garbled
<1>4. ASSUME NEW c \in Clients, Close(c)
      PROVE  SimInv' /\ FileType'
  <2>1. client[c].list \in SUBSET Records
    BY DEF SimInv, Threads
  <2>2. QED BY <1>4, <2>1, CloseStep DEF Close, FileType, Garbled, List
<1>5. CASE StopProcess
  BY <1>5, StopStep DEF StopProcess, FileType
<1>6. CASE UNCHANGED simVars
  BY <1>6 DEF simVars, SimInv, FileType, ListFits, Alone, Rests
<1>7. QED BY <1>1, <1>2, <1>3, <1>4, <1>5, <1>6 DEF SimNext

-----------------------------------------------------------------------------
(* The types of the file and of the threads, and what a thread in progress *)
(* holds: for every set of records and any number of clients.              *)
THEOREM SimInvAlways == SimSpec => [](SimInv /\ FileType)
<1>1. SimInit => SimInv /\ FileType
  BY InitSimInv DEF SimInit, FileType, Absent
<1>2. QED BY <1>1, StepSimInv, PTL DEF SimSpec

(* The saved simulations are those whose save was answered and that were   *)
(* not deleted since, whatever _save_simulation and _delete_simulation are *)
(* asked, unless two writes overlapped or one was cut off.                 *)
THEOREM SimulationsAreKept == SimSpec => []SimulationsKept
<1>1. SimInv => SimulationsKept
  BY DEF SimInv, SimulationsKept, Rests
<1>2. QED BY <1>1, SimInvAlways, PTL

=============================================================================
