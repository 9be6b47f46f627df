------------------------------ MODULE Chunker ------------------------------
(***************************************************************************)
(* How a document becomes the chunks that are indexed, chunk_text of       *)
(* rag/chunker.py: a window of at most MaxChars characters, cut back to    *)
(* its last newline or else its last space, and the next window begun      *)
(* OverlapChars before the cut.                                            *)
(*                                                                         *)
(* Positions count from zero, as they do in the code.  A chunk is the set  *)
(* of the positions whose characters it holds, and the list of chunks is   *)
(* kept as a set: two equal chunks of the list are one here, and a loop    *)
(* that appends the same chunk forever is a cycle of states.               *)
(***************************************************************************)
EXTENDS Integers, Sequences

CONSTANTS
  Texts,          \* normalized texts, sequences of Characters
  Newline, Space, Letter,
  MaxChars,
  OverlapChars

Characters == {Newline, Space, Letter}

\* The sizes are those that the ValueErrors of chunk_text let through.
ASSUME TextsAssumption == Texts \subseteq Seq(Characters)
ASSUME SizesAssumption ==
  /\ MaxChars \in Nat \ {0}
  /\ OverlapChars \in Nat
  /\ OverlapChars < MaxChars

VARIABLES text, start, end, chunks, pc
chunkerVars == <<text, start, end, chunks, pc>>

Length       == Len(text)
Char(i)      == text[i + 1]
IsSolid(i)   == Char(i) = Letter

ChunkerInit ==
  /\ text \in Texts
  /\ start = 0
  /\ end = 0
  /\ chunks = {}
  /\ pc = IF Length = 0 THEN "done" ELSE "cut"

\* normalized.rfind(c, low, high), when it lies after low.
IsLastAfter(i, c, low, high) ==
  /\ i \in low + 1 .. high - 1
  /\ Char(i) = c
  /\ \A j \in i + 1 .. high - 1 : Char(j) # c

NoneAfter(c, low, high) == \A j \in low + 1 .. high - 1 : Char(j) # c

WindowEnd == IF start + MaxChars < Length THEN start + MaxChars ELSE Length

\* Where the window that begins at start ends.
IsCut(e) ==
  \/ /\ WindowEnd < Length
     /\ IsLastAfter(e, Newline, start, WindowEnd)
  \/ /\ WindowEnd < Length
     /\ NoneAfter(Newline, start, WindowEnd)
     /\ IsLastAfter(e, Space, start, WindowEnd)
  \/ /\ WindowEnd < Length => /\ NoneAfter(Newline, start, WindowEnd)
                              /\ NoneAfter(Space, start, WindowEnd)
     /\ e = WindowEnd

CutWindow ==
  /\ pc = "cut"
  /\ \E e \in start + 1 .. Length : IsCut(e) /\ end' = e
  /\ pc' = "emit"
  /\ UNCHANGED <<text, start, chunks>>

\* normalized[start:end].strip()
Stripped ==
  {i \in start .. end - 1 : /\ \E a \in start .. i   : IsSolid(a)
                            /\ \E b \in i .. end - 1 : IsSolid(b)}

(* Mutants: the next window begins after the cut, or MaxChars before it.   *)
NextStartPast == end + 1
NextStartFar  == IF end - MaxChars > 0 THEN end - MaxChars ELSE 0

NextStart == IF end - OverlapChars > 0 THEN end - OverlapChars ELSE 0

EmitChunk ==
  /\ pc = "emit"
  /\ chunks' = IF Stripped = {} THEN chunks ELSE chunks \cup {Stripped}
  /\ IF end < Length
       THEN pc' = "cut" /\ start' = NextStart
       ELSE pc' = "done" /\ UNCHANGED start
  /\ UNCHANGED <<text, end>>

ChunkerNext == CutWindow \/ EmitChunk

ChunkerSpec == ChunkerInit /\ [][ChunkerNext]_chunkerVars

\* The loop runs in one thread that nothing else stops.
FairChunkerSpec == ChunkerSpec /\ WF_chunkerVars(ChunkerNext)

-----------------------------------------------------------------------------
ChunkerTypeOK ==
  /\ text \in Texts
  /\ start \in 0 .. Length
  /\ end \in 0 .. Length
  /\ chunks \in SUBSET (SUBSET (0 .. Length - 1))
  /\ pc \in {"cut", "emit", "done"}

(* Nothing of a document is lost by cutting it: when chunk_text returns,   *)
(* each of its visible characters is in a chunk, whatever the lines, the   *)
(* spaces and the two sizes are.                                           *)
ChunksCoverText ==
  pc = "done" => \A i \in 0 .. Length - 1 : IsSolid(i) => \E c \in chunks : i \in c

(* docs/rag.md calls --max-chars the largest number of characters of a     *)
(* chunk; and no blank chunk gets into the index.                          *)
ChunksFit ==
  \A c \in chunks :
    /\ \A i, j \in c : j - i < MaxChars
    /\ \E i \in c : IsSolid(i)

\* No stretch of MaxChars - OverlapChars - 1 characters without a newline.
ShortLines ==
  LET reach == MaxChars - OverlapChars - 1
  IN  \A i \in 0 .. Length - reach :
        \E j \in i .. i + reach - 1 : Char(j) = Newline

(* A window of a text of short lines begins after the window before it,    *)
(* although the cut goes back and the overlap goes back once more.         *)
WindowsMoveOn ==
  [][ShortLines /\ pc = "emit" /\ pc' = "cut" => start' > start]_chunkerVars

(* So the chunking of a text of short lines comes to an end.               *)
ShortLinesEnd == ShortLines ~> pc = "done"

(* docs/rag.md says that rag-index cuts a local file into chunks and       *)
(* stores them; a call that never returns stores nothing.                  *)
ChunkingEnds == <>(pc = "done")

=============================================================================
