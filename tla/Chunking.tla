------------------------------- MODULE Chunking -------------------------------
(***************************************************************************)
(* How a document is cut into the pieces that are indexed                  *)
(* (rupsaa/rag/chunker.py).  A text is the sequence of the lengths of its  *)
(* paragraphs; a piece is [paragraph, from, to], the characters from+1 to  *)
(* to of a paragraph, and a chunk is a sequence of pieces, joined by two   *)
(* line feeds.  Sizes in characters; each pass of a loop is a step.        *)
(***************************************************************************)
EXTENDS Integers, Sequences, SequencesExt

CONSTANTS
    ChunkTexts,          \* the texts that may come in
    ChunkSize,      \* chunk_size_chars
    Overlaps        \* what chunk_overlap_chars may be set to

VARIABLES
    text, overlap,
    at,             \* the paragraph in hand
    start,          \* where the next slice of it begins, or Whole
    buffer,         \* the chunk being filled
    chunks,         \* those that are closed
    verdict         \* "cutting", "done" or "refused"
chunkVars == <<text, overlap, at, start, buffer, chunks, verdict>>

Whole == -1
Separator == 2
Length(chunk) == FoldSeq(LAMBDA piece, n : n + piece.to - piece.from, 0, chunk)
                   + IF chunk = <<>> THEN 0 ELSE Separator * (Len(chunk) - 1)
Paragraph(p) == [paragraph |-> p, from |-> 0, to |-> text[p]]
Smaller(a, b) == IF a < b THEN a ELSE b

\* Mutant of MayCut: any overlap is accepted.
MayCutAnyOverlap(o) == TRUE

\* chunk_text refuses an overlap that would keep a slice from moving on.
MayCut(o) == o < ChunkSize

ChunkInit ==
  /\ text \in ChunkTexts /\ overlap \in Overlaps
  /\ at = 1 /\ start = Whole /\ buffer = <<>> /\ chunks = {}
  /\ verdict = IF MayCut(overlap) THEN "cutting" ELSE "refused"

Cutting == verdict = "cutting" /\ at <= Len(text) /\ UNCHANGED <<text, overlap>>

\* The paragraph still fits in the chunk that is being filled.
Join ==
  /\ Cutting /\ start = Whole
  /\ Length(Append(buffer, Paragraph(at))) <= ChunkSize
  /\ buffer' = Append(buffer, Paragraph(at)) /\ at' = at + 1
  /\ UNCHANGED <<start, chunks, verdict>>

\* Mutant of Flushed: what the buffer holds is dropped.
FlushedLate == chunks

\* It does not: the chunk is closed, and the paragraph opens the next one or is cut up.
Flushed == IF buffer = <<>> THEN chunks ELSE chunks \cup {buffer}
Open ==
  /\ Cutting /\ start = Whole
  /\ Length(Append(buffer, Paragraph(at))) > ChunkSize
  /\ chunks' = Flushed
  /\ IF text[at] <= ChunkSize
     THEN buffer' = <<Paragraph(at)>> /\ at' = at + 1 /\ UNCHANGED start
     ELSE buffer' = <<>> /\ start' = 0 /\ UNCHANGED at
  /\ UNCHANGED verdict

SliceUp ==
  /\ Cutting /\ start # Whole /\ start < text[at]
  /\ chunks' = chunks \cup {<<[paragraph |-> at, from |-> start, to |-> Smaller(start + ChunkSize, text[at])]>>}
  /\ start' = start + ChunkSize - overlap
  /\ UNCHANGED <<at, buffer, verdict>>

Sliced ==
  /\ Cutting /\ start >= text[at]
  /\ start' = Whole /\ at' = at + 1
  /\ UNCHANGED <<buffer, chunks, verdict>>

LastChunk ==
  /\ verdict = "cutting" /\ at > Len(text)
  /\ chunks' = Flushed /\ verdict' = "done"
  /\ UNCHANGED <<text, overlap, at, start, buffer>>

ChunkNext == Join \/ Open \/ SliceUp \/ Sliced \/ LastChunk
ChunkSpec == ChunkInit /\ [][ChunkNext]_chunkVars /\ WF_chunkVars(ChunkNext)

-----------------------------------------------------------------------------
(* Properties *)

\* Every character of the document is in the index, in chunks no longer than the limit: nothing that was still in the
\* buffer when a long paragraph came is dropped, and no slice starts behind the end of the one before.
NothingLost ==
  verdict = "done" =>
    /\ \A c \in chunks : Length(c) <= ChunkSize
    /\ \A p \in 1 .. Len(text) : \A i \in 1 .. text[p] :
         \E c \in chunks : \E piece \in ToSet(c) : piece.paragraph = p /\ piece.from < i /\ i <= piece.to

\* Cutting a document up ends, whatever overlap is configured, with all of it in the index.
ChunkingEnds == <>(verdict # "cutting" /\ NothingLost)
=============================================================================
