---- MODULE Chunker ----
(***************************************************************************)
(* chunk_text: a document's text is cut into chunks of bounded size, at    *)
(* paragraphs where they fit, else at sentences, else anywhere.  The       *)
(* characters of a text are numbered in their order; each paragraph has a  *)
(* newline before it.  A paragraph is given by the ends of its sentences,  *)
(* the last of which is its size.  A step is one round of a loop.          *)
(***************************************************************************)
EXTENDS Naturals, Sequences, SequencesExt

CONSTANTS MaxSize,     \* max_chunk_size
          Overlap,     \* characters of a full chunk that the next one repeats
          Paragraphs,  \* increasing sequences of sentence ends
          MaxLength    \* bound on the paragraphs of a text

ASSUME ChunkerAssumption ==
    /\ MaxSize \in Nat \ {0} /\ Overlap \in Nat /\ MaxLength \in Nat
    /\ Paragraphs \subseteq Seq(Nat \ {0}) \ {<<>>}
    /\ \A p \in Paragraphs : \A k \in 1..Len(p) - 1 : p[k] < p[k + 1]

VARIABLES rest,      \* the paragraphs still to be cut
          read,      \* the characters read so far
          newlines,  \* those of them that are newlines
          current,   \* the chunk being filled
          chunks,    \* the chunks that are full
          sentences, \* ends of the sentences of a long paragraph still to be gathered
          piece,     \* the sentences being gathered
          pieces,    \* the pieces that are full
          cutAt,     \* characters of the first piece that are cut off already
          loop       \* the loop that chunk_text is in

long == <<sentences, piece, pieces, cutAt>>
chunkerVars == <<rest, read, newlines, current, chunks, sentences, piece, pieces, cutAt, loop>>

ChunkerTypeOK ==
    /\ rest \in Seq(Paragraphs) /\ read \in Nat /\ newlines \subseteq 1..read
    /\ current \in Seq(Nat) /\ chunks \in Seq(Seq(Nat))
    /\ sentences \in Seq(Nat) /\ piece \in Seq(Nat) /\ pieces \in Seq(Seq(Nat)) /\ cutAt \in Nat
    /\ loop \in {"paragraphs", "sentences", "pieces", "returned"}

ChunkerInit ==
    /\ rest \in BoundedSeq(Paragraphs, MaxLength)
    /\ read = 0 /\ newlines = {} /\ current = <<>> /\ chunks = <<>>
    /\ sentences = <<>> /\ piece = <<>> /\ pieces = <<>> /\ cutAt = 0
    /\ loop = "paragraphs"

\* text[from:to]
Text(from, to) == [i \in 1..(to - from) |-> from + i]
Size(paragraph) == Last(paragraph)
Smaller(m, n) == IF m < n THEN m ELSE n
OrNone(text) == IF text = <<>> THEN <<>> ELSE <<text>>

---------------------------------------------------------------------------
(* The paragraphs.                                                         *)

TakeParagraph(paragraph) ==
    /\ loop = "paragraphs" /\ rest # <<>> /\ paragraph = Head(rest)
    /\ rest' = Tail(rest)
    /\ newlines' = newlines \cup {read + 1}

FitsChunk(paragraph) == Size(paragraph) <= MaxSize
Overflows(paragraph) == current # <<>> /\ Len(current) + Size(paragraph) + 1 > MaxSize
Letters(paragraph) == Text(read + 1, read + 1 + Size(paragraph))
Newline == <<read + 1>>

LongParagraph(paragraph) ==
    /\ TakeParagraph(paragraph) /\ ~FitsChunk(paragraph)
    /\ chunks' = chunks \o OrNone(current)
    /\ current' = <<>>
    /\ sentences' = [k \in 1..Len(paragraph) |-> read + 1 + paragraph[k]]
    /\ read' = read + 1
    /\ loop' = "sentences"
    /\ UNCHANGED <<piece, pieces, cutAt>>

\* A full chunk is put away; its tail is repeated if the paragraph fits behind it.
NextChunk(paragraph) ==
    /\ TakeParagraph(paragraph) /\ FitsChunk(paragraph) /\ Overflows(paragraph)
    /\ chunks' = Append(chunks, current)
    /\ current' = IF Overlap > 0 /\ Len(current) > Overlap
                     /\ Overlap + 1 + Size(paragraph) <= MaxSize
                  THEN SubSeq(current, Len(current) - Overlap + 1, Len(current))
                       \o Newline \o Letters(paragraph)
                  ELSE Letters(paragraph)
    /\ read' = read + 1 + Size(paragraph)
    /\ UNCHANGED <<loop, long>>

JoinParagraph(paragraph) ==
    /\ TakeParagraph(paragraph) /\ FitsChunk(paragraph) /\ ~Overflows(paragraph)
    /\ current' = (IF current = <<>> THEN <<>> ELSE current \o Newline) \o Letters(paragraph)
    /\ read' = read + 1 + Size(paragraph)
    /\ UNCHANGED <<chunks, loop, long>>

---------------------------------------------------------------------------
(* _split_long_paragraph: sentences are gathered while they fit.           *)

GatherSentence ==
    /\ loop = "sentences" /\ sentences # <<>>
    /\ LET sentence == Text(read, Head(sentences)) IN
       \/ /\ piece # <<>> /\ Len(piece) + Len(sentence) + 1 > MaxSize
          /\ pieces' = Append(pieces, piece)
          /\ piece' = sentence
       \/ /\ piece = <<>> \/ Len(piece) + Len(sentence) + 1 <= MaxSize
          /\ piece' = piece \o sentence
          /\ UNCHANGED pieces
    /\ read' = Head(sentences)
    /\ sentences' = Tail(sentences)
    /\ UNCHANGED <<rest, newlines, current, chunks, cutAt, loop>>

EndSentences ==
    /\ loop = "sentences" /\ sentences = <<>>
    /\ pieces' = pieces \o OrNone(piece)
    /\ piece' = <<>>
    /\ loop' = "pieces"
    /\ UNCHANGED <<rest, read, newlines, current, chunks, sentences, cutAt>>

\* Variant: one character is skipped between two cuts.
CutSkipping(at) == at + MaxSize + 1

\* _split_by_chars: range(0, len(text), max_size).
NextCut(at) == at + MaxSize

\* A piece that fits is one cut.
CutPiece ==
    /\ loop = "pieces" /\ pieces # <<>>
    /\ LET text == Head(pieces) IN
       /\ chunks' = Append(chunks, SubSeq(text, cutAt + 1, Smaller(cutAt + MaxSize, Len(text))))
       /\ \/ /\ NextCut(cutAt) < Len(text)
             /\ cutAt' = NextCut(cutAt)
             /\ UNCHANGED pieces
          \/ /\ NextCut(cutAt) >= Len(text)
             /\ cutAt' = 0
             /\ pieces' = Tail(pieces)
    /\ UNCHANGED <<rest, read, newlines, current, sentences, piece, loop>>

EndPieces ==
    /\ loop = "pieces" /\ pieces = <<>>
    /\ loop' = "paragraphs"
    /\ UNCHANGED <<rest, read, newlines, current, chunks, long>>

---------------------------------------------------------------------------
\* A tail may begin with a newline.
Strip(chunk) == IF Head(chunk) \in newlines THEN Tail(chunk) ELSE chunk

Return ==
    /\ loop = "paragraphs" /\ rest = <<>>
    /\ LET all == chunks \o OrNone(current) IN
       chunks' = [k \in 1..Len(all) |-> Strip(all[k])]
    /\ current' = <<>> /\ loop' = "returned"
    /\ UNCHANGED <<rest, read, newlines, long>>

ChunkerNext ==
    \/ \E paragraph \in Paragraphs : \/ LongParagraph(paragraph) \/ NextChunk(paragraph)
                                     \/ JoinParagraph(paragraph)
    \/ GatherSentence \/ EndSentences \/ CutPiece \/ EndPieces
    \/ Return

ChunkerSpec == ChunkerInit /\ [][ChunkerNext]_chunkerVars

---------------------------------------------------------------------------
(* Properties.                                                             *)

Window(chunk) == chunk # <<>> /\ chunk = Text(Head(chunk) - 1, Last(chunk))
EndOf(k) == IF k = 0 THEN 0 ELSE Last(chunks[k])

\* What chunk_text returns are windows over the text: no chunk is larger than the limit,
\* none begins or ends with a newline, each is a part of the text as it stands there, goes
\* on beyond the one before and leaves nothing but newlines out between them, and the last
\* one ends the text; however paragraphs, sentences and the repeated tails fall on the
\* limit (chunker.py chunk_text).
ChunksAreWindows ==
    loop = "returned" =>
        /\ \A k \in 1..Len(chunks) :
              /\ Len(chunks[k]) <= MaxSize /\ Window(chunks[k])
              /\ Head(chunks[k]) \notin newlines /\ Last(chunks[k]) \notin newlines
              /\ EndOf(k - 1) < EndOf(k)
              /\ \A x \in EndOf(k - 1) + 1 .. Head(chunks[k]) - 1 : x \in newlines
        /\ EndOf(Len(chunks)) = read
====
