---- MODULE MCDocumentIngestion ----
(* A text of one chunk and one of two, so that an edit can shrink or grow the document;
   two versions, so that an edit can be late for everybody who read the first.  How texts
   are cut into chunks is checked beside it, on texts around the limit of a chunk. *)
EXTENDS DocumentIngestion, Chunker

MCChunksOf == [t \in Texts |-> IF t = "short" THEN 1 ELSE 2]

\* One sentence, also of three cuts, two sentences of either kind, and three.
MCParagraphs == {<<n>> : n \in 1..9 \cup {13}} \cup {<<m, m + n>> : m, n \in {1, 3, 4, 6}}
                \cup {<<1, 8, 9>>}

\* Either the document is on its way, or a text is cut: they share no state.
Idle == rest = <<>> /\ loop = "returned"

MCInit ==
    /\ Init
    /\ \/ /\ rest = <<>> /\ read = 0 /\ newlines = {} /\ current = <<>> /\ chunks = <<>>
          /\ sentences = <<>> /\ piece = <<>> /\ pieces = <<>> /\ cutAt = 0 /\ loop = "returned"
       \/ ChunkerInit

MCNext == \/ Idle /\ chunks = <<>> /\ Next /\ UNCHANGED chunkerVars
          \/ ChunkerNext /\ UNCHANGED vars
MCSpec == MCInit /\ [][MCNext]_<<vars, chunkerVars>>
====
